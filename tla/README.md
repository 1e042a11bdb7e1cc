# Verification of the simple router (lab 4 and lab 5)

TLA+ models of the C router in `src/lab4/router` and of the controller it talks
to (`src/lab5/pox_module`, `src/ltprotocol`, and the parts of POX underneath),
model-checked with TLC on small instances and, where it matters most, proved
with TLAPS for every instance. `PROJECT.json` lists the runs, the mutants that
show that each property can fail, the source lines behind every definition, the
findings, the hazards and the theorems.

## 1. Inventory

The repository holds course labs. Its own core logic is a user-space IP router
in C; a Python controller module connects it to an emulated OpenFlow network.
The POX controller under `lab4/pox` and `lab5/pox` is third-party code, two
copies of which are most of the repository's lines; what of it carries the
router's traffic (OpenFlow connections, scheduler) is modelled from the copy in
`lab5/pox`.

| Component | State | Operations | Interacts with |
|---|---|---|---|
| ARP cache (`sr_arpcache.c`) | `entries` (100 slots), list `requests`, each with `times_sent`, `sent`, packets | `lookup`, `queuereq`, `insert`, `sweepreqs`, `arpreq_destroy`, thread `sr_arpcache_timeout` every second | called by the forwarding path under `cache->lock`; the sweeper sends ARP requests and ICMP messages |
| Forwarding (`sr_router.c`) | none of its own | `sr_handlepacket`, `sr_handle_ip`, `sr_handle_arp`, ICMP builders, `prefix_match`, `is_own_ip` | reads the routing table without a lock, uses the ARP cache, sends frames |
| Routing (`sr_rt.c`) | list `routing_table` (subnet, gateway, interface, metric, time) | `sr_build_rt`, `sr_rip_timeout` (thread, every 5 s), `send_rip_request`, `send_rip_response`, `update_route_table` | recursive mutex `rt_locker` around each operation; frames from and to other routers |
| Interfaces (`sr_if.c`) | `if_list`, `if_cache` (up/down) | add, set, `sr_update_interface_status`, `sr_obtain_interface_status` | filled by VNSHWINFO, changed by "up"/"down" messages, read by both threads |
| VNS client (`sr_vns_comm.c`) | socket | handshake, `sr_read_from_server_expect`, `sr_send_packet` | the controller; dispatches to all of the above |
| Main program (`sr_main.c`) | `sr_instance` | options, initialisation, main loop | starts everything |
| Router handler (`srhandler.py`) | `srclients`, `srclients_reverse`, `interfaces`, port maps | authentication, open, hardware information, packet relay | reactor thread: the router (VNS); POX thread: events of the OpenFlow handler; no lock between them |
| OpenFlow handler (`ofhandler.py`) | one `OFHandler` per switch connection | `ConnectionUp`, `PacketIn`, `PortStatus`, `SRPacketOut` | the switch, the router handler |
| Message framing (`ltprotocol.py`) | `packet`, `plen` | `dataReceived`, `pack_with_header`, connection callbacks | under the router handler; the router reads and writes the same format |
| OpenFlow connections (`pox/openflow/of_01.py`) | `Connection` (dpid, ports, deferred messages), the nexus, `DeferredSender` | handshake, port tracking, `send`, `disconnect`, deferred sending | switches; raises the events the OpenFlow handler listens to; written to by both threads |
| Scheduler (`pox/lib/recoco/recoco.py`) | `_ready`, hub queue and tasks, event, pinger, `_calls` | `run`, `cycle`, `_select`, `callLater`, timers, `quit` | runs the task that reads the switches; any thread may call `callLater` |
| Utilities (`sr_utils.c`, `sr_dumper.c`, `sha1.c`) | none | checksum, printing, dump | everywhere |

What is hard here:

* in the router three threads (main, sweeper, RIP) share the ARP cache and the routing table;
  locks are held per operation, not per packet, so whatever a handler learned
  from one call may be old at the next, and `sr_handle_ip` reads a routing
  entry with no lock at all;
* the distance-vector protocol runs between routers whose messages are delayed,
  reordered between interfaces, and lost while a link is down;
* requests, routes and mappings end by timeouts that race with answers;
* tables and packets are of fixed size;
* in the controller two threads share the tables of the router handler and the
  switch connections without a lock, routers and switches come and go, and what
  was registered for them stays;
* messages between router and controller are cut anywhere by TCP;
* sockets take part of what is written, and the rest is left to another thread
  that is told by a flag read without its lock;
* the scheduler and its hub hand tasks to each other by queue-then-signal pairs
  that any interleaving may split.

What makes each component correct: the cache neither loses, duplicates nor
reorders packets, never lets one wait for what it knows, and resolves every
wait; the routing protocol names only next hops on the link, never claims a
distance that is too short, converges, and forgets what is gone; the framing
delivers each message once and in order; a session of a router lasts, its frames
stay with its own switch and it learns of every change of its interfaces; the
controller's view of a switch's ports adds up and its events come in order; no
byte is lost on the way to a switch; no task or wake-up is lost in the scheduler.

## 2. Modules

| Module | Models | Proved about in |
|---|---|---|
| `SrArpCache` | `sr_arpcache.c`, the sweeper, and the main thread in `sr_handle_ip` (from the ARP lookup on) and `sr_handle_arp` | `SrArpCacheProofs` |
| `NextHopQueue` | what the cache promises: one first-in first-out line per next hop | |
| `SrRip` | `sr_rt.c` in a network of routers, with link failures and delayed status messages | `SrRipProofs` |
| `SrForward` | `sr_handle_ip` and the ICMP messages of `sr_router.c`, hop by hop through a network whose links and routes change | `SrForwardProofs` |
| `VnsSession` | `srhandler.py`, `ofhandler.py` and the session side of `sr_vns_comm.c`, in commands | `VnsSessionProofs` |
| `LtProtocol` | `ltprotocol.py` and the read and write loops of `sr_vns_comm.c`, in bytes | `LtProtocolProofs` |
| `MessageChannel` | what the framing promises: whole messages, in order, once | |
| `OpenFlow01` | `Connection`, handshake, ports and nexus of `of_01.py` | `OpenFlow01Proofs` |
| `DeferredSender` | `Connection.send` and the sender's thread of `of_01.py` | `DeferredSenderProofs` |
| `Recoco` | scheduler, hub and `callLater` of `recoco.py` | `RecocoProofs` |
| `MCSrArpCache`, `MCSrRip`, `MCSrForward`, `MCVnsSession`, `MCLtProtocol`, `MCOpenFlow01`, `MCDeferredSender`, `MCRecoco` | small instances | |

### SrArpCache

`entries` and `reqs` are `cache->entries` and `cache->requests`; the list of
requests is a function of the address, because `sr_arpcache_queuereq` never
lists an address twice and the order of requests is not observable. `gw[d]` is
the gateway field of the routing entry that matches `d`. `stage`, `cur`, `key`,
`hw`, `isRequest` and `pending` are the program counter and the locals of the
main thread; `due` says that the sweeper's sleep is over; `fate` and `strays` are
history: what became of each packet, and which packets wait under another address
than the one looked up for them.

Each function of `sr_arpcache.c` holds `cache->lock` from beginning to end and
is one step, and so is a whole pass of the sweeper. The main thread releases
the lock between calls, so `sr_handle_ip` is the steps `HandleIp`, `LookupHit` or
`LookupMiss`, then `SendNow`, or `Queue` and `AskNow`. It reads `match->gw` four times
without `rt_locker`: the test of line 243 (`TestGw`), the argument of the lookup, the
test of line 279 (`TestGw` again) and the argument of `sr_arpcache_queuereq`; each
reading takes what is there then (`Address`), so a packet may be looked up or queued
under address 0. `sr_handle_arp` is
`HandleArp`, one `FlushOne` per waiting packet, `FlushDone` and, for a request,
`SendArpRep`.

Details kept because they matter: the lookup loop returns the highest matching
slot; an insertion into a full cache is dropped; the comparison in the sweeper
is inside the call of `difftime` (`ResendDue`), so every pass sends again;
`times_sent` is counted per interface.

Abstractions. Time is the age of a mapping in seconds and saturates after the
last value the code can tell apart. The sweeper's pass is over before the next
second. The fields of an invalid slot are reset (they are never read). A packet that
was sent or refused may come again, so few packets stand for many.
`RouteLearned` is `update_route_table`, which runs in the main thread between
handlers; `RouteTakenOver` is `sr_rip_timeout`, which runs in its own thread,
and may hit a packet anywhere in the middle of `sr_handle_ip`. A frame that `sr_send_packet` refuses is not told apart from one that
is sent.

### NextHopQueue and the refinement

A packet arrives, looks its next hop up in its route (`LookUp`), and passes through
if nobody waits in the line of that next hop, or joins a line; a line leaves in order,
or is refused as a whole. Routes may change at any time, so the route may name another
next hop when the packet joins: then it is a stray, and strays are the only packets
that may be passed by. While a route changes it may read as address zero. `SrArpCache`
implements this (`ImplementsNextHopQueue`): the route of a packet is the gateway of
its routing entry, or its destination if the route is direct; its hop is the address
`sr_handle_ip` looked up; and the line of an address is what `sr_handle_arp` still has
to send followed by what is queued.

### SrRip

`table[r][n]` is the entry of router `r` for subnet `n` (absent, or metric,
interface, gateway, age); `status` is `if_cache`; `notice` holds the "up" and
"down" messages on their way to a router; `chan[i]` the RIP frames on their way
to interface `i`; `link` whether a link is up; `ticked` whether a RIP thread
has run in this period. The operations of `sr_rt.c` hold `rt_locker`, so each is
one step, with the response it triggers (`send_rip_response` is called with the
mutex held). Actions: `Start` (the VNSHWINFO handler), `sr_rip_timeout`,
`RecvResponse` (`update_route_table`), `RecvRequest`,
`sr_update_interface_status`, and the environment's `LinkChange` and
`NewPeriod`.

Details kept because they matter: a response from the entry's own interface
refreshes it and only an INFINITY changes its metric; any other response
replaces the entry only if it is shorter; deleted routes stay in the table with
INFINITY and are announced; split horizon leaves entries of the outgoing
interface out; an interface that is up takes its subnet's entry over; a router
that starts after a failure is never told of it.

Abstractions. Subnets are identities; a link joins at most two interfaces (as in
both topologies of the labs). What arrives at one interface arrives in order,
different interfaces are independent. A frame broadcast into a link that is down
is lost; frames and status messages that are under way are handled within the
period of five seconds (`NewPeriod` waits for them). Only the subnets in `Subnets`
are followed, which is sound because no entry depends on another; a response
that is triggered by an untracked subnet is not sent. The controller's
handshake is one step.

### SrForward

One packet of a host and whatever is sent because of it. Every handler sends at
most one packet on, so the journey is a single token: on the `wire` towards `at`,
in the ARP `queue` of interface `at` for next hop `hop`, or `ended` with an
`outcome`. `sr_handle_ip` is three actions, one per branch: `HandleBroadcast`,
`HandleOwn` and `Transit`. `Forward` and `send_unreachable_to_queued` are the two
ways out of the ARP queue that `SrArpCache` (`QueuedIsResolved`) leaves.
`sr_rip_timeout` and `update_route_table` are what `SrRip` may do to the routes:
an interface that is up makes its subnet direct, one that is down loses its
routes, and a neighbour may offer another route where the route is not direct, or
withdraw any route, direct or not, that uses the interface its response comes in on
(`sr_rt.c:475-483`).

Details kept because they matter: errors are sent about errors too; an error gets
a fresh TTL and goes out of the interface its packet came in on, a refusal of the
sweeper out of the one its packet was to leave by; an echo reply keeps what is left
of the request's TTL; both the status of the address asked for and that of the
receiving interface are looked at.

Abstractions. An address is the interface or host that has it; subnets are
disjoint, so `prefix_match` is the entry of the destination's subnet; checksums are
right; a frame reaches the other end of its link whatever its Ethernet destination
(routers do not look at it); hosts send with a TTL of at least 1 and do not answer.
The bound on changes also ends them with the journey.

### VnsSession

`interfaces`, `srclients` and `srclients_reverse` are the fields of
`SRServerListener`; `ofhandlers` the `OFHandler` objects ever made, `live` those
whose switch is connected; `router[v]` the process of a router (where in
`sr_connect_to_server` or the main loop it is, its interfaces and their status);
`toRouter` and `toServer` the commands under way. `relay` and `opening` are the
two places where one thread of the controller may be overtaken by the other:
`send_to_vhost` between looking the connection up and writing to it, and
`_handle_open_msg` between registering it and sending the hardware information.
All other handlers touch shared state once and are one step. `told` is history.
`StatusFollows` looks at the last report of an interface on its way to the router:
that one, or without one the router's own status, is the state of the port. Interfaces
also change while their switch is not connected (`UnseenChange`); nobody passes that
on (`ofhandler.py:70-80` looks at the names of ports only), so the property is
about interfaces whose last change was reported.

Details kept because they matter: the tables are never cleaned; every
`OFHandler` stays subscribed to `SRPacketOut`; an exception in a callback closes
the connection, and a router whose connection is closed spins
(`sr_vns_comm.c:354`); the template handler lacks `self`; status messages that
come before VNSHWINFO find no interface.

Abstractions. Commands are records (bytes are `LtProtocol`'s); authentication
succeeds; a frame is long enough to be looked at by `sr_arp_req_not_for_us`; a
router is started by hand, after the reactor has read what its last process sent.

### LtProtocol and MessageChannel

One router and one connection at a time, in both directions: `wire`, `packet`,
`plen` and the loop of `dataReceived` on the way up, `dwire` and the two `recv`
loops on the way down. TCP may deliver any piece; a write may be short, after
which the stream is out of step. Numbers are digits to a base, most significant
first, so that lengths can span bytes; a command, with its header, is shorter than
the length field can say (`LtAssumption`; the router's are below 2^32). A router that
reads a length over `MaxLen` (10000 bytes, `sr_vns_comm.c:375`; a negative length is
larger still as an unsigned number) closes its socket and ends (`TooLarge`,
`RouterGivesUp`). `AreChannels` states that each direction
implements `MessageChannel`, whose `broken` is the history variable `short`.

### OpenFlow01

`conn[c]` is a `Connection` object (handshake state, `original_ports`, `ports` as
changes and masks, deferred port status messages, the two disconnection flags),
`connections` the nexus. The task that reads handles one message per step;
`close` is a read that fails. `Connect`, `Leave`, `PortChange` and `Answer` are
the switch. A write to a switch that has gone is lost or fails, as TCP may have
it. `disconnect()` is also called by the sender's thread when the socket fails
(`of_01.py:486`), while the task may still read what the switch sent before it left:
`SenderDisconnects`, `SenderTests` and `SenderRaises` are its steps, and `close` and
`RaiseDown` the task's, cut between the test of `disconnection_raised` and the event,
because nothing synchronises the two. Which connections have data waiting for the
sender is `DeferredSender`'s matter; here any connection whose switch has gone may.
The answer to a barrier with another transaction id (`of_01.py:285-288`) is left out: a
connection sends one barrier, and its switch has no other to answer. `log` and `known` are what listeners heard. `After(v, msgs)` is what ports `v`
become by the port status messages in `msgs`, the last one about a port deciding;
`PortsFollow` applies it to what the controller knows and what is under way.

### DeferredSender

`send`, `SendDirect` and `defer` are the three steps of `Connection.send` at
which another thread can get in: the flag, the socket, the lock. The sender's
thread copies the keys, calls `select`, and makes a pass under the lock, one
`sock.send` per step. Which thread writes to which connection is a constant. A
socket takes any number of bytes that fit. A byte is the number of its message and its
place in it, so no two are the same; `msgs` and `accepted` are history: the messages
sent so far, and how many of them for each connection. `StreamIntact` compares what
the socket took, what waits, and what the calls in progress hold with all the bytes
given to `send`: as sets without repetition, and with one writer as sequences.

### Recoco

Every statement that touches what threads share is a step: the scheduler's loop
(`Check`, `Wait`, `Clear`, `Pop`, the tasks), the hub's loop (`Build`, select, pong,
draining the queue, returning tasks one by one) and a thread inside `callLater`.
`hand` is what the hub is about to return, `readable` and `due` what it would see.
`core.quit` is a `callLater` of `Scheduler.quit`. The tasks are those the labs
use: readers of sockets, timers, `CallLaterTask` and its `ScheduleTask`. Left out are
`callLater` from the scheduler's own thread (`schedule` then puts the task on the queue
without a `ScheduleTask`, `recoco.py:202-214`; in the labs only `core.quit` calls it, from
other threads) and a task that raises, which `cycle` drops (`OpenFlow_01_Task` catches
what its handlers raise, and `CallLaterTask` what the functions raise).

## 3. Runs

| Run | Expect | States, time | Shows |
|---|---|---|---|
| `Arp` | pass | 676,000, 140 s | `TypeOK`, `KnownNeverWaits`, `NoOvertaking`, `OnePlace`, `EntriesExpire`, `ImplementsNextHopQueue` (refinement), `QueuedIsResolved`, routes changing at any moment |
| `RipStart` | pass | 661,000, 170 s | `TypeOK`, `NoUnderestimate`, `ConvergesToShortest` from any start-up order, the stub subnet failing at any moment |
| `RipFails` | pass | 622,000, 130 s | `NextHopOnLink`, `NoCountingUp`, `FailuresForgotten` from the converged state, three failures or repairs of the stub subnet and of a link between routers |
| `RipStale` | violation | 130 s | `StaleRoutesDie` fails with the same changes: routers keep a route to a subnet that is down |
| `RipLineRecovers` | violation | 2 s | `RecoversWhenUp` fails: a subnet that comes back stays unreachable |
| `Forward` | pass | 408,000, 130 s | `TypeOK`, `PacketsEnd`, `SenderIsTold`, with straight or circular routes and two changes of links or routes |
| `VnsSession` | pass | 398,000, 70 s | `TypeOK`, `SessionsLast`, `FramesStayWithVhost`, `StatusFollows`, `GetsInterfaces`, routers restarted, switches reconnecting and interfaces changing |
| `VnsAssert` | violation | 3 s | `AssertIface` fails: a frame reaches a router before its interfaces |
| `LtProtocol` | pass | 86,000, 30 s | `TypeOK`, `Reassembles`, `AreChannels` (refinement), `EventuallyHandled` |
| `OpenFlow01` | pass | 553,000, 180 s | `TypeOK`, `PortsFollow`, `EventsInOrder`, `NexusAccurate`, `ComesUp`, `GoesDown` |
| `DeferredSender` | pass | 587,000, 70 s | `TypeOK`, `StreamIntact`, `FlagCoversData`, `Drains` |
| `Recoco` | pass | 196,000, 90 s | `TypeOK`, `OnePlace`, `CallsExecuted`, `Wakes`, `Quits` |

Bounds. `Arp` has two packets, two hosts that are attached or behind the
same gateway, so that two packets can wait in one line or in two, a cache of two
slots for three addresses, so that it overflows, a timeout of one second, two
interfaces and `MaxTimesSent` = 3, so that `times_sent` skips the limit as it skips the
code's 5. The RIP
runs use the triangle of lab 5 with the client's subnet, or two routers in a line.
`INFINITY` is 5 in `RipFails` and `RipStale`: a circle of three routers needs
metrics 1, 2 and 3 and a fourth to refresh them, so a smaller value hides stale routes
that go round in a circle; `RipStart`, about start-up and convergence, has the least
value the triangle's distances leave room for, 3. `ExpireAge` is 1 period, the least at
which a route can be refreshed in time. `ChanCap` = 1 keeps a router from starting
a periodic round while a frame of its last round is unhandled; triggered updates
are not limited by it. `MaxFlaps` counts failures and repairs; three of them (the
subnet, a link, and that link's repair) are what it takes to lose a poisoned update.
`FlapNets` leaves one of the two mirror-image links out. `RipFails` and `RipStale`
start in the converged state, which `RipStart` shows is reached.
`Forward` has the client and a server in the triangle; `ipttl` = 3 is the least with
which an error gets back over two routers, and enough for a loop of two; two changes
are what it takes for a link to fail and come back while its ends still think it is
down.
`VnsSession` has two vhosts, so that something can go to the wrong one, two starts
of routers (two vhosts once, or one restarted), two connections of switches (one
each, or one that comes back), one interface each at different ports, and two frames or
status changes besides the RIP requests at the start. `LtProtocol` has commands of
3, 4 and 5 bytes over digits to base 4, so that a length fills one digit or two,
the longest one byte too long for the router, three commands, one short write and one reconnection. `OpenFlow01` has one switch
(connections of different switches share nothing but the nexus, which is keyed by
switch), two connections, so that an old one can end after the new one begins, and
two changes of a port, so that one phase of the handshake can follow another with a
change in each. `DeferredSender` has
messages of three bytes, slices of two and sockets that hold one, so that every
message is cut both ways; two connections, because the flag is shared by all, and
three messages in all, so that two can follow each other on either.
`Recoco` has one worker, two calling threads and two calls, one of which may be quit.

Fairness. ARP: the clock ticks, the sweeper thread is scheduled, and the main
thread does not stop inside a handler (it never blocks but on `cache->lock`);
nothing is assumed about answers. RIP: every router is started, and the network
does not stand still; links need not fail or recover. Since a period ends only
when every RIP thread has run and every message was handled, this gives every
thread its turn. Forwarding: routers and hosts handle what arrives, and the
status messages and RIP threads are not held up for ever; links and neighbours need
do nothing. VnsSession and LtProtocol: reactor, POX thread and router read what
arrives; nobody need be started, and no piece of the stream need be of any size.
OpenFlow01: the task goes on reading and a switch answers while it is there.
DeferredSender: threads go on, a thread that wants the lock gets it in the end
(strong fairness, because the sender's thread takes it again and again but waits in
`select` without it), and switches read. Recoco: both threads and the callers run,
and time passes; the timeout of an idle scheduler is possible but not fair, so no
property leans on it. In the runs of these five modules deadlock is not checked:
their bounds let everything come to rest.

## 4. Findings

1. `sr_rt.c:480`: no recovery through the same neighbour (`RipLineRecovers`).
2. `sr_rt.c:478`: any response on its interface refreshes an entry. A subnet and a link
   between routers fail together; the poisoned update is lost on that link; the link is
   repaired, and the router behind it teaches its stale route to its neighbours,
   whose responses refresh it in turn: the three keep a route to a subnet that is down
   for ever (`RipStale`). Without the repair the route is forgotten
   (`FailuresForgotten`).
3. `sr_vns_comm.c:680`: the controller registers a connection before it sends the
   interfaces, and the other thread may relay a frame in between; if the switch is
   announced only later, the interfaces never come at all (`VnsAssert`).

Seen while modelling, without a run of their own.

Router:

* `sr_router.c:279` tests the gateway again after the lookup, without `rt_locker`: a
  packet whose gateway missed may be queued under its destination, also when the cache
  knows it, and waits until somebody answers for it or it is refused. Between the
  test and the use (`:243`/`:244`, `:279`/`:283`) the gateway may become 0, and the
  packet is looked up or waits under address 0. Such packets are the strays of
  `KnownNeverWaits` and `NextHopQueue`; `OnePlace` and `QueuedIsResolved` hold for them.
* `sr_arpcache.c:81` counts `times_sent` per interface: with two interfaces a
  request is given up after three rounds, where `sr_arpcache.h:51` says five.
* `sr_arpcache.c:210`: a full cache drops the mapping; `:106`: an older mapping in a
  higher slot hides a newer one.
* `sr_arpcache.c:65` compares inside `difftime`, so requests are sent on every pass;
  `sr_router.c:285` asks for the destination while the packet waits for the gateway;
  `sr_arpcache.c:44` sends the refusal towards the next hop, with the port code.
* `sr_router.c:558`: an echo reply keeps what is left of the request's TTL, and may
  be refused on the way back; the line that sets it is in a comment.
* `sr_vns_comm.c:354-371`, `:394-410`: `recv` returning 0 is not taken for the end.
* `sr_vns_comm.c:624`: after a short write the rest of the command is never sent.

Controller:

* `srhandler.py:169`: a router that opens before its switch is announced gets no
  interfaces, then or later; `GetsInterfaces` is about the other order.
* `srhandler.py:157`: the tables are not cleaned when a router leaves.
* Status messages before VNSHWINFO is handled are lost, a restarted router takes
  all its interfaces to be up, and a change while the switch is not connected is
  reported only with the next one.
* `srhandler.py:194` lacks `self`; `:175` sends a string where a message is expected.
* `of_01.py:869`: the POX thread (`ofhandler.py:103`) and the reactor thread (`:123`)
  write to one connection, and can get between each other's bytes: of such a
  connection `StreamIntact` says only that no byte is lost or doubled.
* `of_01.py:459`: a connection closed with data waiting makes `select` raise and ends
  the sender's thread, because `kill` (`:840`) is in a comment.
* `openflow/__init__.py:402`: the nexus forgets by datapath id, so the late end of an
  old connection removes the entry of the new one.
* `of_01.py:486`: the sender's thread raises ConnectionDown itself. If the barrier reply
  is still to be read then, ConnectionUp is raised after ConnectionDown and never taken
  back, and the connection is entered in the nexus until the task closes it; if both
  threads pass the test of line 834 ConnectionDown comes twice. `EventsInOrder` says
  how far the order goes nevertheless.
* `of_01.py:332`, `:833`: `dpid` is set by the features reply, so ConnectionDown may
  be raised for a connection that was never announced.
* `of_01.py:652`: a port looked up by name or address may be found in the original
  ports after it was renamed.
* `recoco.py:668`: nothing catches an exception of the hub's `select`.

## 5. Proofs

TLAPS proves every safety property that a run checks, for every value of the
constants that satisfies the assumptions of the module (`ArpConstants`;
`RipConstants` and `DistAssumption`; `ForwardConstants` and `RoutesAssumption`;
`SessionAssumption`; `LtAssumption`; `OfAssumption`; `SenderAssumption`;
`RecocoAssumption`). Each follows from an inductive invariant, with one lemma per
action and, where most actions leave a part alone, a frame lemma for that part.

SrArpCache:

* `ArpTypes`: types. `TypeInv` adds `InHand`: the main thread has a packet in
  hand while it forwards, otherwise its route need not be one.
* `ArpEntriesExpire`, from `ExpireInv`.
* `ArpOnePlace`, from `PlaceInv`: types, that nothing is left to flush outside
  `sr_handle_arp`, and the property itself, part by part.
* `ArpKnownNeverWaits` and `ArpNoOvertaking`, with the RIP thread free to rewrite any
  route at any moment. They are not inductive alone: `WaitInv` joins `PlaceInv`, the two
  properties and `LookedUp`, which says what the main thread's key is between lookup
  and queue. Two facts are the heart: the sweeper can only shrink what the cache knows
  and who waits, and a packet joins the line it looked at or becomes a stray.
* `ArpImplementsNextHopQueue`: every step is a step or a stutter of `NextHopQueue`, where
  each packet is held to the next hop its own route names. `RefineInv` joins `WaitInv`
  with `FlushingAlone`: while `sr_handle_arp` sends, nothing new waits for that address,
  so the line that is sent and the line that is queued are never both there.

SrRip and SrForward:

* `RipTypes`, `RipNextHop` and `RipNoUnderestimate`, from the inductive invariant
  `RipInv`, which joins them with `FramesFromPeer`: what a table says follows from
  what frames say, and the other way round, so both are strengthened together,
  entry by entry (`EntryOK`) and frame by frame (`FrameOK`). `DistAssumption` only
  says that `Dist` is 0 at attached routers and changes by at most one over a link.
* `RipNoCountingUp`: an action property, from `RipInv` and `AbsentIsInfinite`.
* `ForwardTypes`: `TypeOK` of `SrForward`, which is inductive as it stands. What it
  says beyond types is that a TTL of 0 is never sent: only `Transit` decrements, and
  only after TTL 1 was refused.

VnsSession: `SessionTypes`, `SessionsDoLast` and `SessionFramesStay` from `SessionInv`,
which says for each stage of a router which commands may be under way (`StageOK`), what
the tables say of a connection (`TablesOK`, `ConnOK`), that the last VNSOPEN of a
vhost is that of its running process (`LatestOK`), and where a frame left (`OutOK`).
`SessionStatusFollows` is proved on top of it, interface by interface: a relayed
report becomes the last one under way, and reading the last one sets the status.

OpenFlow01: `OfTypes`, `OfEventsInOrder`, `OfNexusAccurate` and `OfPortsFollow`, from
`OfInv`. `PortsFollow` is not inductive: before the features reply is handled the
controller knows nothing yet. `Good` adds that a features reply under way, with the
port status messages behind it, adds up to the ports; `OneSwitch` that a connection
is used by one switch and its reply names that switch; `StageFine` ties what a
connection holds to its stage, and `LogFine` the events raised to where the task and the
sender's thread are with it: before the task has closed a connection only the sender
can have raised ConnectionDown, and the other way round, so there are never three. That handling the kept messages
one by one (a fold over `Tracked`) gives the same ports as `After` is `TrackedAll`.

DeferredSender: `SenderTypes` and `SenderFlagCoversData` from `SenderInv`, which adds
which connections have data and `DirectFirst`: a thread about to write directly, alone
on its connection, has nothing waiting there. That is what makes order hold in
`SenderStreamIntact`, proved with one lemma per step that moves bytes.

Recoco: `RecocoTypes`, `RecocoOnePlace` and `RecocoCallsInOrder` (the safety part of
`CallsExecuted`) from `RecocoInv`. Places are counted: every step takes a task from one
place and puts it in another, so the sum stays 1; `ThreadsOK` and `CallsOK` say what
scheduler, hub and callers hold in between.

LtProtocol: `LtTypes`, `LtReassembles` and the refinement `LtAreChannels`, from `LtInv`.
`UnpackPack` proves that a number that fits its field survives packing and unpacking,
for any base and width; `PackedFacts` that a packed command says how long it is and
unpacks to itself. The invariant says that what was read and what is on its way are
the packed commands not yet handled (`Carries`). `CarriesTake` is the heart: two
cuts of the same bytes have the same beginning, so the first length read is that of the
first command, and the loop delivers that one, wherever TCP cut the stream. Upwards
this holds until a short write; `LtReassembles` holds beyond it.

Induction over lengths and powers is done with sets: `SetInduction` (a set of numbers
with 0 and closed under + 1 is `Nat`) follows from `WFMin`, and the recursive functions
and folds (`Power`, `FoldLeft`, `FlattenSeq`) are characterised by the functions that
satisfy their equations, which are shown to exist and to be unique. `SrForward`'s
theorem apart, the theorems are about `Spec` without fairness, and so about
`FairSpec`, which implies it.

Only model-checked is what needs fairness, which is out of this prover's reach:
`QueuedIsResolved`, `ConvergesToShortest`, `FailuresForgotten`, `PacketsEnd`,
`SenderIsTold`, `GetsInterfaces`, `EventuallyHandled`, `ComesUp`, `GoesDown`, `Drains`,
`Wakes`, `Quits` and the second part of `CallsExecuted`.

## 6. Not modelled, and the plan

Not modelled: printing, packet dumps, SHA-1, option parsing, the static routing
table of lab 4 (`sr_load_rt`), the test and grading scripts. Of POX, the two copies
of which make up nearly all Python lines of the repository, the models cover what the
labs run on: the connections to the switches and the scheduler. The rest is left
out: `libopenflow_01.py`, `nicira.py` and `pox/lib/packet` are conversions between
objects and bytes without state; the forwarding examples, discovery, spanning tree,
the software switch, messenger, web and telnet servers and the documentation tools
are not loaded by the labs. `lab4/pox` and `lab4/pox_module` are earlier copies of
what is modelled from `lab5`.

Plan, in this order:

1. `SrPrefixMatch`: `prefix_match` over a list with overlapping subnets, checked
   against longest prefix match for masks in network byte order; in `SrForward`,
   a run with a silent host, whose refusals go the wrong way.
2. `SrRouteTable`: the table as a list, the start-up race of the RIP thread with
   VNSHWINFO, and the size of a RIP packet.
3. Proofs of the safety part of the liveness arguments: what bounds the journey of a
   packet in `SrForward` between two changes, and the rounds of a request in
   `SrArpCache`.
