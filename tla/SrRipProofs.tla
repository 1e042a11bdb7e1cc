---------------------------- MODULE SrRipProofs ----------------------------
(***************************************************************************)
(* Proofs about SrRip for every topology, every INFINITY and any number of *)
(* failures: types, NextHopOnLink, NoUnderestimate and NoCountingUp.       *)
(***************************************************************************)
EXTENDS SrRip, TLAPS

(* The inductive invariant.  FramesFromPeer is what makes the gateway an   *)
(* entry learns the other end of its link, and the distance a response is  *)
(* compared with that of a neighbour.                                      *)
RipInv == TypeOK /\ FramesFromPeer /\ NextHopOnLink /\ NoUnderestimate

(* The same invariant entry by entry and frame by frame.                   *)
EntryOK(r, n, e) ==
    /\ e \in Entry
    /\ e.metric = INFINITY \/ e.metric >= Dist[r][n]
    /\ e.present =>
         /\ e.iface \in Ifaces /\ Owner[e.iface] = r
         /\ e.gw = NoIface => Net[e.iface] = n /\ e.metric \in {0, INFINITY}
         /\ e.gw # NoIface => e.gw = Peer[e.iface] /\ e.metric > 0

TableOK(r, t) ==
    /\ t \in [Subnets -> Entry]
    /\ \A n \in Subnets : EntryOK(r, n, t[n])

FrameOK(j, m) ==
    /\ m \in Message
    /\ Peer[j] # NoIface /\ m.src = Peer[j]
    /\ \A n \in DOMAIN m.entries :
         m.entries[n] = INFINITY \/ m.entries[n] >= Dist[Owner[m.src]][n]

ChansOK(c) ==
    /\ c \in [Ifaces -> Seq(Message)]
    /\ \A j \in Ifaces : \A k \in 1 .. Len(c[j]) : FrameOK(j, c[j][k])

OthersOK ==
    /\ status \in [Ifaces -> BOOLEAN]
    /\ notice \in [Ifaces -> Seq({"up", "down"})]
    /\ started \in [Routers -> BOOLEAN]
    /\ ticked \in [Routers -> BOOLEAN]
    /\ link \in [Nets -> BOOLEAN]
    /\ flaps \in 0 .. MaxFlaps

TablesOK ==
    /\ table \in [Routers -> [Subnets -> Entry]]
    /\ \A r \in Routers : TableOK(r, table[r])

-----------------------------------------------------------------------------
(* Lemmas about the operators.                                             *)

(* The fields of a frame, without the union in its type.                   *)
LEMMA MessageFields ==
    ASSUME NEW m \in Message
    PROVE  /\ m.command \in {1, 2} /\ m.src \in Ifaces
           /\ DOMAIN m.entries \subseteq Subnets
           /\ \A n \in DOMAIN m.entries : m.entries[n] \in 0 .. INFINITY
  BY DEF Message

LEMMA MessageIntro ==
    ASSUME NEW c \in {1, 2}, NEW i \in Ifaces, NEW S \in SUBSET Subnets,
           NEW f \in [S -> 0 .. INFINITY]
    PROVE  [command |-> c, src |-> i, entries |-> f] \in Message
  BY DEF Message

LEMMA ResponseType ==
    ASSUME NEW t \in [Subnets -> Entry], NEW i \in Ifaces
    PROVE  Response(t, i) \in Message
  <1> DEFINE S == {k \in Subnets : t[k].present /\ t[k].iface # i}
             f == [n \in S |-> t[n].metric]
  <1>1. f \in [S -> 0 .. INFINITY]
    BY DEF Entry
  <1>2. S \in SUBSET Subnets
    OBVIOUS
  <1>3. QED
    BY <1>1, <1>2, MessageIntro DEF Response

LEMMA RequestType ==
    ASSUME NEW i \in Ifaces
    PROVE  Request(i) \in Message
  <1>1. [n \in {} |-> 0] \in [{} -> 0 .. INFINITY]
    OBVIOUS
  <1>2. QED
    BY <1>1, MessageIntro DEF Request

(* Every hop adds one, up to INFINITY.                                     *)
LEMMA HopFacts ==
    ASSUME NEW m \in 0 .. INFINITY
    PROVE  /\ Hop(m) \in 0 .. INFINITY /\ Hop(m) > 0
           /\ Hop(m) = INFINITY \/ (m # INFINITY /\ Hop(m) = m + 1)
  BY RipConstants DEF Hop

LEMMA NoEntryType == NoEntry \in Entry
  BY RipConstants DEF NoEntry, Entry

LEMMA DirectType ==
    ASSUME NEW i \in Ifaces
    PROVE  Direct(i) \in Entry
  BY RipConstants DEF Direct, Entry

LEMMA LearnedType ==
    ASSUME NEW m \in 0 .. INFINITY, NEW i \in Ifaces, NEW g \in Ifaces
    PROVE  Learned(m, i, g) \in Entry
  BY RipConstants DEF Learned, Entry

LEMMA UpdatedType ==
    ASSUME NEW e \in Entry, NEW m \in 0 .. INFINITY, NEW i \in Ifaces, NEW g \in Ifaces
    PROVE  Updated(e, m, i, g) \in Entry
  <1>1. CASE ~e.present
    BY <1>1, LearnedType DEF Updated
  <1>2. CASE e.present /\ e.iface = i
    <2>1. 0 \in 0 .. ExpireAge + 1 /\ INFINITY \in 0 .. INFINITY
      BY RipConstants
    <2>2. QED
      BY <1>2, <2>1 DEF Updated, Entry
  <1>3. CASE e.present /\ e.iface # i
    BY <1>3, LearnedType DEF Updated
  <1>4. QED
    BY <1>1, <1>2, <1>3

(* CHOOSE in sr_build_rt and Checked picks an interface that exists.       *)
LEMMA OwnIface ==
    ASSUME NEW r, NEW n, \E i \in Ifaces : Owner[i] = r /\ Net[i] = n
    PROVE  LET c == CHOOSE i \in Ifaces : Owner[i] = r /\ Net[i] = n
           IN c \in Ifaces /\ Owner[c] = r /\ Net[c] = n
  OBVIOUS
-----------------------------------------------------------------------------
(* Lemmas about entries.                                                   *)

LEMMA DirectOK ==
    ASSUME NEW i \in Ifaces, Net[i] \in Subnets
    PROVE  EntryOK(Owner[i], Net[i], Direct(i))
  <1>1. Direct(i) \in Entry
    BY DirectType
  <1>2. Dist[Owner[i]][Net[i]] = 0
    BY DistAssumption
  <1>3. QED
    BY <1>1, <1>2 DEF EntryOK, Direct

(* An entry may be declared unreachable at any time.                       *)
LEMMA PoisonedOK ==
    ASSUME NEW r, NEW n, NEW e, EntryOK(r, n, e)
    PROVE  EntryOK(r, n, [e EXCEPT !.metric = INFINITY])
  <1>1. INFINITY \in 0 .. INFINITY /\ INFINITY > 0
    BY RipConstants
  <1>2. [e EXCEPT !.metric = INFINITY] \in Entry
    BY <1>1 DEF EntryOK, Entry
  <1>3. QED
    BY <1>1, <1>2 DEF EntryOK, Entry

LEMMA ExpiredOK ==
    ASSUME NEW r, NEW n, NEW e, EntryOK(r, n, e)
    PROVE  EntryOK(r, n, Expired(e))
  BY PoisonedOK DEF Expired

LEMMA CheckedOK ==
    ASSUME NEW r \in Routers, NEW n \in Subnets, NEW e, EntryOK(r, n, e)
    PROVE  EntryOK(r, n, Checked(r, n, e))
  <1>1. CASE \E i \in Ifaces : Owner[i] = r /\ Net[i] = n /\ status[i]
    <2> DEFINE c == CHOOSE i \in Ifaces : Owner[i] = r /\ Net[i] = n
    <2>1. c \in Ifaces /\ Owner[c] = r /\ Net[c] = n
      BY <1>1, OwnIface
    <2>2. EntryOK(r, n, Direct(c))
      BY <2>1, DirectOK
    <2>3. QED
      BY <1>1, <2>2 DEF Checked
  <1>2. CASE ~ \E i \in Ifaces : Owner[i] = r /\ Net[i] = n /\ status[i]
    BY <1>2, PoisonedOK DEF Checked
  <1>3. QED
    BY <1>1, <1>2

LEMMA AgedOK ==
    ASSUME NEW r, NEW n, NEW e, EntryOK(r, n, e)
    PROVE  EntryOK(r, n, Aged(e))
  <1>1. CASE e.present /\ e.age <= ExpireAge
    <2>1. e.age + 1 \in 0 .. ExpireAge + 1
      BY <1>1, RipConstants DEF EntryOK, Entry
    <2>2. [e EXCEPT !.age = e.age + 1] \in Entry
      BY <2>1 DEF EntryOK, Entry
    <2>3. EntryOK(r, n, [e EXCEPT !.age = e.age + 1])
      BY <2>2 DEF EntryOK, Entry
    <2>4. QED
      BY <1>1, <2>3 DEF Aged
  <1>2. CASE ~(e.present /\ e.age <= ExpireAge)
    BY <1>2 DEF Aged
  <1>3. QED
    BY <1>1, <1>2

(* What a frame says, one hop further, is a lower bound here.              *)
LEMMA HopBound ==
    ASSUME NEW i \in Ifaces, NEW msg, FrameOK(i, msg), NEW n \in DOMAIN msg.entries
    PROVE  /\ n \in Subnets
           /\ Hop(msg.entries[n]) \in 0 .. INFINITY /\ Hop(msg.entries[n]) > 0
           /\ \/ Hop(msg.entries[n]) = INFINITY
              \/ Hop(msg.entries[n]) >= Dist[Owner[i]][n]
  <1> DEFINE m == msg.entries[n]
  <1>1. n \in Subnets /\ m \in 0 .. INFINITY
    BY MessageFields DEF FrameOK
  <1>2. Peer[i] \in Ifaces /\ Owner[i] \in Routers /\ Owner[Peer[i]] \in Routers
    BY RipConstants DEF FrameOK
  <1>3. m = INFINITY \/ m >= Dist[Owner[Peer[i]]][n]
    BY DEF FrameOK
  <1>4. /\ Dist[Owner[i]][n] <= Dist[Owner[Peer[i]]][n] + 1
        /\ Dist[Owner[i]][n] \in Nat /\ Dist[Owner[Peer[i]]][n] \in Nat
    BY <1>1, <1>2, DistAssumption DEF FrameOK
  <1>5. QED
    BY <1>1, <1>3, <1>4, HopFacts, RipConstants

LEMMA LearnedOK ==
    ASSUME NEW i \in Ifaces, NEW msg, FrameOK(i, msg), NEW n \in DOMAIN msg.entries
    PROVE  EntryOK(Owner[i], n, Learned(Hop(msg.entries[n]), i, msg.src))
  <1>1. msg.src = Peer[i] /\ msg.src \in Ifaces /\ msg.src # NoIface
    BY RipConstants DEF FrameOK
  <1>2. Learned(Hop(msg.entries[n]), i, msg.src) \in Entry
    BY <1>1, HopBound, LearnedType
  <1>3. QED
    BY <1>1, <1>2, HopBound DEF EntryOK, Learned

LEMMA UpdatedOK ==
    ASSUME NEW i \in Ifaces, NEW msg, FrameOK(i, msg), NEW n \in DOMAIN msg.entries,
           NEW e, EntryOK(Owner[i], n, e)
    PROVE  EntryOK(Owner[i], n, Updated(e, Hop(msg.entries[n]), i, msg.src))
  <1> DEFINE m == Hop(msg.entries[n])
  <1>1. EntryOK(Owner[i], n, Learned(m, i, msg.src))
    BY LearnedOK
  <1>2. CASE ~e.present
    BY <1>1, <1>2 DEF Updated
  <1>3. CASE e.present /\ e.iface = i
    <2> DEFINE a == [e EXCEPT !.age = 0]
    <2>1. a \in Entry
      BY RipConstants DEF EntryOK, Entry
    <2>2. EntryOK(Owner[i], n, a)
      BY <2>1 DEF EntryOK, Entry
    <2>3. EntryOK(Owner[i], n, [a EXCEPT !.metric = INFINITY])
      BY <2>2, PoisonedOK
    <2>4. [a EXCEPT !.metric = e.metric] = a
      BY DEF EntryOK, Entry
    <2>5. Updated(e, m, i, msg.src)
            = [a EXCEPT !.metric = IF m = INFINITY THEN INFINITY ELSE e.metric]
      BY <1>3 DEF Updated, EntryOK, Entry
    <2>6. QED
      BY <2>2, <2>3, <2>4, <2>5
  <1>4. CASE e.present /\ e.iface # i
    BY <1>1, <1>4 DEF Updated
  <1>5. QED
    BY <1>2, <1>3, <1>4
-----------------------------------------------------------------------------
(* Lemmas about tables and channels.                                       *)

LEMMA InvParts == RipInv <=> OthersOK /\ TablesOK /\ ChansOK(chan)
  <1>1. RipInv => OthersOK /\ TablesOK /\ ChansOK(chan)
    <2> SUFFICES ASSUME RipInv PROVE OthersOK /\ TablesOK /\ ChansOK(chan)
      OBVIOUS
    <2>1. OthersOK
      BY DEF RipInv, TypeOK, OthersOK
    <2>2. TablesOK
      BY DEF RipInv, TypeOK, TablesOK, TableOK, EntryOK, NextHopOnLink, NoUnderestimate
    <2>3. ChansOK(chan)
      BY DEF RipInv, TypeOK, ChansOK, FrameOK, FramesFromPeer, NoUnderestimate
    <2>4. QED
      BY <2>1, <2>2, <2>3
  <1>2. OthersOK /\ TablesOK /\ ChansOK(chan) => RipInv
    <2> SUFFICES ASSUME OthersOK, TablesOK, ChansOK(chan) PROVE RipInv
      OBVIOUS
    <2>1. TypeOK
      BY DEF TypeOK, OthersOK, TablesOK, ChansOK
    <2>2. FramesFromPeer
      BY DEF FramesFromPeer, ChansOK, FrameOK
    <2>3. NextHopOnLink
      BY DEF NextHopOnLink, TablesOK, TableOK, EntryOK
    <2>4. NoUnderestimate
      BY DEF NoUnderestimate, TablesOK, TableOK, EntryOK, ChansOK, FrameOK
    <2>5. QED
      BY <2>1, <2>2, <2>3, <2>4 DEF RipInv
  <1>3. QED
    BY <1>1, <1>2

LEMMA InvPartsNext ==
    ASSUME OthersOK', TablesOK', ChansOK(chan')
    PROVE  RipInv'
  <1>1. TypeOK'
    BY DEF TypeOK, OthersOK, TablesOK, ChansOK
  <1>2. FramesFromPeer'
    BY DEF FramesFromPeer, ChansOK, FrameOK
  <1>3. NextHopOnLink'
    BY DEF NextHopOnLink, TablesOK, TableOK, EntryOK
  <1>4. NoUnderestimate'
    BY DEF NoUnderestimate, TablesOK, TableOK, EntryOK, ChansOK, FrameOK
  <1>5. QED
    BY <1>1, <1>2, <1>3, <1>4 DEF RipInv

(* A response repeats what the table says, so it is as good as the table.  *)
LEMMA ResponseOK ==
    ASSUME NEW j \in Ifaces, Peer[j] # NoIface,
           NEW t, TableOK(Owner[Peer[j]], t)
    PROVE  FrameOK(j, Response(t, Peer[j]))
  <1>1. Peer[j] \in Ifaces
    BY RipConstants
  <1>2. Response(t, Peer[j]) \in Message
    BY <1>1, ResponseType DEF TableOK
  <1>3. \A n \in DOMAIN Response(t, Peer[j]).entries :
          n \in Subnets /\ Response(t, Peer[j]).entries[n] = t[n].metric
    BY DEF Response
  <1>4. Response(t, Peer[j]).src = Peer[j]
    BY DEF Response
  <1>5. QED
    BY <1>2, <1>3, <1>4 DEF FrameOK, TableOK, EntryOK

LEMMA RequestOK ==
    ASSUME NEW j \in Ifaces, Peer[j] # NoIface
    PROVE  FrameOK(j, Request(Peer[j]))
  <1>1. Request(Peer[j]) \in Message
    BY RequestType, RipConstants
  <1>2. Request(Peer[j]).src = Peer[j] /\ DOMAIN Request(Peer[j]).entries = {}
    BY DEF Request
  <1>3. QED
    BY <1>1, <1>2 DEF FrameOK

LEMMA AppendOK ==
    ASSUME NEW q \in Seq(Message), NEW m \in Message, NEW j,
           \A k \in 1 .. Len(q) : FrameOK(j, q[k]), FrameOK(j, m)
    PROVE  /\ Append(q, m) \in Seq(Message)
           /\ \A k \in 1 .. Len(Append(q, m)) : FrameOK(j, Append(q, m)[k])
  <1>1. /\ Append(q, m) \in Seq(Message) /\ Len(q) \in Nat
        /\ Len(Append(q, m)) = Len(q) + 1
        /\ \A k \in 1 .. Len(q) + 1 :
             Append(q, m)[k] = IF k <= Len(q) THEN q[k] ELSE m
    OBVIOUS
  <1>2. QED
    BY <1>1

LEMMA SendResponseOK ==
    ASSUME NEW c, ChansOK(c), NEW r \in Routers, NEW t, TableOK(r, t),
           send_rip_response(c, r, t)
    PROVE  ChansOK(chan')
  <1>1. ASSUME NEW j \in Ifaces
        PROVE  chan'[j] \in Seq(Message) /\ \A k \in 1 .. Len(chan'[j]) : FrameOK(j, chan'[j][k])
    <2>1. CASE Reaches(r, j)
      <3>1. chan'[j] = Append(c[j], Response(t, Peer[j]))
        BY <2>1 DEF send_rip_response
      <3>2. FrameOK(j, Response(t, Peer[j]))
        BY <2>1, ResponseOK DEF Reaches
      <3>3. QED
        BY <3>1, <3>2, AppendOK DEF ChansOK, FrameOK
    <2>2. CASE ~Reaches(r, j)
      BY <2>2 DEF send_rip_response, ChansOK
    <2>3. QED
      BY <2>1, <2>2
  <1>2. chan' = [j \in Ifaces |-> chan'[j]]
    BY DEF send_rip_response
  <1>3. chan' \in [Ifaces -> Seq(Message)]
    BY <1>1, <1>2
  <1>4. QED
    BY <1>1, <1>3 DEF ChansOK

LEMMA SendRequestOK ==
    ASSUME ChansOK(chan), NEW r \in Routers, send_rip_request(r)
    PROVE  ChansOK(chan')
  <1>1. ASSUME NEW j \in Ifaces
        PROVE  chan'[j] \in Seq(Message) /\ \A k \in 1 .. Len(chan'[j]) : FrameOK(j, chan'[j][k])
    <2>1. CASE Reaches(r, j)
      <3>1. chan'[j] = Append(chan[j], Request(Peer[j]))
        BY <2>1 DEF send_rip_request
      <3>2. FrameOK(j, Request(Peer[j]))
        BY <2>1, RequestOK DEF Reaches
      <3>3. QED
        BY <3>1, <3>2, AppendOK DEF ChansOK, FrameOK
    <2>2. CASE ~Reaches(r, j)
      BY <2>2 DEF send_rip_request, ChansOK
    <2>3. QED
      BY <2>1, <2>2
  <1>2. chan' = [j \in Ifaces |-> chan'[j]]
    BY DEF send_rip_request
  <1>3. chan' \in [Ifaces -> Seq(Message)]
    BY <1>1, <1>2
  <1>4. QED
    BY <1>1, <1>3 DEF ChansOK

LEMMA ReceiveOK ==
    ASSUME ChansOK(chan), NEW i \in Ifaces, chan[i] # <<>>
    PROVE  FrameOK(i, Head(chan[i])) /\ ChansOK([chan EXCEPT ![i] = Tail(@)])
  <1> DEFINE q == chan[i]
             c == [chan EXCEPT ![i] = Tail(@)]
  <1>1. q \in Seq(Message)
    BY DEF ChansOK
  <1>2. /\ Len(q) \in Nat /\ Len(q) > 0 /\ Head(q) = q[1]
        /\ Tail(q) \in Seq(Message) /\ Len(Tail(q)) = Len(q) - 1
        /\ \A k \in 1 .. Len(q) - 1 : Tail(q)[k] = q[k + 1]
    BY <1>1
  <1>3. FrameOK(i, Head(q))
    BY <1>2 DEF ChansOK
  <1>4. \A k \in 1 .. Len(Tail(q)) : FrameOK(i, Tail(q)[k])
    <2> SUFFICES ASSUME NEW k \in 1 .. Len(Tail(q)) PROVE FrameOK(i, Tail(q)[k])
      OBVIOUS
    <2>1. k + 1 \in 1 .. Len(q) /\ Tail(q)[k] = q[k + 1]
      BY <1>2
    <2>2. QED
      BY <2>1 DEF ChansOK
  <1>5. c \in [Ifaces -> Seq(Message)] /\ c[i] = Tail(q)
        /\ \A j \in Ifaces \ {i} : c[j] = chan[j]
    BY <1>2 DEF ChansOK
  <1>6. ChansOK(c)
    BY <1>4, <1>5 DEF ChansOK
  <1>7. QED
    BY <1>3, <1>6

(* One router's new table, and the others as they were.                    *)
LEMMA TablesUpdate ==
    ASSUME TablesOK, NEW r \in Routers, NEW t, TableOK(r, t),
           table' = [table EXCEPT ![r] = t]
    PROVE  TablesOK'
  <1>1. table' \in [Routers -> [Subnets -> Entry]]
    BY DEF TablesOK, TableOK
  <1>2. \A q \in Routers : TableOK(q, table'[q])
    BY DEF TablesOK
  <1>3. QED
    BY <1>1, <1>2 DEF TablesOK, TableOK, EntryOK
-----------------------------------------------------------------------------
(* The invariant holds initially and every step preserves it.              *)

LEMMA RipInit == Init => RipInv
  <1> SUFFICES ASSUME Init PROVE OthersOK /\ TablesOK /\ ChansOK(chan)
    BY InvParts
  <1>1. OthersOK
    BY RipConstants DEF Init, OthersOK
  <1>2. \A r, n : EntryOK(r, n, NoEntry)
    BY NoEntryType DEF EntryOK, NoEntry
  <1>3. TablesOK
    BY <1>2, NoEntryType DEF Init, TablesOK, TableOK
  <1>4. ChansOK(chan)
    BY DEF Init, ChansOK
  <1>5. QED
    BY <1>1, <1>3, <1>4

LEMMA StartStep ==
    ASSUME RipInv, NEW r \in Routers, Start(r)
    PROVE  RipInv'
  <1>0. OthersOK /\ TablesOK /\ ChansOK(chan)
    BY InvParts
  <1>1. ASSUME NEW n \in Subnets PROVE EntryOK(r, n, sr_build_rt(r)[n])
    <2>1. CASE \E i \in Ifaces : Owner[i] = r /\ Net[i] = n
      <3> DEFINE c == CHOOSE i \in Ifaces : Owner[i] = r /\ Net[i] = n
      <3>1. c \in Ifaces /\ Owner[c] = r /\ Net[c] = n
        BY <2>1, OwnIface
      <3>2. EntryOK(r, n, Direct(c))
        BY <3>1, DirectOK
      <3>3. QED
        BY <2>1, <3>2 DEF sr_build_rt
    <2>2. CASE ~ \E i \in Ifaces : Owner[i] = r /\ Net[i] = n
      BY <1>0, <2>2 DEF sr_build_rt, TablesOK, TableOK
    <2>3. QED
      BY <2>1, <2>2
  <1>2. TableOK(r, sr_build_rt(r))
    <2>1. sr_build_rt(r) = [n \in Subnets |-> sr_build_rt(r)[n]]
      BY DEF sr_build_rt
    <2>2. QED
      BY <1>1, <2>1 DEF TableOK, EntryOK
  <1>3. TablesOK'
    BY <1>0, <1>2, TablesUpdate DEF Start
  <1>4. ChansOK(chan')
    BY <1>0, SendRequestOK DEF Start
  <1>5. OthersOK'
    BY <1>0 DEF Start, OthersOK
  <1>6. QED
    BY <1>3, <1>4, <1>5, InvPartsNext

LEMMA TimeoutStep ==
    ASSUME RipInv, NEW r \in Routers, sr_rip_timeout(r)
    PROVE  RipInv'
  <1> DEFINE t == [n \in Subnets |-> Checked(r, n, Expired(table[r][n]))]
  <1>0. OthersOK /\ TablesOK /\ ChansOK(chan)
    BY InvParts
  <1>1. \A n \in Subnets : EntryOK(r, n, t[n])
    BY <1>0, ExpiredOK, CheckedOK DEF TablesOK, TableOK
  <1>2. TableOK(r, t)
    BY <1>1 DEF TableOK, EntryOK
  <1>3. TablesOK'
    BY <1>0, <1>2, TablesUpdate DEF sr_rip_timeout
  <1>4. ChansOK(chan')
    BY <1>0, <1>2, SendResponseOK DEF sr_rip_timeout
  <1>5. OthersOK'
    BY <1>0 DEF sr_rip_timeout, OthersOK
  <1>6. QED
    BY <1>3, <1>4, <1>5, InvPartsNext

LEMMA ResponseStep ==
    ASSUME RipInv, NEW i \in Ifaces, RecvResponse(i)
    PROVE  RipInv'
  <1> DEFINE r == Owner[i]
             msg == Head(chan[i])
             t == update_route_table(table[r], msg, i)
             rest == [chan EXCEPT ![i] = Tail(@)]
  <1>0. OthersOK /\ TablesOK /\ ChansOK(chan)
    BY InvParts
  <1>a. r \in Routers /\ chan[i] # <<>>
    BY RipConstants DEF RecvResponse
  <1>b. FrameOK(i, msg) /\ ChansOK(rest)
    BY <1>0, <1>a, ReceiveOK
  <1>1. ASSUME NEW n \in Subnets PROVE EntryOK(r, n, t[n])
    <2>1. EntryOK(r, n, table[r][n])
      BY <1>0, <1>a DEF TablesOK, TableOK
    <2>2. CASE n \in DOMAIN msg.entries
      BY <1>b, <2>1, <2>2, UpdatedOK DEF update_route_table
    <2>3. CASE n \notin DOMAIN msg.entries
      BY <2>1, <2>3 DEF update_route_table
    <2>4. QED
      BY <2>2, <2>3
  <1>2. TableOK(r, t)
    <2>1. t = [n \in Subnets |-> t[n]]
      BY DEF update_route_table
    <2>2. QED
      BY <1>1, <2>1 DEF TableOK, EntryOK
  <1>3. TablesOK'
    BY <1>0, <1>a, <1>2, TablesUpdate DEF RecvResponse
  <1>4. ChansOK(chan')
    <2>1. CASE Changed(table[r], t)
      <3>1. send_rip_response(rest, r, t)
        BY <2>1 DEF RecvResponse
      <3>2. QED
        BY <1>a, <1>b, <1>2, <3>1, SendResponseOK
    <2>2. CASE ~Changed(table[r], t)
      <3>1. chan' = rest
        BY <2>2 DEF RecvResponse
      <3>2. QED
        BY <1>b, <3>1
    <2>3. QED
      BY <2>1, <2>2
  <1>5. OthersOK'
    BY <1>0 DEF RecvResponse, OthersOK
  <1>6. QED
    BY <1>3, <1>4, <1>5, InvPartsNext

LEMMA RequestStep ==
    ASSUME RipInv, NEW i \in Ifaces, RecvRequest(i)
    PROVE  RipInv'
  <1> DEFINE rest == [chan EXCEPT ![i] = Tail(@)]
  <1>0. OthersOK /\ TablesOK /\ ChansOK(chan)
    BY InvParts
  <1>1. Owner[i] \in Routers /\ ChansOK(rest)
    BY <1>0, ReceiveOK, RipConstants DEF RecvRequest
  <1>2. TableOK(Owner[i], table[Owner[i]])
    BY <1>0, <1>1 DEF TablesOK
  <1>3. send_rip_response(rest, Owner[i], table[Owner[i]])
    BY DEF RecvRequest
  <1>4. ChansOK(chan')
    BY <1>1, <1>2, <1>3, SendResponseOK
  <1>5. OthersOK' /\ TablesOK'
    BY <1>0 DEF RecvRequest, OthersOK, TablesOK, TableOK, EntryOK
  <1>6. QED
    BY <1>4, <1>5, InvPartsNext

LEMMA StatusStep ==
    ASSUME RipInv, NEW i \in Ifaces, sr_update_interface_status(i)
    PROVE  RipInv'
  <1>1. TypeOK'
    <2>1. notice[i] \in Seq({"up", "down"}) /\ notice[i] # <<>>
      BY DEF RipInv, TypeOK, sr_update_interface_status
    <2>2. Tail(notice[i]) \in Seq({"up", "down"})
      BY <2>1
    <2>3. status' \in [Ifaces -> BOOLEAN]
      BY <2>2 DEF RipInv, TypeOK, sr_update_interface_status
    <2>4. notice' \in [Ifaces -> Seq({"up", "down"})]
      BY <2>2 DEF RipInv, TypeOK, sr_update_interface_status
    <2>5. QED
      BY <2>3, <2>4 DEF RipInv, TypeOK, sr_update_interface_status
  <1>2. FramesFromPeer' /\ NextHopOnLink' /\ NoUnderestimate'
    BY DEF RipInv, FramesFromPeer, NextHopOnLink, NoUnderestimate,
       sr_update_interface_status
  <1>3. QED
    BY <1>1, <1>2 DEF RipInv

LEMMA LinkStep ==
    ASSUME RipInv, NEW n \in FlapNets, LinkChange(n)
    PROVE  RipInv'
  <1>1. ASSUME NEW i \in Ifaces
        PROVE  /\ notice[i] \in Seq({"up", "down"})
               /\ Append(notice[i], IF link[n] THEN "down" ELSE "up")
                    \in Seq({"up", "down"})
    <2>1. notice[i] \in Seq({"up", "down"})
      BY DEF RipInv, TypeOK
    <2>2. QED
      BY <2>1
  <1>2. notice' \in [Ifaces -> Seq({"up", "down"})]
    BY <1>1 DEF LinkChange
  <1>3. link' \in [Nets -> BOOLEAN] /\ flaps' \in 0 .. MaxFlaps
    BY RipConstants DEF RipInv, TypeOK, LinkChange
  <1>4. TypeOK'
    BY <1>2, <1>3 DEF RipInv, TypeOK, LinkChange
  <1>5. QED
    BY <1>4 DEF RipInv, FramesFromPeer, NextHopOnLink, NoUnderestimate, LinkChange

LEMMA PeriodStep ==
    ASSUME RipInv, NewPeriod
    PROVE  RipInv'
  <1>0. OthersOK /\ TablesOK /\ ChansOK(chan)
    BY InvParts
  <1>1. \A r \in Routers, n \in Subnets : EntryOK(r, n, table'[r][n])
    BY <1>0, AgedOK DEF NewPeriod, TablesOK, TableOK
  <1>2. TablesOK'
    <2>1. table' \in [Routers -> [Subnets -> Entry]]
      BY <1>1 DEF NewPeriod, EntryOK
    <2>2. \A r \in Routers : TableOK(r, table'[r])
      BY <1>1, <2>1 DEF TableOK
    <2>3. QED
      BY <2>1, <2>2 DEF TablesOK
  <1>3. OthersOK' /\ ChansOK(chan')
    BY <1>0 DEF NewPeriod, OthersOK
  <1>4. QED
    BY <1>2, <1>3, InvPartsNext

LEMMA RipNext == RipInv /\ [Next]_vars => RipInv'
  <1> SUFFICES ASSUME RipInv, [Next]_vars PROVE RipInv'
    OBVIOUS
  <1>1. ASSUME NEW r \in Routers, Start(r) PROVE RipInv'
    BY <1>1, StartStep
  <1>2. ASSUME NEW r \in Routers, sr_rip_timeout(r) PROVE RipInv'
    BY <1>2, TimeoutStep
  <1>3. ASSUME NEW i \in Ifaces, RecvResponse(i) PROVE RipInv'
    BY <1>3, ResponseStep
  <1>4. ASSUME NEW i \in Ifaces, RecvRequest(i) PROVE RipInv'
    BY <1>4, RequestStep
  <1>5. ASSUME NEW i \in Ifaces, sr_update_interface_status(i) PROVE RipInv'
    BY <1>5, StatusStep
  <1>6. ASSUME NEW n \in FlapNets, LinkChange(n) PROVE RipInv'
    BY <1>6, LinkStep
  <1>7. CASE NewPeriod
    BY <1>7, PeriodStep
  <1>8. CASE UNCHANGED vars
    BY <1>8 DEF vars, RipInv, TypeOK, FramesFromPeer, NextHopOnLink, NoUnderestimate
  <1>9. QED
    BY <1>1, <1>2, <1>3, <1>4, <1>5, <1>6, <1>7, <1>8 DEF Next, Work

(* The inductive invariant holds in every reachable state.                 *)
THEOREM RipInvariant == Spec => []RipInv
  BY RipInit, RipNext, PTL DEF Spec

(* Routing tables, status cache and frames keep their types: no metric     *)
(* passes INFINITY (sr_rt.c:465).                                          *)
THEOREM RipTypes == Spec => []TypeOK
  <1>1. RipInv => TypeOK
    BY DEF RipInv
  <1>2. QED
    BY <1>1, RipInvariant, PTL

(* Every entry with a gateway names the other end of the link it sends on, *)
(* every entry without one is a direct route (sr_rt.c:265-268, 494-501).   *)
THEOREM RipNextHop == Spec => []NextHopOnLink
  <1>1. RipInv => NextHopOnLink
    BY DEF RipInv
  <1>2. QED
    BY <1>1, RipInvariant, PTL

(* Neither a table nor a frame under way ever underestimates a distance,   *)
(* in any topology and after any failures (update_route_table).            *)
THEOREM RipNoUnderestimate == Spec => []NoUnderestimate
  <1>1. RipInv => NoUnderestimate
    BY DEF RipInv
  <1>2. QED
    BY <1>1, RipInvariant, PTL

-----------------------------------------------------------------------------
(* Metrics only rise to INFINITY.                                          *)

(* An entry that is absent has metric INFINITY; it makes a first entry a   *)
(* fall of the metric.                                                     *)
AbsentIsInfinite ==
    \A r \in Routers, n \in Subnets :
      ~table[r][n].present => table[r][n].metric = INFINITY

LEMMA UpdatedRises ==
    ASSUME NEW e \in Entry, ~e.present => e.metric = INFINITY,
           NEW m \in 0 .. INFINITY, NEW i, NEW g
    PROVE  LET u == Updated(e, m, i, g)
           IN /\ u.present
              /\ u.metric > e.metric => u.metric = INFINITY
  <1>1. CASE ~e.present
    BY <1>1, RipConstants DEF Updated, Learned
  <1>2. CASE e.present /\ e.iface = i
    BY <1>2, RipConstants DEF Updated, Entry
  <1>3. CASE e.present /\ e.iface # i
    BY <1>3, RipConstants DEF Updated, Learned, Entry
  <1>4. QED
    BY <1>1, <1>2, <1>3

(* The metric of an entry after one step of its router, or of the clock.   *)
MayBecome(e, u) ==
    /\ ~u.present => u.metric = INFINITY
    /\ u.metric > e.metric => u.metric = INFINITY

LEMMA TimeoutRises ==
    ASSUME NEW e \in Entry, ~e.present => e.metric = INFINITY, NEW r, NEW n
    PROVE  MayBecome(e, Checked(r, n, Expired(e)))
  <1>1. \A i : Direct(i).present /\ Direct(i).metric = 0
    BY DEF Direct
  <1>2. /\ Expired(e).present = e.present
        /\ Expired(e).metric \in {e.metric, INFINITY}
        /\ [Expired(e) EXCEPT !.metric = INFINITY].present = e.present
        /\ [Expired(e) EXCEPT !.metric = INFINITY].metric = INFINITY
    BY DEF Expired, Entry
  <1>3. e.metric \in Nat
    BY RipConstants DEF Entry
  <1>4. QED
    BY <1>1, <1>2, <1>3, RipConstants DEF Checked, MayBecome

LEMMA EntriesRise ==
    ASSUME RipInv, AbsentIsInfinite, [Next]_vars,
           NEW r \in Routers, NEW n \in Subnets
    PROVE  MayBecome(table[r][n], table'[r][n])
  <1> DEFINE e == table[r][n]
  <1>0. e \in Entry /\ e.metric \in Nat /\ (~e.present => e.metric = INFINITY)
    BY RipConstants DEF RipInv, TypeOK, AbsentIsInfinite, Entry
  <1>a. ASSUME table'[r][n] = e PROVE MayBecome(e, table'[r][n])
    BY <1>0, <1>a DEF MayBecome
  <1>1. ASSUME NEW q \in Routers, Start(q) PROVE MayBecome(e, table'[r][n])
    <2>1. table'[r][n] = e \/ table'[r][n] = sr_build_rt(r)[n]
      BY <1>1 DEF Start, RipInv, TypeOK
    <2>2. sr_build_rt(r)[n] = e \/ \E i : sr_build_rt(r)[n] = Direct(i)
      BY DEF sr_build_rt
    <2>3. \A i : MayBecome(e, Direct(i))
      BY <1>0 DEF MayBecome, Direct
    <2>4. QED
      BY <1>a, <2>1, <2>2, <2>3
  <1>2. ASSUME NEW q \in Routers, sr_rip_timeout(q) PROVE MayBecome(e, table'[r][n])
    <2>1. table'[r][n] = e \/ table'[r][n] = Checked(r, n, Expired(e))
      BY <1>2 DEF sr_rip_timeout, RipInv, TypeOK
    <2>2. QED
      BY <1>0, <1>a, <2>1, TimeoutRises
  <1>3. ASSUME NEW i \in Ifaces, RecvResponse(i) PROVE MayBecome(e, table'[r][n])
    <2> DEFINE msg == Head(chan[i])
    <2>1. FrameOK(i, msg)
      BY <1>3, InvParts, ReceiveOK DEF RecvResponse
    <2>2. \/ table'[r][n] = e
          \/ /\ n \in DOMAIN msg.entries
             /\ table'[r][n] = Updated(e, Hop(msg.entries[n]), i, msg.src)
      BY <1>3 DEF RecvResponse, update_route_table, RipInv, TypeOK
    <2>3. QED
      BY <1>0, <1>a, <2>1, <2>2, HopBound, UpdatedRises DEF MayBecome
  <1>4. CASE \E i \in Ifaces : RecvRequest(i) \/ sr_update_interface_status(i)
    BY <1>4, <1>a DEF RecvRequest, sr_update_interface_status
  <1>5. CASE \E k \in FlapNets : LinkChange(k)
    BY <1>5, <1>a DEF LinkChange
  <1>6. CASE NewPeriod
    <2>1. table'[r][n] = Aged(e)
      BY <1>6 DEF NewPeriod
    <2>2. Aged(e).metric = e.metric /\ Aged(e).present = e.present
      BY <1>0 DEF Aged, Entry
    <2>3. QED
      BY <1>0, <2>1, <2>2 DEF MayBecome
  <1>7. CASE UNCHANGED vars
    BY <1>7, <1>a DEF vars
  <1>8. QED
    BY <1>1, <1>2, <1>3, <1>4, <1>5, <1>6, <1>7 DEF Next, Work

(* In every step of every router, a metric that rises becomes INFINITY:    *)
(* the same-interface branch of update_route_table (sr_rt.c:475-486) never *)
(* copies a larger metric.                                                 *)
THEOREM RipNoCountingUp == Spec => NoCountingUp
  <1> DEFINE J == RipInv /\ AbsentIsInfinite
             A == \A r \in Routers, n \in Subnets :
                    table'[r][n].metric > table[r][n].metric
                      => table'[r][n].metric = INFINITY
  <1>1. Init => J
    BY RipInit DEF Init, AbsentIsInfinite, NoEntry
  <1>2. J /\ [Next]_vars => J'
    BY RipNext, EntriesRise DEF AbsentIsInfinite, MayBecome
  <1>3. J /\ [Next]_vars => [A]_vars
    BY EntriesRise DEF MayBecome
  <1>4. QED
    BY <1>1, <1>2, <1>3, PTL DEF Spec, NoCountingUp
=============================================================================
