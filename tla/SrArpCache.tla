----------------------------- MODULE SrArpCache -----------------------------
(***************************************************************************)
(* The ARP cache of the simple router (lab4/router/sr_arpcache.c) and the  *)
(* two threads that use it: the main thread, which forwards IP packets     *)
(* (sr_handle_ip) and handles ARP frames (sr_handle_arp), and the sweeper  *)
(* (sr_arpcache_timeout).  Every operation of sr_arpcache.c runs under     *)
(* cache->lock, so it is one step; what the main thread does between two   *)
(* operations is not, so every call is a step of its own and the sweeper   *)
(* and the RIP thread may run in between.  sr_handle_ip reads match->gw    *)
(* without rt_locker four times, twice for the lookup (test, then use) and *)
(* twice for the queue, and each reading may find another value.           *)
(*                                                                         *)
(* Abstracted: frames are identified by the packet they carry; the list of *)
(* requests is a function of the address asked for (sr_arpcache_queuereq   *)
(* never puts an address on it twice); time is counted in seconds since    *)
(* an event and saturates once it can no longer matter.                    *)
(***************************************************************************)
EXTENDS Naturals, Sequences, FiniteSets

CONSTANTS
    Packets,         \* identities of the IP packets that are forwarded
    Hosts,           \* destination addresses
    Gateways,        \* next-hop router addresses
    Macs,            \* hardware addresses
    Dst,             \* Dst[p]: destination address of packet p
    Ifaces,          \* the router's interfaces
    NoGw,            \* address 0: match->gw.s_addr of a direct route
    NoPkt, NoIp, NoMac,
    SR_ARPCACHE_SZ,  \* 100 in sr_arpcache.h
    SR_ARPCACHE_TO,  \* 15 seconds in sr_arpcache.h
    MaxTimesSent,    \* the literal 5 of sr_arpcache_sweepreqs
    Epoch            \* what time(0) returns: seconds since 1970

IPs == Hosts \cup Gateways \cup {NoGw}
Slots == 0 .. SR_ARPCACHE_SZ - 1
NIfaces == Cardinality(Ifaces)

ASSUME ArpConstants ==
    /\ SR_ARPCACHE_SZ \in Nat \ {0}
    /\ SR_ARPCACHE_TO \in Nat
    /\ MaxTimesSent \in Nat \ {0}
    /\ IsFiniteSet(Ifaces) /\ Ifaces # {}
    /\ Epoch \in Nat /\ Epoch > 1
    /\ Dst \in [Packets -> Hosts]
    /\ NoGw \notin Hosts \cup Gateways /\ NoIp \notin IPs
    /\ NoPkt \notin Packets /\ NoMac \notin Macs

VARIABLES
    entries,   \* cache->entries
    reqs,      \* cache->requests, by address
    gw,        \* gw[d]: gateway field of the route that matches d
    due,       \* the sweeper's sleep(1.0) is over
    stage,     \* where the main thread is
    cur,       \* the packet sr_handle_ip is forwarding
    key,       \* the address it looked up or queued under, or ar_sip
    hw,        \* entry->mac of the copy sr_arpcache_lookup returned, or ar_sha
    isRequest, \* ar_op of the ARP frame sr_handle_arp is handling
    pending,   \* pending->packets still to be sent by sr_handle_arp
    fate,      \* what became of each packet
    strays     \* history: packets that wait under another address than
               \* the one looked up for them

mainVars == <<stage, cur, key, hw, isRequest, pending>>
vars == <<entries, reqs, gw, due, mainVars, fate, strays>>

Stages == {"idle", "lookup", "load", "hit", "miss", "reload", "ask", "flush", "reply"}
Fates == {"none", "handling", "queued", "flushing", "sent", "unreachable"}

(* An age saturates one second after the entry must be swept: it is only   *)
(* compared with SR_ARPCACHE_TO.                                           *)
AgeCap == SR_ARPCACHE_TO + 2

Free == [valid |-> FALSE, ip |-> NoIp, mac |-> NoMac, added |-> 0]
NoReq == [listed |-> FALSE, times_sent |-> 0, packets |-> <<>>]

TypeOK ==
    /\ entries \in [Slots -> [valid : BOOLEAN, ip : IPs \cup {NoIp},
                              mac : Macs \cup {NoMac}, added : 0 .. AgeCap]]
    /\ reqs \in [IPs -> [listed : BOOLEAN,
                         times_sent : 0 .. MaxTimesSent + NIfaces - 1,
                         packets : Seq(Packets)]]
    /\ gw \in [Hosts -> Gateways \cup {NoGw}]
    /\ due \in BOOLEAN
    /\ stage \in Stages
    /\ cur \in Packets \cup {NoPkt}
    /\ key \in IPs \cup {NoIp}
    /\ hw \in Macs \cup {NoMac}
    /\ isRequest \in BOOLEAN
    /\ pending \in Seq(Packets)
    /\ fate \in [Packets -> Fates]
    /\ strays \subseteq Packets

(* sr_arpcache_init clears the entries and the request list.               *)
Init ==
    /\ entries = [s \in Slots |-> Free]
    /\ reqs = [a \in IPs |-> NoReq]
    /\ gw \in [Hosts -> Gateways \cup {NoGw}]
    /\ due = FALSE
    /\ stage = "idle" /\ cur = NoPkt /\ key = NoIp /\ hw = NoMac
    /\ isRequest = FALSE /\ pending = <<>>
    /\ fate = [p \in Packets |-> "none"]
    /\ strays = {}

-----------------------------------------------------------------------------
(* The operations of sr_arpcache.c                                         *)

Matches(a) == {s \in Slots : entries[s].valid /\ entries[s].ip = a}

(* The loop of sr_arpcache_lookup does not stop at the first match: the    *)
(* valid entry in the highest slot is the one that is copied.              *)
Found(a, s) == s \in Matches(a) /\ \A t \in Matches(a) : t <= s

sr_arpcache_queuereq(a, p) ==
    reqs' = [reqs EXCEPT ![a].listed = TRUE,
                         ![a].packets = Append(@, p)]

FreeSlots == {s \in Slots : ~entries[s].valid}

(* The mapping goes into the first free slot; with no slot free it is      *)
(* dropped.  An older mapping of the same address stays where it is.       *)
InsertEntry(a, m) ==
    entries' = [s \in Slots |->
                  IF s \in FreeSlots /\ \A t \in FreeSlots : s <= t
                  THEN [valid |-> TRUE, ip |-> a, mac |-> m, added |-> 0]
                  ELSE entries[s]]

(* Mutant: the request is found and returned but stays on the list.        *)
InsertKeepsRequest(a, m) ==
    /\ InsertEntry(a, m)
    /\ UNCHANGED reqs

sr_arpcache_insert(a, m) ==
    /\ InsertEntry(a, m)
    /\ reqs' = [reqs EXCEPT ![a] = NoReq]

(* difftime(time(0), current->sent > 1): the comparison is inside the      *)
(* call, so the second argument is 1 once the request was sent and 0       *)
(* before; the result is a number of seconds, true unless it is 0.  The    *)
(* time of the last sending itself is never used.                          *)
ResendDue(r) == Epoch - (IF r.times_sent > 0 THEN 1 ELSE 0) # 0

(* Mutant: a request that was sent five times is left alone.               *)
NeverGivenUp(a) == FALSE

GivenUp(a) ==
    reqs[a].listed /\ ResendDue(reqs[a]) /\ reqs[a].times_sent >= MaxTimesSent

Resent(a) ==
    reqs[a].listed /\ ResendDue(reqs[a]) /\ reqs[a].times_sent < MaxTimesSent

QueuedUnder(a) == {reqs[a].packets[k] : k \in 1 .. Len(reqs[a].packets)}

Refused(p) == \E a \in IPs : GivenUp(a) /\ p \in QueuedUnder(a)

(* Mutant: the test for five sendings is lost.                             *)
SweepKeepsSending ==
    /\ reqs' = [a \in IPs |->
                  IF reqs[a].listed
                  THEN [reqs[a] EXCEPT !.times_sent = @ + NIfaces]
                  ELSE reqs[a]]
    /\ UNCHANGED <<fate, strays>>

(* send_arp_req and times_sent++ are in the loop over the interfaces.      *)
sr_arpcache_sweepreqs ==
    /\ reqs' = [a \in IPs |->
                  IF GivenUp(a) THEN NoReq
                  ELSE IF Resent(a)
                       THEN [reqs[a] EXCEPT !.times_sent = @ + NIfaces]
                       ELSE reqs[a]]
    /\ fate' = [p \in Packets |-> IF Refused(p) THEN "unreachable" ELSE fate[p]]
    /\ strays' = {p \in strays : ~Refused(p)}

(* Mutant: an entry is kept one second too long.                           *)
ExpireOneLate ==
    entries' = [s \in Slots |->
                  IF entries[s].valid /\ entries[s].added > SR_ARPCACHE_TO + 1
                  THEN Free ELSE entries[s]]

ExpireEntries ==
    entries' = [s \in Slots |->
                  IF entries[s].valid /\ entries[s].added > SR_ARPCACHE_TO
                  THEN Free ELSE entries[s]]

-----------------------------------------------------------------------------
(* The sweeper: sr_arpcache_timeout                                        *)

Older(n) == IF n < AgeCap THEN n + 1 ELSE AgeCap

(* A second passes.  The sweeper's pass takes far less than its period, so *)
(* a second does not end before the pass it made due.                      *)
Tick ==
    /\ ~due
    /\ due' = TRUE
    /\ entries' = [s \in Slots |->
                     IF entries[s].valid
                     THEN [entries[s] EXCEPT !.added = Older(@)]
                     ELSE entries[s]]
    /\ UNCHANGED <<reqs, gw, mainVars, fate, strays>>

sr_arpcache_timeout ==
    /\ due
    /\ due' = FALSE
    /\ ExpireEntries
    /\ sr_arpcache_sweepreqs
    /\ UNCHANGED <<gw, mainVars>>

-----------------------------------------------------------------------------
(* The main thread: sr_handle_ip from step 2c3 on                          *)

HandleIp(p) ==
    /\ stage = "idle"
    /\ fate[p] \in {"none", "sent", "unreachable"}
    /\ stage' = "lookup" /\ cur' = p
    /\ fate' = [fate EXCEPT ![p] = "handling"]
    /\ UNCHANGED <<entries, reqs, gw, due, key, hw, isRequest, pending, strays>>

CurGw == gw[Dst[cur]]

(* The test match->gw.s_addr != 0, before the lookup and again before the  *)
(* queue; what it leads to reads match->gw once more.                      *)
TestGw ==
    /\ stage \in {"lookup", "miss"}
    /\ CurGw # NoGw
    /\ stage' = IF stage = "lookup" THEN "load" ELSE "reload"
    /\ UNCHANGED <<entries, reqs, gw, due, cur, key, hw, isRequest, pending, fate, strays>>

(* The address handed to the cache: ip->ip_dst if the test found 0, else   *)
(* what match->gw is now, which is 0 if the RIP thread came in between.    *)
Address(test, use, a) ==
    \/ stage = test /\ CurGw = NoGw /\ a = Dst[cur]
    \/ stage = use /\ a = CurGw

LookupHit(a) ==
    /\ Address("lookup", "load", a)
    /\ \E s \in Slots : Found(a, s) /\ hw' = entries[s].mac
    /\ key' = a
    /\ stage' = "hit"
    /\ UNCHANGED <<entries, reqs, gw, due, cur, isRequest, pending, fate, strays>>

LookupMiss(a) ==
    /\ Address("lookup", "load", a)
    /\ Matches(a) = {}
    /\ key' = a
    /\ stage' = "miss"
    /\ UNCHANGED <<entries, reqs, gw, due, cur, hw, isRequest, pending, fate, strays>>

Return ==
    stage' = "idle" /\ cur' = NoPkt /\ key' = NoIp /\ hw' = NoMac

SendNow ==
    /\ stage = "hit"
    /\ fate' = [fate EXCEPT ![cur] = "sent"]
    /\ Return
    /\ UNCHANGED <<entries, reqs, gw, due, isRequest, pending, strays>>

(* Mutant: the packet waits for its destination, whatever the gateway.     *)
QueueUnderDst(a) ==
    /\ Address("miss", "reload", a)
    /\ sr_arpcache_queuereq(Dst[cur], cur)
    /\ key' = Dst[cur]
    /\ strays' = IF Dst[cur] = key THEN strays ELSE strays \cup {cur}
    /\ fate' = [fate EXCEPT ![cur] = "queued"]
    /\ stage' = "ask"
    /\ UNCHANGED <<entries, gw, due, cur, hw, isRequest, pending>>

Queue(a) ==
    /\ Address("miss", "reload", a)
    /\ sr_arpcache_queuereq(a, cur)
    /\ key' = a
    /\ strays' = IF a = key THEN strays ELSE strays \cup {cur}
    /\ fate' = [fate EXCEPT ![cur] = "queued"]
    /\ stage' = "ask"
    /\ UNCHANGED <<entries, gw, due, cur, hw, isRequest, pending>>

(* send_arp_req asks for ip->ip_dst, also when the packet waits for a      *)
(* gateway; the sweeper asks for the address the packet waits for.         *)
AskNow ==
    /\ stage = "ask"
    /\ Return
    /\ UNCHANGED <<entries, reqs, gw, due, isRequest, pending, fate, strays>>

-----------------------------------------------------------------------------
(* The main thread: sr_handle_arp                                          *)

AfterFlush(r) == IF r THEN "reply" ELSE "idle"

(* Mutant: pending is only flushed for an ARP reply.                       *)
HandleArpReplyOnly(a, m, r) ==
    /\ stage = "idle"
    /\ sr_arpcache_insert(a, m)
    /\ IF reqs[a].listed /\ ~r
       THEN /\ stage' = "flush" /\ key' = a /\ hw' = m
            /\ pending' = reqs[a].packets
            /\ fate' = [p \in Packets |->
                          IF p \in QueuedUnder(a) THEN "flushing" ELSE fate[p]]
       ELSE stage' = AfterFlush(r) /\ UNCHANGED <<key, hw, pending, fate, strays>>
    /\ isRequest' = r
    /\ UNCHANGED <<gw, due, cur, strays>>

HandleArp(a, m, r) ==
    /\ stage = "idle"
    /\ sr_arpcache_insert(a, m)
    /\ IF reqs[a].listed
       THEN /\ stage' = "flush" /\ key' = a /\ hw' = m
            /\ pending' = reqs[a].packets
            /\ fate' = [p \in Packets |->
                          IF p \in QueuedUnder(a) THEN "flushing" ELSE fate[p]]
       ELSE stage' = AfterFlush(r) /\ UNCHANGED <<key, hw, pending, fate, strays>>
    /\ isRequest' = r
    /\ UNCHANGED <<gw, due, cur, strays>>

FlushOne ==
    /\ stage = "flush" /\ pending # <<>>
    /\ fate' = [fate EXCEPT ![Head(pending)] = "sent"]
    /\ pending' = Tail(pending)
    /\ strays' = strays \ {Head(pending)}
    /\ UNCHANGED <<entries, reqs, gw, due, stage, cur, key, hw, isRequest>>

(* sr_arpreq_destroy: the request is off the list already, it is freed.    *)
FlushDone ==
    /\ stage = "flush" /\ pending = <<>>
    /\ stage' = AfterFlush(isRequest) /\ key' = NoIp /\ hw' = NoMac
    /\ UNCHANGED <<entries, reqs, gw, due, cur, isRequest, pending, fate, strays>>

SendArpRep ==
    /\ stage = "reply"
    /\ stage' = "idle"
    /\ isRequest' = FALSE
    /\ UNCHANGED <<entries, reqs, gw, due, cur, key, hw, pending, fate, strays>>

-----------------------------------------------------------------------------
(* The routing table, as far as the cache depends on it                    *)

(* update_route_table runs in the main thread, never inside a handler.     *)
RouteLearned(d, g) ==
    /\ stage = "idle"
    /\ gw' = [gw EXCEPT ![d] = g]
    /\ UNCHANGED <<entries, reqs, due, mainVars, fate, strays>>

(* sr_rip_timeout finds the interface of d's subnet up again and makes the *)
(* route direct.  sr_handle_ip does not take rt_locker, so this can happen *)
(* while the main thread is between two uses of the route.                 *)
RouteTakenOver(d) ==
    /\ gw[d] # NoGw
    /\ gw' = [gw EXCEPT ![d] = NoGw]
    /\ UNCHANGED <<entries, reqs, due, mainVars, fate, strays>>

-----------------------------------------------------------------------------
MainStep ==
    \/ TestGw
    \/ \E a \in IPs : LookupHit(a) \/ LookupMiss(a) \/ Queue(a)
    \/ SendNow \/ AskNow \/ FlushOne \/ FlushDone \/ SendArpRep

Next ==
    \/ Tick
    \/ sr_arpcache_timeout
    \/ \E p \in Packets : HandleIp(p)
    \/ MainStep
    \/ \E a \in IPs, m \in Macs, r \in BOOLEAN : HandleArp(a, m, r)
    \/ \E d \in Hosts, g \in Gateways : RouteLearned(d, g)
    \/ \E d \in Hosts : RouteTakenOver(d)

Spec == Init /\ [][Next]_vars

(* The clock runs, the sweeper thread is scheduled, and the main thread    *)
(* does not stop inside a handler.  Frames need not arrive.                *)
Fairness ==
    /\ WF_vars(Tick)
    /\ WF_vars(sr_arpcache_timeout)
    /\ WF_vars(MainStep)

FairSpec == Spec /\ Fairness

-----------------------------------------------------------------------------
(* Properties                                                              *)

On(q) == 1 .. Len(q)

(* Every packet sr_handle_ip accepted is in exactly one place: in the      *)
(* handler, once on the list of one request, or once on the list           *)
(* sr_handle_arp is sending; never in two, so it is neither lost when a    *)
(* request is destroyed nor sent twice (sr_arpcache_insert unlinks the     *)
(* request before the sweeper can see it again).                           *)
OnePlace ==
    /\ \A p \in Packets :
         /\ (fate[p] = "handling") = (p = cur /\ stage \in {"lookup", "load", "hit", "miss", "reload"})
         /\ (fate[p] = "queued") = (\E a \in IPs : p \in QueuedUnder(a))
         /\ (fate[p] = "flushing") = (\E k \in On(pending) : pending[k] = p)
    /\ \A a, b \in IPs : \A k \in On(reqs[a].packets), l \in On(reqs[b].packets) :
         reqs[a].packets[k] = reqs[b].packets[l] => a = b /\ k = l
    /\ \A k, l \in On(pending) : pending[k] = pending[l] => k = l
    /\ \A a \in IPs : ~reqs[a].listed => reqs[a].packets = <<>>

(* A packet does not wait for an address the cache knows.  The sweeper     *)
(* only forgets addresses, so what sr_arpcache_lookup answered still holds *)
(* when sr_arpcache_queuereq acts on it, although the lock is given up in  *)
(* between; nothing waits for a gateway that is known.  The one exception  *)
(* are strays, packets for which the RIP thread made the route direct      *)
(* between the lookup of the gateway and the queue (sr_router.c:279 reads  *)
(* match->gw again): they wait for an address nobody looked up.            *)
KnownNeverWaits ==
    /\ stage \in {"miss", "reload"} => Matches(key) = {}
    /\ \A a \in Gateways \ Hosts : reqs[a].listed => Matches(a) = {}
    /\ \A a \in IPs : Matches(a) # {} => QueuedUnder(a) \subseteq strays

(* A packet that found its next hop in the cache overtakes no packet still *)
(* waiting for that next hop but strays, although the copy                 *)
(* sr_arpcache_lookup returned may have been swept from the cache          *)
(* meanwhile.                                                              *)
NoOvertaking ==
    stage = "hit" => QueuedUnder(key) \subseteq strays

(* sr_arpcache_lookup never answers with a mapping that was added more     *)
(* than SR_ARPCACHE_TO seconds and one sweep ago.                          *)
EntriesExpire ==
    \A s \in Slots :
      entries[s].valid =>
        entries[s].added <= SR_ARPCACHE_TO + (IF due THEN 1 ELSE 0)

(* Every packet on a request is sent or refused in the end: new packets    *)
(* that join the request do not restart its count.                         *)
QueuedIsResolved ==
    \A p \in Packets : fate[p] = "queued" ~> fate[p] \in {"sent", "unreachable"}

(* The promise of the cache: one first-in first-out line per next hop.     *)
StatusOf(p) ==
    CASE fate[p] \in {"none", "sent", "unreachable"} -> "out"
      [] fate[p] = "handling" -> "in"
      [] fate[p] \in {"queued", "flushing"} -> "waiting"

NHQ == INSTANCE NextHopQueue WITH
         NextHops <- IPs,
         Zero <- NoGw,
         NoHop <- NoIp,
         route <- [p \in Packets |-> IF gw[Dst[p]] = NoGw THEN Dst[p] ELSE gw[Dst[p]]],
         hop <- [p \in Packets |->
                   IF p = cur /\ stage \in {"hit", "miss", "reload"} THEN key ELSE NoIp],
         line <- [a \in IPs |-> IF stage = "flush" /\ key = a
                                THEN pending \o reqs[a].packets
                                ELSE reqs[a].packets],
         status <- [p \in Packets |-> StatusOf(p)],
         stray <- strays

(* The cache, the sweeper and the two handlers implement NextHopQueue: a   *)
(* packet goes out at once, or joins the line, by the next hop its route   *)
(* has when sr_handle_ip looks.                                            *)
ImplementsNextHopQueue == NHQ!NHQSpec
=============================================================================
