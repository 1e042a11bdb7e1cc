-------------------------- MODULE SrArpCacheProofs --------------------------
(***************************************************************************)
(* Proofs about SrArpCache for every cache size, every number of hosts,    *)
(* packets and interfaces, whatever the RIP thread does to the route that  *)
(* sr_handle_ip is using: types, EntriesExpire, OnePlace, KnownNeverWaits, *)
(* NoOvertaking and that the cache implements NextHopQueue.                *)
(***************************************************************************)
EXTENDS SrArpCache, TLAPS, FiniteSetTheorems

Request == [listed : BOOLEAN,
            times_sent : 0 .. MaxTimesSent + NIfaces - 1,
            packets : Seq(Packets)]

CacheEntry == [valid : BOOLEAN, ip : IPs \cup {NoIp},
               mac : Macs \cup {NoMac}, added : 0 .. AgeCap]

(* The main thread has a packet in hand while it forwards one.             *)
InHand == stage \in {"lookup", "load", "hit", "miss", "reload", "ask"} => cur \in Packets

TypeInv == TypeOK /\ InHand

-----------------------------------------------------------------------------
LEMMA NIfacesNat == NIfaces \in Nat \ {0}
  BY FS_CardinalityType, FS_EmptySet, ArpConstants DEF NIfaces

LEMMA NoReqType == NoReq \in Request
  <1>1. <<>> \in Seq(Packets)
    OBVIOUS
  <1>2. 0 \in 0 .. MaxTimesSent + NIfaces - 1
    BY NIfacesNat, ArpConstants
  <1>3. QED
    BY <1>1, <1>2 DEF NoReq, Request

LEMMA FreeType == Free \in CacheEntry
  BY ArpConstants DEF Free, CacheEntry, AgeCap

LEMMA AddressType ==
    ASSUME TypeOK, cur \in Packets, NEW t, NEW u, NEW a, Address(t, u, a)
    PROVE  a \in IPs
  BY ArpConstants DEF TypeOK, Address, CurGw, IPs

LEMMA ArpTypeInit == Init => TypeInv
  <1> SUFFICES ASSUME Init PROVE TypeInv
    OBVIOUS
  <1>1. entries \in [Slots -> CacheEntry]
    BY FreeType DEF Init
  <1>2. reqs \in [IPs -> Request]
    BY NoReqType DEF Init
  <1>3. pending \in Seq(Packets) /\ stage \in Stages /\ fate \in [Packets -> Fates]
    BY DEF Init, Stages, Fates
  <1>4. QED
    BY <1>1, <1>2, <1>3 DEF Init, TypeInv, TypeOK, InHand, CacheEntry, Request

-----------------------------------------------------------------------------
(* The operations of the cache keep the types of what they change.         *)

LEMMA InsertType ==
    ASSUME TypeOK, NEW a \in IPs, NEW m \in Macs, sr_arpcache_insert(a, m)
    PROVE  entries' \in [Slots -> CacheEntry] /\ reqs' \in [IPs -> Request]
  <1>1. [valid |-> TRUE, ip |-> a, mac |-> m, added |-> 0] \in CacheEntry
    BY ArpConstants DEF CacheEntry, AgeCap
  <1>2. entries \in [Slots -> CacheEntry] /\ reqs \in [IPs -> Request]
    BY DEF TypeOK, CacheEntry, Request
  <1>3. entries' \in [Slots -> CacheEntry]
    BY <1>1, <1>2 DEF sr_arpcache_insert, InsertEntry
  <1>4. reqs' \in [IPs -> Request]
    BY <1>2, NoReqType DEF sr_arpcache_insert
  <1>5. QED
    BY <1>3, <1>4

LEMMA QueuereqType ==
    ASSUME TypeOK, NEW a \in IPs, NEW p \in Packets, sr_arpcache_queuereq(a, p)
    PROVE  /\ reqs' \in [IPs -> Request]
           /\ \A b \in IPs : b # a => reqs'[b] = reqs[b]
  <1>1. reqs \in [IPs -> Request]
    BY DEF TypeOK, Request
  <1>2. Append(reqs[a].packets, p) \in Seq(Packets)
    BY <1>1 DEF Request
  <1>3. QED
    BY <1>1, <1>2 DEF sr_arpcache_queuereq, Request

LEMMA SweepType ==
    ASSUME TypeOK, sr_arpcache_sweepreqs
    PROVE  /\ reqs' \in [IPs -> Request] /\ fate' \in [Packets -> Fates]
           /\ strays' \subseteq Packets
  <1>1. reqs \in [IPs -> Request] /\ fate \in [Packets -> Fates]
    BY DEF TypeOK, Request
  <1>2. ASSUME NEW a \in IPs PROVE reqs'[a] \in Request
    <2>1. CASE GivenUp(a)
      BY <2>1, NoReqType DEF sr_arpcache_sweepreqs
    <2>2. CASE ~GivenUp(a) /\ Resent(a)
      <3>1. reqs'[a] = [reqs[a] EXCEPT !.times_sent = reqs[a].times_sent + NIfaces]
        BY <2>2 DEF sr_arpcache_sweepreqs
      <3>2. reqs[a].times_sent + NIfaces \in 0 .. MaxTimesSent + NIfaces - 1
        BY <1>1, <2>2, NIfacesNat, ArpConstants DEF Resent, Request
      <3>3. QED
        BY <1>1, <3>1, <3>2 DEF Request
    <2>3. CASE ~GivenUp(a) /\ ~Resent(a)
      BY <1>1, <2>3 DEF sr_arpcache_sweepreqs
    <2>4. QED
      BY <2>1, <2>2, <2>3
  <1>3. reqs' \in [IPs -> Request]
    BY <1>2 DEF sr_arpcache_sweepreqs
  <1>4. fate' \in [Packets -> Fates]
    BY <1>1 DEF sr_arpcache_sweepreqs, Fates
  <1>5. strays' \subseteq Packets
    BY DEF sr_arpcache_sweepreqs, TypeOK
  <1>6. QED
    BY <1>3, <1>4, <1>5

LEMMA TickType ==
    ASSUME TypeOK, Tick
    PROVE  entries' \in [Slots -> CacheEntry]
  <1>1. entries \in [Slots -> CacheEntry]
    BY DEF TypeOK, CacheEntry
  <1>2. ASSUME NEW s \in Slots PROVE entries'[s] \in CacheEntry
    <2>1. Older(entries[s].added) \in 0 .. AgeCap
      BY <1>1, ArpConstants DEF Older, CacheEntry, AgeCap
    <2>2. QED
      BY <1>1, <2>1 DEF Tick, CacheEntry
  <1>3. QED
    BY <1>2 DEF Tick

LEMMA ArpTypeNext == TypeInv /\ [Next]_vars => TypeInv'
  <1> SUFFICES ASSUME TypeInv, [Next]_vars PROVE TypeInv'
    OBVIOUS
  <1> USE DEF TypeInv, mainVars
  <1>1. CASE Tick
    BY <1>1, TickType DEF Tick, TypeOK, InHand, CacheEntry, Request
  <1>2. CASE sr_arpcache_timeout
    <2>1. entries' \in [Slots -> CacheEntry]
      BY <1>2, FreeType DEF sr_arpcache_timeout, ExpireEntries, TypeOK, CacheEntry
    <2>2. reqs' \in [IPs -> Request] /\ fate' \in [Packets -> Fates] /\ strays' \subseteq Packets
      BY <1>2, SweepType DEF sr_arpcache_timeout
    <2>3. QED
      BY <1>2, <2>1, <2>2 DEF sr_arpcache_timeout, TypeOK, InHand, CacheEntry, Request
  <1>3. ASSUME NEW p \in Packets, HandleIp(p) PROVE TypeInv'
    BY <1>3 DEF HandleIp, TypeOK, InHand, Stages, Fates
  <1>4. ASSUME NEW a \in IPs, LookupHit(a) PROVE TypeInv'
    <2>1. hw' \in Macs \cup {NoMac}
      BY <1>4 DEF LookupHit, TypeOK
    <2>2. cur \in Packets
      BY <1>4 DEF LookupHit, Address, InHand
    <2>3. QED
      BY <1>4, <2>1, <2>2 DEF LookupHit, TypeOK, InHand, Stages
  <1>5. ASSUME NEW a \in IPs, LookupMiss(a) PROVE TypeInv'
    <2>1. cur \in Packets
      BY <1>5 DEF LookupMiss, Address, InHand
    <2>2. QED
      BY <1>5, <2>1 DEF LookupMiss, TypeOK, InHand, Stages
  <1>6. CASE SendNow
    BY <1>6 DEF SendNow, Return, TypeOK, InHand, Stages, Fates
  <1>7. ASSUME NEW a \in IPs, Queue(a) PROVE TypeInv'
    <2>1. cur \in Packets
      BY <1>7 DEF Queue, Address, InHand
    <2>2. reqs' \in [IPs -> Request]
      BY <1>7, <2>1, QueuereqType DEF Queue
    <2>3. strays' \subseteq Packets
      BY <1>7, <2>1 DEF Queue, TypeOK
    <2>4. QED
      BY <1>7, <2>1, <2>2, <2>3 DEF Queue, TypeOK, InHand, Stages, Fates, Request
  <1>8. CASE AskNow
    BY <1>8 DEF AskNow, Return, TypeOK, InHand, Stages
  <1>9. CASE FlushOne
    <2>1. Tail(pending) \in Seq(Packets)
      BY <1>9 DEF FlushOne, TypeOK
    <2>2. fate' \in [Packets -> Fates]
      BY <1>9 DEF FlushOne, TypeOK, Fates
    <2>3. strays' \subseteq Packets
      BY <1>9 DEF FlushOne, TypeOK
    <2>4. QED
      BY <1>9, <2>1, <2>2, <2>3 DEF FlushOne, TypeOK, InHand
  <1>10. CASE FlushDone
    BY <1>10 DEF FlushDone, AfterFlush, TypeOK, InHand, Stages
  <1>11. CASE SendArpRep
    BY <1>11 DEF SendArpRep, TypeOK, InHand, Stages
  <1>12. ASSUME NEW a \in IPs, NEW m \in Macs, NEW r \in BOOLEAN, HandleArp(a, m, r)
         PROVE  TypeInv'
    <2>1. entries' \in [Slots -> CacheEntry] /\ reqs' \in [IPs -> Request]
      BY <1>12, InsertType DEF HandleArp
    <2>2. pending' \in Seq(Packets) /\ fate' \in [Packets -> Fates]
      BY <1>12 DEF HandleArp, TypeOK, Fates
    <2>3. stage' \in {"flush", "reply", "idle"} /\ stage' \in Stages
      BY <1>12 DEF HandleArp, AfterFlush, Stages
    <2>4. key' \in IPs \cup {NoIp} /\ hw' \in Macs \cup {NoMac}
      BY <1>12 DEF HandleArp, TypeOK
    <2>5. QED
      BY <1>12, <2>1, <2>2, <2>3, <2>4 DEF HandleArp, TypeOK, InHand, CacheEntry, Request
  <1>13. ASSUME NEW d \in Hosts, NEW g \in Gateways, RouteLearned(d, g) PROVE TypeInv'
    BY <1>13 DEF RouteLearned, TypeOK, InHand
  <1>14. ASSUME NEW d \in Hosts, RouteTakenOver(d) PROVE TypeInv'
    BY <1>14 DEF RouteTakenOver, TypeOK, InHand
  <1>15. CASE UNCHANGED vars
    BY <1>15 DEF vars, TypeOK, InHand
  <1>16. CASE TestGw
    BY <1>16 DEF TestGw, TypeOK, InHand, Stages
  <1>17. QED
    BY <1>1, <1>2, <1>3, <1>4, <1>5, <1>6, <1>7, <1>8, <1>9, <1>10, <1>11,
       <1>12, <1>13, <1>14, <1>15, <1>16 DEF Next, MainStep

(* The types and InHand hold together: the next hop of the packet in hand  *)
(* is an address, so every operation of the cache gets arguments it can    *)
(* use.                                                                    *)
THEOREM ArpTypeInvariant == Spec => []TypeInv
  BY ArpTypeInit, ArpTypeNext, PTL DEF Spec

(* Cache, requests and the main thread's state keep their types; a request *)
(* is never counted past the round that reaches MaxTimesSent               *)
(* (sr_arpcache_sweepreqs).                                                *)
THEOREM ArpTypes == Spec => []TypeOK
  <1>1. TypeInv => TypeOK
    BY DEF TypeInv
  <1>2. QED
    BY <1>1, ArpTypeInvariant, PTL
-----------------------------------------------------------------------------
(* Mappings expire.                                                        *)

ExpireInv == TypeInv /\ EntriesExpire

LEMMA ExpireNext == ExpireInv /\ [Next]_vars => ExpireInv'
  <1> SUFFICES ASSUME ExpireInv, [Next]_vars PROVE EntriesExpire'
    BY ArpTypeNext DEF ExpireInv
  <1>0. /\ \A s \in Slots : entries[s] \in CacheEntry /\ entries[s].added \in Nat
        /\ SR_ARPCACHE_TO \in Nat
    BY ArpConstants DEF ExpireInv, TypeInv, TypeOK, CacheEntry, AgeCap
  <1>1. CASE Tick
    <2> SUFFICES ASSUME NEW s \in Slots, entries'[s].valid
                 PROVE  entries'[s].added <= SR_ARPCACHE_TO + 1
      BY <1>1 DEF Tick, EntriesExpire
    <2>1. entries[s].valid
      BY <1>1 DEF Tick
    <2>2. entries[s].added <= SR_ARPCACHE_TO
      BY <1>0, <1>1, <2>1 DEF Tick, ExpireInv, EntriesExpire
    <2>3. entries'[s].added = Older(entries[s].added)
      BY <1>0, <1>1, <2>1 DEF Tick, CacheEntry
    <2>4. QED
      BY <1>0, <2>2, <2>3 DEF Older, AgeCap
  <1>2. CASE sr_arpcache_timeout
    <2> SUFFICES ASSUME NEW s \in Slots, entries'[s].valid
                 PROVE  entries'[s].added <= SR_ARPCACHE_TO
      BY <1>0, <1>2 DEF sr_arpcache_timeout, EntriesExpire
    <2>1. entries'[s] = entries[s] /\ ~(entries[s].added > SR_ARPCACHE_TO)
      BY <1>2 DEF sr_arpcache_timeout, ExpireEntries, Free
    <2>2. QED
      BY <1>0, <2>1
  <1>3. ASSUME NEW a \in IPs, NEW m \in Macs, NEW r \in BOOLEAN, HandleArp(a, m, r)
        PROVE  EntriesExpire'
    <2> SUFFICES ASSUME NEW s \in Slots, entries'[s].valid
                 PROVE  entries'[s].added <= SR_ARPCACHE_TO + (IF due THEN 1 ELSE 0)
      BY <1>3 DEF HandleArp, EntriesExpire
    <2>1. entries'[s] = entries[s] \/ entries'[s].added = 0
      BY <1>3 DEF HandleArp, sr_arpcache_insert, InsertEntry
    <2>2. QED
      BY <1>0, <2>1 DEF ExpireInv, EntriesExpire
  <1>4. CASE UNCHANGED <<entries, due>>
    BY <1>4 DEF ExpireInv, EntriesExpire
  <1>5. QED
    BY <1>1, <1>2, <1>3, <1>4 DEF Next, MainStep, HandleIp, TestGw, LookupHit, LookupMiss,
       SendNow, Queue, AskNow, FlushOne, FlushDone, SendArpRep, RouteLearned,
       RouteTakenOver, vars

(* No mapping is used more than SR_ARPCACHE_TO seconds and one sweep after *)
(* it was added (sr_arpcache_timeout).                                     *)
THEOREM ArpEntriesExpire == Spec => []EntriesExpire
  <1>1. Init => ExpireInv
    BY ArpTypeInit DEF Init, ExpireInv, EntriesExpire, Free
  <1>2. ExpireInv => EntriesExpire
    BY DEF ExpireInv
  <1>3. QED
    BY <1>1, <1>2, ExpireNext, PTL DEF Spec

-----------------------------------------------------------------------------
(* Every packet is in one place.                                           *)

(* The conjuncts of OnePlace                                               *)
InHandler(p) == p = cur /\ stage \in {"lookup", "load", "hit", "miss", "reload"}
OnRequest(p) == \E a \in IPs : p \in QueuedUnder(a)
OnPending(p) == \E k \in On(pending) : pending[k] = p

FateTells ==
    \A p \in Packets : /\ (fate[p] = "handling" <=> InHandler(p))
                       /\ (fate[p] = "queued" <=> OnRequest(p))
                       /\ (fate[p] = "flushing" <=> OnPending(p))
QueuedOnce ==
    \A a, b \in IPs : \A k \in On(reqs[a].packets), l \in On(reqs[b].packets) :
      reqs[a].packets[k] = reqs[b].packets[l] => a = b /\ k = l
PendingOnce == \A k, l \in On(pending) : pending[k] = pending[l] => k = l
UnlistedEmpty == \A a \in IPs : ~reqs[a].listed => reqs[a].packets = <<>>

(* sr_handle_arp starts to flush with nothing left over from before.       *)
FlushedWhole == stage # "flush" => pending = <<>>

PlaceInv == TypeInv /\ FlushedWhole /\ OnePlace

LEMMA OnePlaceParts ==
    OnePlace <=> FateTells /\ QueuedOnce /\ PendingOnce /\ UnlistedEmpty
  BY DEF OnePlace, FateTells, QueuedOnce, PendingOnce, UnlistedEmpty,
     InHandler, OnRequest, OnPending

(* What is on the request of an address, in terms of its list              *)
LEMMA QueuedUnderDef ==
    ASSUME NEW a \in IPs, NEW p
    PROVE  p \in QueuedUnder(a) <=> \E k \in On(reqs[a].packets) : reqs[a].packets[k] = p
  BY DEF QueuedUnder, On

LEMMA ReqType ==
    ASSUME TypeOK, NEW a \in IPs
    PROVE  reqs[a] \in Request /\ reqs[a].packets \in Seq(Packets)
  BY DEF TypeOK, Request

LEMMA PlaceInit == Init => PlaceInv
  <1> SUFFICES ASSUME Init PROVE FlushedWhole /\ OnePlace
    BY ArpTypeInit DEF PlaceInv
  <1>1. \A a \in IPs : reqs[a].packets = <<>> /\ QueuedUnder(a) = {}
    BY DEF Init, NoReq, QueuedUnder
  <1>2. pending = <<>> /\ On(pending) = {}
    BY DEF Init, On
  <1>3. FateTells
    BY <1>1, <1>2 DEF Init, FateTells, InHandler, OnRequest, OnPending
  <1>4. QueuedOnce /\ UnlistedEmpty
    BY <1>1 DEF QueuedOnce, UnlistedEmpty, On
  <1>5. QED
    BY <1>2, <1>3, <1>4, OnePlaceParts DEF PendingOnce, FlushedWhole

(* A step that moves no packet                                             *)
LEMMA PlaceStays ==
    ASSUME PlaceInv, UNCHANGED <<reqs, pending, fate>>, FlushedWhole',
           \A p \in Packets : (InHandler(p)' <=> InHandler(p))
    PROVE  OnePlace'
  <1>1. \A p \in Packets : (OnRequest(p)' <=> OnRequest(p)) /\ (OnPending(p)' <=> OnPending(p))
    BY DEF OnRequest, OnPending, QueuedUnder, On
  <1>2. FateTells'
    BY <1>1, OnePlaceParts DEF PlaceInv, FateTells
  <1>3. QueuedOnce' /\ PendingOnce' /\ UnlistedEmpty'
    BY OnePlaceParts DEF PlaceInv, QueuedOnce, PendingOnce, UnlistedEmpty, On
  <1>4. QED
    BY <1>2, <1>3, OnePlaceParts, PTL

(* The packet in hand is put at the end of one list.                       *)
LEMMA QueuePlace ==
    ASSUME PlaceInv, NEW n \in IPs, Queue(n)
    PROVE  OnePlace'
  <1>0. TypeOK /\ TypeInv /\ FateTells /\ QueuedOnce /\ PendingOnce /\ UnlistedEmpty
    BY OnePlaceParts DEF PlaceInv, TypeInv
  <1>1. cur \in Packets /\ stage \in {"miss", "reload"} /\ fate[cur] = "handling"
    BY <1>0 DEF Queue, Address, TypeInv, InHand, FateTells, InHandler
  <1> DEFINE q == reqs[n].packets
  <1>2. /\ q \in Seq(Packets) /\ reqs \in [IPs -> Request] /\ pending \in Seq(Packets)
        /\ fate \in [Packets -> Fates]
    BY <1>0, ReqType DEF TypeOK, Request
  <1>3. /\ reqs'[n].packets = Append(q, cur) /\ reqs'[n].listed
        /\ \A a \in IPs : a # n => reqs'[a] = reqs[a]
    BY <1>1, <1>2 DEF Queue, sr_arpcache_queuereq, Request
  <1>4. ~ OnRequest(cur) /\ ~ OnPending(cur)
    BY <1>0, <1>1 DEF FateTells
  <1> HIDE DEF q
  <1>5. /\ On(Append(q, cur)) = On(q) \cup {Len(q) + 1}
        /\ \A k \in On(q) : Append(q, cur)[k] = q[k]
        /\ Append(q, cur)[Len(q) + 1] = cur
        /\ \A k \in On(q) : k # Len(q) + 1
    BY <1>1, <1>2 DEF On
  <1>6. \A a \in IPs : \A k \in On(reqs[a].packets) : reqs[a].packets[k] # cur
    BY <1>4, QueuedUnderDef DEF OnRequest
  <1>7. \A p \in Packets : OnRequest(p)' <=> OnRequest(p) \/ p = cur
    <2>1. \A p : p \in QueuedUnder(n)' <=> p \in QueuedUnder(n) \/ p = cur
      BY <1>3, <1>5 DEF QueuedUnder, On, q
    <2>2. \A a \in IPs : a # n => QueuedUnder(a)' = QueuedUnder(a)
      BY <1>3 DEF QueuedUnder
    <2>3. QED
      BY <1>1, <2>1, <2>2 DEF OnRequest
  <1>8. QueuedOnce'
    <2> SUFFICES ASSUME NEW a \in IPs, NEW b \in IPs,
                        NEW k \in On(reqs'[a].packets), NEW l \in On(reqs'[b].packets),
                        reqs'[a].packets[k] = reqs'[b].packets[l]
                 PROVE  a = b /\ k = l
      BY DEF QueuedOnce, On
    <2>1. CASE a # n /\ b # n
      BY <1>0, <1>3, <2>1 DEF QueuedOnce
    <2>2. \A i \in On(reqs'[n].packets) :
            \/ i \in On(q) /\ reqs'[n].packets[i] = q[i]
            \/ i = Len(q) + 1 /\ reqs'[n].packets[i] = cur
      BY <1>3, <1>5
    <2>3. CASE a = n /\ b # n
      <3>1. l \in On(reqs[b].packets) /\ reqs'[b].packets[l] = reqs[b].packets[l]
        BY <1>3, <2>3
      <3>2. reqs'[n].packets[k] = cur \/ (k \in On(q) /\ reqs'[n].packets[k] = q[k])
        BY <2>2, <2>3
      <3>3. QED
        BY <1>0, <1>6, <2>3, <3>1, <3>2 DEF QueuedOnce, q
    <2>4. CASE a # n /\ b = n
      <3>1. k \in On(reqs[a].packets) /\ reqs'[a].packets[k] = reqs[a].packets[k]
        BY <1>3, <2>4
      <3>2. reqs'[n].packets[l] = cur \/ (l \in On(q) /\ reqs'[n].packets[l] = q[l])
        BY <2>2, <2>4
      <3>3. QED
        BY <1>0, <1>6, <2>4, <3>1, <3>2 DEF QueuedOnce, q
    <2>5. CASE a = n /\ b = n
      <3>1. \A i, j \in On(q) : q[i] = q[j] => i = j
        BY <1>0 DEF QueuedOnce, q
      <3>2. \A i \in On(q) : q[i] # cur
        BY <1>6 DEF q
      <3>3. QED
        BY <2>2, <2>5, <3>1, <3>2
    <2>6. QED
      BY <2>1, <2>3, <2>4, <2>5
  <1>9. FateTells'
    <2>1. \A p \in Packets : ~ InHandler(p)' /\ (OnPending(p)' <=> OnPending(p))
      BY DEF Queue, InHandler, OnPending, On
    <2>2. /\ fate'[cur] = "queued"
          /\ \A p \in Packets : p # cur => fate'[p] = fate[p] /\ ~ InHandler(p)
      BY <1>1, <1>2 DEF Queue, InHandler
    <2>3. QED
      BY <1>0, <1>1, <1>4, <1>7, <2>1, <2>2 DEF FateTells
  <1>10. PendingOnce' /\ UnlistedEmpty'
    BY <1>0, <1>3 DEF Queue, PendingOnce, UnlistedEmpty, On
  <1>11. QED
    BY <1>8, <1>9, <1>10, OnePlaceParts, PTL

(* The packets of the requests that are given up are on no list any more.  *)
LEMMA SweepPlace ==
    ASSUME PlaceInv, sr_arpcache_timeout
    PROVE  OnePlace'
  <1> USE DEF mainVars
  <1>0. TypeOK /\ FateTells /\ QueuedOnce /\ PendingOnce /\ UnlistedEmpty
    BY OnePlaceParts DEF PlaceInv, TypeInv
  <1>1. /\ \A a \in IPs : reqs[a] \in Request
        /\ UNCHANGED <<stage, cur, pending>>
    BY <1>0, ReqType DEF sr_arpcache_timeout
  <1>2. \A a \in IPs : /\ GivenUp(a) => reqs'[a] = NoReq
                       /\ ~ GivenUp(a) => /\ reqs'[a].packets = reqs[a].packets
                                          /\ reqs'[a].listed = reqs[a].listed
    BY <1>1 DEF sr_arpcache_timeout, sr_arpcache_sweepreqs, Request
  <1>3. NoReq.packets = <<>> /\ On(NoReq.packets) = {}
    BY DEF NoReq, On
  <1>4. \A a \in IPs : /\ GivenUp(a) => QueuedUnder(a)' = {}
                       /\ ~ GivenUp(a) => QueuedUnder(a)' = QueuedUnder(a)
    BY <1>2, <1>3 DEF QueuedUnder, NoReq
  <1>5. \A a, b \in IPs : \A p : p \in QueuedUnder(a) /\ p \in QueuedUnder(b) => a = b
    BY <1>0, QueuedUnderDef DEF QueuedOnce
  <1>6. FateTells'
    <2> SUFFICES ASSUME NEW p \in Packets
                 PROVE  /\ (fate'[p] = "handling" <=> InHandler(p))
                        /\ (fate'[p] = "queued" <=> OnRequest(p)')
                        /\ (fate'[p] = "flushing" <=> OnPending(p))
      BY <1>1 DEF FateTells, InHandler, OnPending, On
    <2>1. CASE Refused(p)
      <3>1. fate'[p] = "unreachable"
        BY <2>1 DEF sr_arpcache_timeout, sr_arpcache_sweepreqs
      <3>2. fate[p] = "queued" /\ ~ OnRequest(p)'
        BY <1>0, <1>4, <1>5, <2>1 DEF FateTells, OnRequest, Refused
      <3>3. ~ InHandler(p) /\ ~ OnPending(p)
        BY <1>0, <3>2 DEF FateTells
      <3>4. QED
        BY <3>1, <3>2, <3>3
    <2>2. CASE ~ Refused(p)
      <3>1. fate'[p] = fate[p]
        BY <2>2 DEF sr_arpcache_timeout, sr_arpcache_sweepreqs
      <3>2. (OnRequest(p)' <=> OnRequest(p))
        BY <1>4, <2>2 DEF OnRequest, Refused
      <3>3. QED
        BY <1>0, <3>1, <3>2 DEF FateTells
    <2>3. QED
      BY <2>1, <2>2
  <1>7. QueuedOnce'
    <2> SUFFICES ASSUME NEW a \in IPs, NEW b \in IPs,
                        NEW k \in On(reqs'[a].packets), NEW l \in On(reqs'[b].packets),
                        reqs'[a].packets[k] = reqs'[b].packets[l]
                 PROVE  a = b /\ k = l
      BY DEF QueuedOnce, On
    <2>1. ~ GivenUp(a) /\ ~ GivenUp(b)
      BY <1>2, <1>3
    <2>2. QED
      BY <1>0, <1>2, <2>1 DEF QueuedOnce
  <1>8. PendingOnce' /\ UnlistedEmpty'
    BY <1>0, <1>1, <1>2, <1>3 DEF PendingOnce, UnlistedEmpty, On
  <1>9. QED
    BY <1>6, <1>7, <1>8, OnePlaceParts, PTL

(* The whole list of a request moves to the handler's list.                *)
LEMMA HandleArpPlace ==
    ASSUME PlaceInv, NEW a \in IPs, NEW m \in Macs, NEW r \in BOOLEAN, HandleArp(a, m, r)
    PROVE  FlushedWhole' /\ OnePlace'
  <1>0. TypeOK /\ FateTells /\ QueuedOnce /\ PendingOnce /\ UnlistedEmpty
    BY OnePlaceParts DEF PlaceInv, TypeInv
  <1>1. /\ stage = "idle" /\ pending = <<>> /\ cur' = cur
        /\ stage' \in {"flush", "reply", "idle"}
    BY DEF PlaceInv, FlushedWhole, HandleArp, AfterFlush
  <1>2. /\ reqs'[a] = NoReq /\ \A b \in IPs : b # a => reqs'[b] = reqs[b]
        /\ NoReq.packets = <<>> /\ On(NoReq.packets) = {}
    BY <1>0 DEF HandleArp, sr_arpcache_insert, NoReq, TypeOK, On
  <1>3. pending' = reqs[a].packets
    BY <1>0, <1>1 DEF HandleArp, UnlistedEmpty
  <1>4. FlushedWhole'
    BY <1>1 DEF HandleArp, AfterFlush, FlushedWhole
  <1>5. \A p \in Packets : /\ p \in QueuedUnder(a) => fate'[p] = "flushing"
                           /\ p \notin QueuedUnder(a) => fate'[p] = fate[p]
    <2>1. CASE reqs[a].listed
      BY <2>1 DEF HandleArp
    <2>2. CASE ~ reqs[a].listed
      BY <1>0, <2>2 DEF HandleArp, UnlistedEmpty, QueuedUnder
    <2>3. QED
      BY <2>1, <2>2
  <1>6. \A p : /\ p \notin QueuedUnder(a)'
               /\ \A b \in IPs : b # a => (p \in QueuedUnder(b)' <=> p \in QueuedUnder(b))
    BY <1>2 DEF QueuedUnder, On
  <1>7. \A b \in IPs : \A p : p \in QueuedUnder(a) /\ p \in QueuedUnder(b) => a = b
    BY <1>0, QueuedUnderDef DEF QueuedOnce
  <1>8. FateTells'
    <2> SUFFICES ASSUME NEW p \in Packets
                 PROVE  /\ (fate'[p] = "handling" <=> InHandler(p)')
                        /\ (fate'[p] = "queued" <=> OnRequest(p)')
                        /\ (fate'[p] = "flushing" <=> OnPending(p)')
      BY DEF FateTells
    <2>1. ~ InHandler(p) /\ ~ InHandler(p)' /\ ~ OnPending(p)
      BY <1>1 DEF InHandler, OnPending, On
    <2>2. OnPending(p)' <=> p \in QueuedUnder(a)
      BY <1>3, QueuedUnderDef DEF OnPending, On
    <2>3. OnRequest(p)' <=> OnRequest(p) /\ p \notin QueuedUnder(a)
      BY <1>6, <1>7 DEF OnRequest
    <2>4. p \in QueuedUnder(a) => OnRequest(p)
      BY DEF OnRequest
    <2>5. QED
      BY <1>0, <1>5, <2>1, <2>2, <2>3, <2>4 DEF FateTells
  <1>9. QueuedOnce' /\ PendingOnce' /\ UnlistedEmpty'
    <2>1. QueuedOnce'
      BY <1>0, <1>2 DEF QueuedOnce, On
    <2>2. PendingOnce'
      BY <1>0, <1>3 DEF QueuedOnce, PendingOnce, On
    <2>3. UnlistedEmpty'
      BY <1>0, <1>2 DEF UnlistedEmpty
    <2>4. QED
      BY <2>1, <2>2, <2>3
  <1>10. QED
    BY <1>4, <1>8, <1>9, OnePlaceParts, PTL

(* The first packet leaves the handler's list.                             *)
LEMMA FlushOnePlace ==
    ASSUME PlaceInv, FlushOne
    PROVE  OnePlace'
  <1>0. TypeOK /\ FateTells /\ QueuedOnce /\ PendingOnce /\ UnlistedEmpty
    BY OnePlaceParts DEF PlaceInv, TypeInv
  <1>1. /\ pending \in Seq(Packets) /\ pending # <<>> /\ pending' = Tail(pending)
        /\ fate \in [Packets -> Fates]
        /\ UNCHANGED <<reqs, stage, cur>>
    BY <1>0 DEF TypeOK, FlushOne
  <1>2. /\ Head(pending) = pending[1] /\ Head(pending) \in Packets /\ 1 \in On(pending)
        /\ Len(Tail(pending)) = Len(pending) - 1 /\ Len(pending) \in Nat
        /\ \A k \in On(Tail(pending)) : k + 1 \in On(pending) /\ Tail(pending)[k] = pending[k + 1]
    BY <1>1 DEF On
  <1>3. PendingOnce'
    BY <1>0, <1>1, <1>2 DEF PendingOnce, On
  <1>4. \A p \in Packets : OnPending(p)' <=> OnPending(p) /\ p # Head(pending)
    <2> SUFFICES ASSUME NEW p \in Packets
                 PROVE  OnPending(p)' <=> OnPending(p) /\ p # Head(pending)
      OBVIOUS
    <2>1. ASSUME OnPending(p)' PROVE OnPending(p) /\ p # Head(pending)
      <3>1. PICK k \in On(Tail(pending)) : Tail(pending)[k] = p
        BY <1>1, <2>1 DEF OnPending, On
      <3>2. k + 1 \in On(pending) /\ pending[k + 1] = p /\ k + 1 # 1
        BY <1>2, <3>1 DEF On
      <3>3. QED
        BY <1>0, <1>2, <3>2 DEF OnPending, PendingOnce
    <2>2. ASSUME OnPending(p), p # Head(pending) PROVE OnPending(p)'
      <3>1. PICK k \in On(pending) : pending[k] = p
        BY <2>2 DEF OnPending
      <3>2. k # 1 /\ k - 1 \in On(Tail(pending)) /\ Tail(pending)[k - 1] = p
        BY <1>1, <1>2, <2>2, <3>1 DEF On
      <3>3. QED
        BY <1>1, <3>2 DEF OnPending, On
    <2>3. QED
      BY <2>1, <2>2
  <1>5. FateTells'
    <2>1. \A p \in Packets : /\ (InHandler(p)' <=> InHandler(p))
                             /\ (OnRequest(p)' <=> OnRequest(p))
      BY <1>1 DEF InHandler, OnRequest, QueuedUnder
    <2>2. fate[Head(pending)] = "flushing"
      BY <1>0, <1>2 DEF FateTells, OnPending
    <2>3. /\ fate'[Head(pending)] = "sent"
          /\ \A p \in Packets : p # Head(pending) => fate'[p] = fate[p]
      BY <1>1, <1>2 DEF FlushOne
    <2>4. QED
      BY <1>0, <1>2, <1>4, <2>1, <2>2, <2>3 DEF FateTells
  <1>6. QueuedOnce' /\ UnlistedEmpty'
    BY <1>0, <1>1 DEF QueuedOnce, UnlistedEmpty, On
  <1>7. QED
    BY <1>3, <1>5, <1>6, OnePlaceParts, PTL

LEMMA PlaceNext == PlaceInv /\ [Next]_vars => PlaceInv'
  <1> SUFFICES ASSUME PlaceInv, [Next]_vars PROVE FlushedWhole' /\ OnePlace'
    BY ArpTypeNext DEF PlaceInv
  <1> USE DEF mainVars
  <1>0. /\ TypeOK /\ TypeInv /\ FlushedWhole
        /\ FateTells /\ QueuedOnce /\ PendingOnce /\ UnlistedEmpty
    BY OnePlaceParts DEF PlaceInv, TypeInv
  <1>1. CASE sr_arpcache_timeout
    BY <1>0, <1>1, SweepPlace DEF sr_arpcache_timeout, FlushedWhole
  <1>2. ASSUME NEW a \in IPs, Queue(a) PROVE FlushedWhole' /\ OnePlace'
    <2>1. FlushedWhole'
      BY <1>0, <1>2 DEF Queue, Address, FlushedWhole
    <2>2. QED
      BY <1>2, <2>1, QueuePlace
  <1>3. ASSUME NEW a \in IPs, NEW m \in Macs, NEW r \in BOOLEAN, HandleArp(a, m, r)
        PROVE  FlushedWhole' /\ OnePlace'
    BY <1>3, HandleArpPlace
  <1>4. CASE FlushOne
    BY <1>0, <1>4, FlushOnePlace DEF FlushOne, FlushedWhole
  <1>5. ASSUME UNCHANGED <<reqs, pending>>, FlushedWhole',
               NEW p \in Packets, NEW f \in Fates \ {"queued", "flushing"},
               fate[p] \notin {"queued", "flushing"},
               fate' = [fate EXCEPT ![p] = f],
               \A q \in Packets : InHandler(q)' <=> (IF q = p THEN f = "handling" ELSE InHandler(q))
        PROVE  OnePlace'
    <2>1. \A q \in Packets : /\ (OnRequest(q)' <=> OnRequest(q))
                             /\ (OnPending(q)' <=> OnPending(q))
      BY <1>5 DEF OnRequest, OnPending, QueuedUnder, On
    <2>2. /\ fate'[p] = f /\ f # "queued" /\ f # "flushing"
          /\ \A q \in Packets : q # p => fate'[q] = fate[q]
      BY <1>0, <1>5 DEF TypeOK
    <2>3. FateTells'
      BY <1>0, <1>5, <2>1, <2>2 DEF FateTells
    <2>4. QueuedOnce' /\ PendingOnce' /\ UnlistedEmpty'
      BY <1>0, <1>5 DEF QueuedOnce, PendingOnce, UnlistedEmpty, On
    <2>5. QED
      BY <2>3, <2>4, OnePlaceParts, PTL
  <1>6. ASSUME NEW p \in Packets, HandleIp(p) PROVE FlushedWhole' /\ OnePlace'
    <2>1. FlushedWhole' /\ UNCHANGED <<reqs, pending>>
      BY <1>0, <1>6 DEF HandleIp, FlushedWhole
    <2>2. \A q \in Packets : InHandler(q)' <=> (IF q = p THEN TRUE ELSE InHandler(q))
      BY <1>6 DEF HandleIp, InHandler
    <2>3. "handling" \in Fates \ {"queued", "flushing"}
      BY DEF Fates
    <2>4. QED
      BY <1>5, <1>6, <2>1, <2>2, <2>3 DEF HandleIp
  <1>7. CASE SendNow
    <2>1. FlushedWhole' /\ UNCHANGED <<reqs, pending>> /\ cur \in Packets
      BY <1>0, <1>7 DEF SendNow, Return, FlushedWhole, TypeInv, InHand
    <2>2. fate[cur] = "handling"
      BY <1>0, <1>7, <2>1 DEF SendNow, FateTells, InHandler
    <2>3. \A q \in Packets : InHandler(q)' <=> (IF q = cur THEN FALSE ELSE InHandler(q))
      BY <1>7 DEF SendNow, Return, InHandler
    <2>4. "sent" \in Fates \ {"queued", "flushing"}
      BY DEF Fates
    <2>5. QED
      BY <1>5, <1>7, <2>1, <2>2, <2>3, <2>4 DEF SendNow
  <1>8. ASSUME UNCHANGED <<reqs, pending, fate>>, FlushedWhole',
               \A p \in Packets : InHandler(p)' <=> InHandler(p)
        PROVE  FlushedWhole' /\ OnePlace'
    BY <1>8, PlaceStays
  <1>9. CASE Tick \/ TestGw \/ (\E a \in IPs : LookupHit(a) \/ LookupMiss(a)) \/ UNCHANGED vars
    <2>1. UNCHANGED <<reqs, pending, fate>> /\ FlushedWhole'
      BY <1>0, <1>9 DEF Tick, TestGw, LookupHit, LookupMiss, Address, vars, FlushedWhole
    <2>2. \A p \in Packets : InHandler(p)' <=> InHandler(p)
      BY <1>9 DEF Tick, TestGw, LookupHit, LookupMiss, Address, vars, InHandler
    <2>3. QED
      BY <1>8, <2>1, <2>2
  <1>10. CASE AskNow \/ FlushDone \/ SendArpRep
    BY <1>0, <1>8, <1>10 DEF AskNow, Return, FlushDone, AfterFlush, SendArpRep,
       FlushedWhole, InHandler
  <1>11. ASSUME NEW d \in Hosts, \/ \E g \in Gateways : RouteLearned(d, g)
                                 \/ RouteTakenOver(d)
         PROVE  FlushedWhole' /\ OnePlace'
    BY <1>0, <1>8, <1>11 DEF RouteLearned, RouteTakenOver, FlushedWhole, InHandler
  <1>12. QED
    BY <1>1, <1>2, <1>3, <1>4, <1>6, <1>7, <1>9, <1>10, <1>11 DEF Next, MainStep

(* A packet the router accepted is in exactly one place: in the handler,   *)
(* on one request, or on the list that is being sent; the sweeper and the  *)
(* handlers neither lose nor double one (sr_arpcache_insert unlinks what   *)
(* sr_handle_arp sends and frees), also when the RIP thread rewrites the   *)
(* route in use.                                                           *)
THEOREM ArpOnePlace == Spec => []OnePlace
  <1>1. PlaceInv => OnePlace
    BY DEF PlaceInv
  <1>2. QED
    BY <1>1, PlaceInit, PlaceNext, PTL DEF Spec

-----------------------------------------------------------------------------
(* Nobody but strays waits for an address the cache knows.                 *)

(* While sr_handle_ip is between its lookup and queueing its packet, a     *)
(* route that has a gateway still has the one that was looked up: the RIP  *)
(* thread only makes routes direct.                                        *)
LookedUp ==
    /\ stage \in {"miss", "reload"} => key \in IPs /\ (CurGw # NoGw => key = CurGw)
    /\ stage = "hit" => key \in IPs

(* The parts of KnownNeverWaits                                            *)
MissHolds == stage \in {"miss", "reload"} => Matches(key) = {}
GatewaysUnknown == \A a \in Gateways \ Hosts : reqs[a].listed => Matches(a) = {}
OnlyStraysWait == \A a \in IPs : Matches(a) # {} => QueuedUnder(a) \subseteq strays

WaitInv == PlaceInv /\ LookedUp /\ KnownNeverWaits /\ NoOvertaking

LEMMA WaitParts == KnownNeverWaits <=> MissHolds /\ GatewaysUnknown /\ OnlyStraysWait
  BY DEF KnownNeverWaits, MissHolds, GatewaysUnknown, OnlyStraysWait

(* The sweeper, and time, only make the cache forget and requests end, and *)
(* a packet that still waits is a stray if it was one.                     *)
LEMMA SweeperForgets ==
    ASSUME PlaceInv, Tick \/ sr_arpcache_timeout, NEW a \in IPs
    PROVE  /\ Matches(a)' \subseteq Matches(a)
           /\ reqs'[a].listed => reqs[a].listed
           /\ QueuedUnder(a)' \subseteq QueuedUnder(a)
           /\ QueuedUnder(a)' \cap strays \subseteq strays'
  <1>0. /\ \A b \in IPs : reqs[b] \in Request
        /\ \A s \in Slots : entries[s] \in CacheEntry
        /\ QueuedOnce
    BY OnePlaceParts DEF PlaceInv, TypeInv, TypeOK, Request, CacheEntry
  <1>1. CASE Tick
    <2>1. \A s \in Slots : entries'[s].valid =>
                           entries[s].valid /\ entries'[s].ip = entries[s].ip
      BY <1>0, <1>1 DEF Tick, CacheEntry
    <2>2. UNCHANGED <<reqs, strays>>
      BY <1>1 DEF Tick
    <2>3. QED
      BY <2>1, <2>2 DEF Matches, QueuedUnder
  <1>2. CASE sr_arpcache_timeout
    <2>1. \A s \in Slots : entries'[s].valid => entries'[s] = entries[s]
      BY <1>2 DEF sr_arpcache_timeout, ExpireEntries, Free
    <2>2. reqs'[a].listed => reqs[a].listed
      BY <1>0, <1>2 DEF sr_arpcache_timeout, sr_arpcache_sweepreqs, GivenUp, Resent, NoReq
    <2>3. /\ GivenUp(a) => reqs'[a].packets = <<>>
          /\ ~ GivenUp(a) => reqs'[a].packets = reqs[a].packets
      BY <1>0, <1>2 DEF sr_arpcache_timeout, sr_arpcache_sweepreqs, Request, NoReq
    <2>4. /\ GivenUp(a) => QueuedUnder(a)' = {}
          /\ ~ GivenUp(a) => QueuedUnder(a)' = QueuedUnder(a)
      BY <2>3 DEF QueuedUnder
    <2>5. \A b \in IPs : \A p : p \in QueuedUnder(a) /\ p \in QueuedUnder(b) => a = b
      BY <1>0, QueuedUnderDef DEF QueuedOnce
    <2>6. \A p \in QueuedUnder(a)' : ~ Refused(p)
      BY <2>4, <2>5 DEF Refused
    <2>7. QueuedUnder(a)' \cap strays \subseteq strays'
      BY <1>2, <2>6 DEF sr_arpcache_timeout, sr_arpcache_sweepreqs
    <2>8. QED
      BY <2>1, <2>2, <2>4, <2>7 DEF Matches
  <1>3. QED
    BY <1>1, <1>2

(* A step that leaves the cache alone                                      *)
LEMMA WaitStays ==
    ASSUME WaitInv, UNCHANGED <<entries, reqs, strays>>, LookedUp',
           stage' \in {"miss", "reload"} => stage \in {"miss", "reload"} /\ key' = key,
           stage' = "hit" => stage = "hit" /\ key' = key
    PROVE  KnownNeverWaits' /\ NoOvertaking'
  <1>1. \A a : Matches(a)' = Matches(a) /\ QueuedUnder(a)' = QueuedUnder(a)
    BY DEF Matches, QueuedUnder
  <1>2. QED
    BY <1>1 DEF WaitInv, KnownNeverWaits, NoOvertaking, LookedUp

(* The packet is queued under the address that was looked up, which the    *)
(* cache still does not know, or it becomes a stray.                       *)
LEMMA QueueWaits ==
    ASSUME WaitInv, NEW n \in IPs, Queue(n)
    PROVE  KnownNeverWaits'
  <1>0. /\ TypeOK /\ TypeInv /\ LookedUp /\ MissHolds /\ GatewaysUnknown /\ OnlyStraysWait
    BY WaitParts DEF WaitInv, PlaceInv, TypeInv
  <1>1. /\ stage \in {"miss", "reload"} /\ cur \in Packets /\ key \in IPs
        /\ Matches(key) = {} /\ stage' = "ask" /\ entries' = entries
    BY <1>0 DEF Queue, Address, TypeInv, InHand, LookedUp, MissHolds
  <1>2. \A a : Matches(a)' = Matches(a)
    BY <1>1 DEF Matches
  <1>3. n \in Gateways \ Hosts => n = key
    BY <1>0, <1>1, ArpConstants DEF Queue, Address, LookedUp, CurGw
  <1>4. /\ \A a \in IPs : a # n => reqs'[a] = reqs[a]
        /\ reqs'[n].packets = Append(reqs[n].packets, cur)
        /\ reqs[n].packets \in Seq(Packets)
    BY <1>0, <1>1, QueuereqType, ReqType DEF Queue, sr_arpcache_queuereq, TypeOK
  <1>5. \A p : p \in QueuedUnder(n)' => p \in QueuedUnder(n) \/ p = cur
    BY <1>1, <1>4 DEF QueuedUnder
  <1>6. GatewaysUnknown'
    BY <1>0, <1>1, <1>2, <1>3, <1>4 DEF GatewaysUnknown, IPs
  <1>7. strays \subseteq strays' /\ (n # key => cur \in strays')
    BY DEF Queue
  <1>8. OnlyStraysWait'
    <2> SUFFICES ASSUME NEW a \in IPs, Matches(a) # {}, NEW p \in QueuedUnder(a)'
                 PROVE  p \in strays'
      BY <1>2 DEF OnlyStraysWait
    <2>1. CASE a # n
      <3>1. QueuedUnder(a)' = QueuedUnder(a)
        BY <1>4, <2>1 DEF QueuedUnder
      <3>2. QED
        BY <1>0, <1>7, <3>1 DEF OnlyStraysWait
    <2>2. CASE a = n
      BY <1>0, <1>1, <1>5, <1>7, <2>2 DEF OnlyStraysWait
    <2>3. QED
      BY <2>1, <2>2
  <1>9. MissHolds'
    BY <1>1 DEF MissHolds
  <1>10. QED
    BY <1>6, <1>8, <1>9, WaitParts, PTL

LEMMA WaitNext ==
    ASSUME WaitInv, [Next]_vars
    PROVE  WaitInv'
  <1> SUFFICES LookedUp' /\ KnownNeverWaits' /\ NoOvertaking'
    BY PlaceNext DEF WaitInv
  <1> USE DEF mainVars
  <1>0. /\ TypeInv /\ TypeOK /\ InHand /\ PlaceInv /\ LookedUp /\ NoOvertaking
        /\ MissHolds /\ GatewaysUnknown /\ OnlyStraysWait
    BY WaitParts DEF WaitInv, PlaceInv, TypeInv
  <1>1. CASE Tick \/ sr_arpcache_timeout
    <2>1. UNCHANGED <<gw, stage, cur, key>>
      BY <1>1 DEF Tick, sr_arpcache_timeout
    <2>2. LookedUp'
      BY <1>0, <2>1 DEF LookedUp, CurGw
    <2>3. MissHolds'
      BY <1>0, <1>1, <2>1, SweeperForgets DEF MissHolds, LookedUp
    <2>4. GatewaysUnknown'
      BY <1>0, <1>1, SweeperForgets DEF GatewaysUnknown, IPs
    <2>5. OnlyStraysWait'
      <3> SUFFICES ASSUME NEW a \in IPs, Matches(a)' # {}
                   PROVE  QueuedUnder(a)' \subseteq strays'
        BY DEF OnlyStraysWait
      <3>1. Matches(a) # {}
        BY <1>0, <1>1, SweeperForgets
      <3>2. QueuedUnder(a)' \subseteq strays
        BY <1>0, <1>1, <3>1, SweeperForgets DEF OnlyStraysWait
      <3>3. QED
        BY <1>0, <1>1, <3>2, SweeperForgets
    <2>6. NoOvertaking'
      <3> SUFFICES ASSUME stage = "hit" PROVE QueuedUnder(key)' \subseteq strays'
        BY <2>1 DEF NoOvertaking
      <3>1. key \in IPs /\ QueuedUnder(key) \subseteq strays /\ key' = key
        BY <1>0, <2>1 DEF LookedUp, NoOvertaking
      <3> PICK a \in IPs : a = key
        BY <3>1
      <3>2. QueuedUnder(a)' \subseteq strays'
        BY <1>0, <1>1, <3>1, SweeperForgets
      <3>3. QED
        BY <2>1, <3>2 DEF QueuedUnder
    <2>7. QED
      BY <2>2, <2>3, <2>4, <2>5, <2>6, WaitParts, PTL
  <1>2. ASSUME NEW a \in IPs, LookupHit(a) PROVE LookedUp' /\ KnownNeverWaits' /\ NoOvertaking'
    <2>1. Matches(a) # {} /\ key' = a /\ stage' = "hit" /\ UNCHANGED <<entries, reqs, strays>>
      BY <1>2 DEF LookupHit, Found
    <2>2. \A b : Matches(b)' = Matches(b) /\ QueuedUnder(b)' = QueuedUnder(b)
      BY <2>1 DEF Matches, QueuedUnder
    <2>3. QED
      BY <1>0, <2>1, <2>2, WaitParts DEF WaitInv, LookedUp, KnownNeverWaits, NoOvertaking, OnlyStraysWait
  <1>3. ASSUME NEW a \in IPs, LookupMiss(a) PROVE LookedUp' /\ KnownNeverWaits' /\ NoOvertaking'
    <2>1. /\ Matches(a) = {} /\ key' = a /\ stage' = "miss"
          /\ UNCHANGED <<entries, reqs, strays, gw, cur>>
      BY <1>3 DEF LookupMiss
    <2>2. \A b : Matches(b)' = Matches(b) /\ QueuedUnder(b)' = QueuedUnder(b)
      BY <2>1 DEF Matches, QueuedUnder
    <2>3. CurGw # NoGw => a = CurGw
      BY <1>3 DEF LookupMiss, Address
    <2>4. LookedUp'
      BY <2>1, <2>3 DEF LookedUp, CurGw
    <2>5. QED
      BY <2>1, <2>2, <2>4 DEF WaitInv, KnownNeverWaits, NoOvertaking
  <1>4. ASSUME NEW a \in IPs, Queue(a) PROVE LookedUp' /\ KnownNeverWaits' /\ NoOvertaking'
    <2>1. LookedUp' /\ NoOvertaking'
      BY <1>4 DEF Queue, LookedUp, NoOvertaking
    <2>2. QED
      BY <1>4, <2>1, QueueWaits
  <1>5. ASSUME NEW a \in IPs, NEW m \in Macs, NEW r \in BOOLEAN, HandleArp(a, m, r)
        PROVE  LookedUp' /\ KnownNeverWaits' /\ NoOvertaking'
    <2>1. stage' \in {"flush", "reply", "idle"} /\ strays' = strays
      BY <1>5 DEF HandleArp, AfterFlush
    <2>2. /\ ~reqs'[a].listed /\ reqs'[a].packets = <<>>
          /\ \A b \in IPs : b # a => reqs'[b] = reqs[b]
      BY <1>0, <1>5 DEF HandleArp, sr_arpcache_insert, NoReq, TypeOK
    <2>3. \A b \in IPs : b # a => Matches(b)' \subseteq Matches(b)
      BY <1>5 DEF HandleArp, sr_arpcache_insert, InsertEntry, Matches
    <2>4. /\ QueuedUnder(a)' = {}
          /\ \A b \in IPs : b # a => QueuedUnder(b)' = QueuedUnder(b)
      BY <2>2 DEF QueuedUnder
    <2>5. GatewaysUnknown'
      BY <1>0, <2>2, <2>3 DEF GatewaysUnknown, IPs
    <2>6. OnlyStraysWait'
      BY <1>0, <2>1, <2>3, <2>4 DEF OnlyStraysWait
    <2>7. LookedUp' /\ MissHolds' /\ NoOvertaking'
      BY <2>1 DEF LookedUp, MissHolds, NoOvertaking
    <2>8. QED
      BY <2>5, <2>6, <2>7, WaitParts, PTL
  <1>6. CASE FlushOne
    <2>1. /\ stage = "flush" /\ stage' = "flush" /\ pending # <<>> /\ pending \in Seq(Packets)
          /\ UNCHANGED <<entries, reqs>> /\ strays' = strays \ {Head(pending)}
      BY <1>0, <1>6 DEF FlushOne, TypeOK
    <2>2. Head(pending) \in Packets /\ OnPending(Head(pending))
      BY <2>1 DEF OnPending, On
    <2>3. \A a \in IPs : Head(pending) \notin QueuedUnder(a)
      BY <1>0, <2>2, OnePlaceParts DEF PlaceInv, FateTells, OnRequest
    <2>4. \A a : Matches(a)' = Matches(a) /\ QueuedUnder(a)' = QueuedUnder(a)
      BY <2>1 DEF Matches, QueuedUnder
    <2>5. OnlyStraysWait' /\ GatewaysUnknown'
      BY <1>0, <2>1, <2>3, <2>4 DEF OnlyStraysWait, GatewaysUnknown
    <2>6. LookedUp' /\ MissHolds' /\ NoOvertaking'
      BY <2>1 DEF LookedUp, MissHolds, NoOvertaking
    <2>7. QED
      BY <2>5, <2>6, WaitParts, PTL
  <1>7. CASE TestGw
    <2>1. /\ UNCHANGED <<entries, reqs, strays, gw, cur, key>>
          /\ stage' \in {"load", "reload"} /\ (stage' = "reload" => stage = "miss")
      BY <1>7 DEF TestGw
    <2>2. LookedUp'
      BY <1>0, <2>1 DEF LookedUp, CurGw
    <2>3. QED
      BY <2>1, <2>2, WaitStays
  <1>8. ASSUME UNCHANGED <<entries, reqs, strays>>, stage' \notin {"hit", "miss", "reload"}
        PROVE  LookedUp' /\ KnownNeverWaits' /\ NoOvertaking'
    <2>1. LookedUp'
      BY <1>8 DEF LookedUp
    <2>2. QED
      BY <1>8, <2>1, WaitStays
  <1>9. ASSUME NEW d \in Hosts, \/ \E g \in Gateways : RouteLearned(d, g)
                                \/ RouteTakenOver(d)
        PROVE  LookedUp' /\ KnownNeverWaits' /\ NoOvertaking'
    <2>1. UNCHANGED <<entries, reqs, strays, stage, key, cur>>
      BY <1>9 DEF RouteLearned, RouteTakenOver
    <2>2. stage \in {"miss", "reload"} => CurGw' \in {CurGw, NoGw}
      <3> SUFFICES ASSUME stage \in {"miss", "reload"} PROVE CurGw' \in {CurGw, NoGw}
        OBVIOUS
      <3>1. gw' = [gw EXCEPT ![d] = NoGw] /\ gw \in [Hosts -> Gateways \cup {NoGw}]
        BY <1>0, <1>9 DEF RouteLearned, RouteTakenOver, TypeOK
      <3>2. Dst[cur] \in Hosts
        BY <1>0, ArpConstants DEF InHand
      <3>3. QED
        BY <2>1, <3>1, <3>2 DEF CurGw
    <2>3. LookedUp'
      BY <1>0, <2>1, <2>2 DEF LookedUp
    <2>4. QED
      BY <2>1, <2>3, WaitStays
  <1>10. CASE UNCHANGED vars
    <2>1. UNCHANGED <<entries, reqs, strays, gw, stage, cur, key>>
      BY <1>10 DEF vars
    <2>2. LookedUp'
      BY <1>0, <2>1 DEF LookedUp, CurGw
    <2>3. QED
      BY <2>1, <2>2, WaitStays
  <1>11. ASSUME SendNow \/ AskNow \/ FlushDone \/ SendArpRep \/ \E p \in Packets : HandleIp(p)
         PROVE  LookedUp' /\ KnownNeverWaits' /\ NoOvertaking'
    BY <1>8, <1>11 DEF SendNow, AskNow, Return, FlushDone, AfterFlush, SendArpRep, HandleIp
  <1>12. QED
    BY <1>1, <1>2, <1>3, <1>4, <1>5, <1>6, <1>7, <1>9, <1>10, <1>11 DEF Next, MainStep

LEMMA WaitInit == Init => WaitInv
  <1> SUFFICES ASSUME Init PROVE WaitInv
    OBVIOUS
  <1>1. PlaceInv
    BY PlaceInit
  <1>2. /\ stage = "idle" /\ \A s \in Slots : ~entries[s].valid
        /\ \A a \in IPs : ~reqs[a].listed
    BY DEF Init, Free, NoReq
  <1>3. \A a : Matches(a) = {}
    BY <1>2 DEF Matches
  <1>4. QED
    BY <1>1, <1>2, <1>3 DEF WaitInv, LookedUp, KnownNeverWaits, NoOvertaking

(* Whatever the RIP thread does to the route in use: what a lookup that    *)
(* missed answered still holds when sr_arpcache_queuereq acts on it,       *)
(* although the lock is given up in between; no packet waits for a gateway *)
(* the cache knows; and the packets that wait for any other address it     *)
(* knows were queued there without a lookup (sr_router.c:279).             *)
THEOREM ArpKnownNeverWaits == Spec => []KnownNeverWaits
  <1>1. WaitInv /\ [Next]_vars => WaitInv'
    BY WaitNext
  <1>2. WaitInv => KnownNeverWaits
    BY DEF WaitInv
  <1>3. QED
    BY <1>1, <1>2, WaitInit, PTL DEF Spec

(* Whatever the RIP thread does, a packet that found its next hop in the   *)
(* cache overtakes no packet that looked for the same next hop and waits   *)
(* for it (sr_handle_ip, between sr_arpcache_lookup and sr_send_packet).   *)
THEOREM ArpNoOvertaking == Spec => []NoOvertaking
  <1>1. WaitInv /\ [Next]_vars => WaitInv'
    BY WaitNext
  <1>2. WaitInv => NoOvertaking
    BY DEF WaitInv
  <1>3. QED
    BY <1>1, <1>2, WaitInit, PTL DEF Spec

-----------------------------------------------------------------------------
(* The cache implements NextHopQueue.                                      *)

(* What the refinement mapping of NHQ makes of the state                   *)
Line == [a \in IPs |-> IF stage = "flush" /\ key = a
                       THEN pending \o reqs[a].packets ELSE reqs[a].packets]
Status == [p \in Packets |-> StatusOf(p)]
Route == [p \in Packets |-> IF gw[Dst[p]] = NoGw THEN Dst[p] ELSE gw[Dst[p]]]
HopOf == [p \in Packets |->
            IF p = cur /\ stage \in {"hit", "miss", "reload"} THEN key ELSE NoIp]

(* While a line is flushed nobody joins it: its request is off the list,   *)
(* and the main thread, which alone queues packets, is busy.               *)
FlushingAlone ==
    stage = "flush" => key \in IPs /\ ~ reqs[key].listed /\ reqs[key].packets = <<>>

RefineInv == WaitInv /\ FlushingAlone

LEMMA FlushingAloneNext ==
    ASSUME PlaceInv, FlushingAlone, [Next]_vars
    PROVE  FlushingAlone'
  <1> USE DEF mainVars
  <1>0. TypeOK /\ TypeInv
    BY DEF PlaceInv, TypeInv
  <1>1. CASE sr_arpcache_timeout
    <2>1. \A a \in IPs : ~ reqs[a].listed => reqs'[a] = reqs[a]
      BY <1>1 DEF sr_arpcache_timeout, sr_arpcache_sweepreqs, GivenUp, Resent
    <2>2. QED
      BY <1>1, <2>1 DEF sr_arpcache_timeout, FlushingAlone
  <1>2. ASSUME NEW a \in IPs, NEW m \in Macs, NEW r \in BOOLEAN, HandleArp(a, m, r)
        PROVE  FlushingAlone'
    <2>1. reqs'[a] = NoReq
      BY <1>0, <1>2 DEF HandleArp, sr_arpcache_insert, TypeOK
    <2>2. QED
      BY <1>2, <2>1 DEF HandleArp, AfterFlush, FlushingAlone, NoReq
  <1>3. CASE \/ SendNow \/ AskNow \/ FlushDone \/ SendArpRep \/ TestGw
             \/ \E a \in IPs : Queue(a) \/ LookupHit(a) \/ LookupMiss(a)
    <2>1. stage' # "flush"
      BY <1>3 DEF Queue, LookupHit, LookupMiss, SendNow, AskNow, Return, FlushDone,
         AfterFlush, SendArpRep, TestGw
    <2>2. QED
      BY <2>1 DEF FlushingAlone
  <1>4. ASSUME NEW p \in Packets, HandleIp(p) PROVE FlushingAlone'
    BY <1>4 DEF HandleIp, FlushingAlone
  <1>5. CASE UNCHANGED <<reqs, stage, key>>
    BY <1>5 DEF FlushingAlone
  <1>6. QED
    BY <1>1, <1>2, <1>3, <1>4, <1>5 DEF Next, MainStep, Tick, FlushOne,
       RouteLearned, RouteTakenOver, vars

LEMMA RefineInvNext == RefineInv /\ [Next]_vars => RefineInv'
  BY WaitNext, FlushingAloneNext DEF RefineInv, WaitInv

LEMMA RouteType == TypeOK => Route \in [Packets -> IPs]
  <1> SUFFICES ASSUME TypeOK PROVE Route \in [Packets -> IPs]
    OBVIOUS
  <1>1. \A p \in Packets : (IF gw[Dst[p]] = NoGw THEN Dst[p] ELSE gw[Dst[p]]) \in IPs
    BY ArpConstants DEF TypeOK, IPs
  <1>2. QED
    BY <1>1 DEF Route

LEMMA RefineInit == Init => RefineInv /\ NHQ!NHQInit
  <1> SUFFICES ASSUME Init PROVE RefineInv /\ NHQ!NHQInit
    OBVIOUS
  <1>1. RefineInv
    BY WaitInit DEF Init, RefineInv, FlushingAlone
  <1>2. Line = [a \in IPs |-> <<>>]
    BY DEF Init, Line, NoReq
  <1>3. Status = [p \in Packets |-> "out"]
    BY DEF Init, Status, StatusOf
  <1>4. HopOf = [p \in Packets |-> NoIp]
    BY DEF Init, HopOf
  <1>5. Route \in [Packets -> IPs] /\ strays = {}
    BY <1>1, RouteType DEF RefineInv, WaitInv, PlaceInv, TypeInv, Init
  <1>6. QED
    BY <1>1, <1>2, <1>3, <1>4, <1>5 DEF NHQ!NHQInit, Line, Status, HopOf, Route

(* The line of each address, and the end of a line that is flushed         *)
LEMMA LineOf ==
    ASSUME RefineInv, NEW a \in IPs
    PROVE  /\ Line[a] \in Seq(Packets)
           /\ stage = "flush" /\ key = a => Line[a] = pending
           /\ ~ (stage = "flush" /\ key = a) => Line[a] = reqs[a].packets
  <1>1. TypeOK /\ reqs[a].packets \in Seq(Packets) /\ pending \in Seq(Packets)
    BY ReqType DEF RefineInv, WaitInv, PlaceInv, TypeInv, TypeOK
  <1>2. pending \o <<>> = pending
    BY <1>1
  <1>3. QED
    BY <1>1, <1>2 DEF Line, RefineInv, FlushingAlone

LEMMA StatusIs ==
    ASSUME NEW p \in Packets
    PROVE  /\ fate[p] \in {"none", "sent", "unreachable"} => Status[p] = "out"
           /\ fate[p] = "handling" => Status[p] = "in"
           /\ fate[p] \in {"queued", "flushing"} => Status[p] = "waiting"
  BY DEF Status, StatusOf

LEMMA StatusChanges ==
    ASSUME TypeOK, NEW p \in Packets, NEW f, fate' = [fate EXCEPT ![p] = f], NEW s,
           \/ f \in {"none", "sent", "unreachable"} /\ s = "out"
           \/ f = "handling" /\ s = "in"
           \/ f \in {"queued", "flushing"} /\ s = "waiting"
    PROVE  Status' = [Status EXCEPT ![p] = s]
  <1>1. fate'[p] = f /\ \A q \in Packets : q # p => fate'[q] = fate[q]
    BY DEF TypeOK
  <1>2. Status'[p] = s
    BY <1>1 DEF Status, StatusOf
  <1>3. ASSUME NEW q \in Packets, q # p PROVE Status'[q] = Status[q]
    <2>1. fate[q] \in Fates /\ fate'[q] = fate[q]
      BY <1>1, <1>3 DEF TypeOK
    <2>2. QED
      BY <2>1 DEF Status, StatusOf, Fates
  <1>4. QED
    BY <1>2, <1>3 DEF Status

(* Steps of the main thread between two packets, of time and of the        *)
(* routing table leave the lines alone.                                    *)
LEMMA RefineStutter ==
    ASSUME RefineInv, UNCHANGED <<reqs, pending, fate>>,
           UNCHANGED <<stage, key>> \/ (stage # "flush" /\ stage' # "flush")
    PROVE  Line' = Line /\ Status' = Status
  BY DEF Line, Status, StatusOf

(* Only the handler of an IP packet has looked a next hop up.              *)
LEMMA NoHopElsewhere ==
    ASSUME stage \notin {"hit", "miss", "reload"}
    PROVE  HopOf = [p \in Packets |-> NoIp]
  BY DEF HopOf

LEMMA NoHopElsewhereNext ==
    ASSUME stage' \notin {"hit", "miss", "reload"}
    PROVE  HopOf' = [p \in Packets |-> NoIp]
  BY DEF HopOf

(* The address handed to the cache is that of the route, or 0.             *)
LEMMA AddressIs ==
    ASSUME cur \in Packets, NEW t, NEW u, NEW a, Address(t, u, a)
    PROVE  a \in {Route[cur], NoGw}
  BY DEF Address, CurGw, Route

LEMMA RefineLookUp ==
    ASSUME RefineInv, NEW a \in IPs, LookupHit(a) \/ LookupMiss(a)
    PROVE  /\ cur \in Packets /\ Status[cur] = "in" /\ HopOf[cur] = NoIp
           /\ a \in {Route[cur], NoGw}
           /\ HopOf' = [HopOf EXCEPT ![cur] = a]
           /\ UNCHANGED <<Route, Line, Status, strays>>
  <1>0. TypeInv /\ TypeOK /\ FateTells
    BY OnePlaceParts DEF RefineInv, WaitInv, PlaceInv, TypeInv
  <1>1. /\ stage \in {"lookup", "load"} /\ stage' \in {"hit", "miss"} /\ key' = a
        /\ UNCHANGED <<reqs, pending, fate, gw, cur, strays>>
        /\ Address("lookup", "load", a)
    BY DEF LookupHit, LookupMiss, Address
  <1>2. cur \in Packets
    BY <1>0, <1>1 DEF TypeInv, InHand
  <1>3. fate[cur] = "handling"
    BY <1>0, <1>1, <1>2 DEF FateTells, InHandler
  <1>4. Status[cur] = "in"
    BY <1>2, <1>3, StatusIs
  <1>5. HopOf[cur] = NoIp /\ HopOf' = [HopOf EXCEPT ![cur] = a]
    BY <1>1, <1>2 DEF HopOf
  <1>6. Line' = Line /\ Status' = Status
    BY <1>1, RefineStutter
  <1>7. a \in {Route[cur], NoGw}
    BY <1>1, <1>2, AddressIs
  <1>8. Route' = Route
    BY <1>1 DEF Route
  <1>9. QED
    BY <1>1, <1>2, <1>4, <1>5, <1>6, <1>7, <1>8

LEMMA RefineFlushDone ==
    ASSUME RefineInv, FlushDone
    PROVE  Line' = Line /\ Status' = Status
  <1>1. stage' # "flush" /\ reqs' = reqs /\ fate' = fate /\ pending = <<>> /\ stage = "flush"
    BY DEF FlushDone, AfterFlush
  <1>2. \A a \in IPs : Line[a] = reqs[a].packets
    BY <1>1, LineOf DEF RefineInv, FlushingAlone
  <1>3. \A a \in IPs : Line'[a] = reqs[a].packets
    BY <1>1 DEF Line
  <1>4. Line' = Line
    BY <1>2, <1>3 DEF Line
  <1>5. QED
    BY <1>1, <1>4 DEF Status, StatusOf

LEMMA RefineArrive ==
    ASSUME RefineInv, NEW p \in Packets, HandleIp(p)
    PROVE  /\ Status[p] = "out" /\ Status' = [Status EXCEPT ![p] = "in"]
           /\ UNCHANGED <<Line, HopOf, Route, strays>>
  <1>1. Status[p] = "out"
    BY StatusIs DEF HandleIp
  <1>2. TypeOK
    BY DEF RefineInv, WaitInv, PlaceInv, TypeInv
  <1>3. Status' = [Status EXCEPT ![p] = "in"]
    BY <1>2, StatusChanges DEF HandleIp
  <1>4. Line' = Line
    BY DEF HandleIp, Line
  <1>5. HopOf' = HopOf /\ Route' = Route /\ strays' = strays
    BY NoHopElsewhere, NoHopElsewhereNext DEF HandleIp, Route
  <1>6. QED
    BY <1>1, <1>3, <1>4, <1>5

LEMMA RefinePassThrough ==
    ASSUME RefineInv, SendNow
    PROVE  /\ cur \in Packets /\ Status[cur] = "in"
           /\ HopOf[cur] = key /\ key \in IPs /\ key # NoIp
           /\ {Line[key][k] : k \in 1 .. Len(Line[key])} \subseteq strays
           /\ Status' = [Status EXCEPT ![cur] = "out"]
           /\ HopOf' = [HopOf EXCEPT ![cur] = NoIp]
           /\ UNCHANGED <<Line, Route, strays>>
  <1>0. TypeInv /\ TypeOK /\ FateTells /\ LookedUp /\ NoOvertaking
    BY OnePlaceParts DEF RefineInv, WaitInv, PlaceInv, TypeInv
  <1>1. stage = "hit" /\ cur \in Packets /\ key \in IPs /\ fate[cur] = "handling"
    BY <1>0 DEF SendNow, TypeInv, InHand, LookedUp, FateTells, InHandler
  <1>2. Status[cur] = "in"
    BY <1>1, StatusIs
  <1>3. Line[key] = reqs[key].packets
    BY <1>1, LineOf
  <1>4. {Line[key][k] : k \in 1 .. Len(Line[key])} \subseteq strays
    BY <1>0, <1>1, <1>3 DEF NoOvertaking, QueuedUnder
  <1>5. Status' = [Status EXCEPT ![cur] = "out"]
    BY <1>0, <1>1, StatusChanges DEF SendNow
  <1>6. Line' = Line /\ Route' = Route /\ strays' = strays
    BY <1>1 DEF SendNow, Return, Line, Route
  <1>7. HopOf[cur] = key /\ HopOf' = [HopOf EXCEPT ![cur] = NoIp]
    BY <1>1 DEF SendNow, Return, HopOf
  <1>8. key # NoIp
    BY <1>1, ArpConstants
  <1>9. QED
    BY <1>1, <1>2, <1>4, <1>5, <1>6, <1>7, <1>8

LEMMA RefineJoin ==
    ASSUME RefineInv, NEW n \in IPs, Queue(n)
    PROVE  /\ cur \in Packets /\ Status[cur] = "in"
           /\ HopOf[cur] = key /\ key # NoIp
           /\ n \in {Route[cur], NoGw}
           /\ Status' = [Status EXCEPT ![cur] = "waiting"]
           /\ Line' = [Line EXCEPT ![n] = Append(@, cur)]
           /\ strays' = IF n = key THEN strays ELSE strays \cup {cur}
           /\ HopOf' = [HopOf EXCEPT ![cur] = NoIp]
           /\ Route' = Route
  <1>0. TypeInv /\ TypeOK /\ FateTells /\ LookedUp
    BY OnePlaceParts DEF RefineInv, WaitInv, PlaceInv, TypeInv
  <1>1. /\ stage \in {"miss", "reload"} /\ cur \in Packets /\ fate[cur] = "handling"
        /\ key \in IPs /\ Address("miss", "reload", n)
    BY <1>0 DEF Queue, Address, TypeInv, InHand, FateTells, InHandler, LookedUp
  <1>2. n \in {Route[cur], NoGw}
    BY <1>1, AddressIs
  <1>3. Status[cur] = "in"
    BY <1>1, StatusIs
  <1>4. Status' = [Status EXCEPT ![cur] = "waiting"]
    BY <1>0, <1>1, StatusChanges DEF Queue
  <1>5. Line' = [Line EXCEPT ![n] = Append(@, cur)]
    <2>1. reqs \in [IPs -> Request]
      BY <1>0 DEF TypeOK, Request
    <2>2. /\ reqs'[n].packets = Append(reqs[n].packets, cur)
          /\ \A a \in IPs : a # n => reqs'[a] = reqs[a]
      BY <2>1 DEF Queue, sr_arpcache_queuereq, Request
    <2>3. \A a \in IPs : Line[a] = reqs[a].packets /\ Line'[a] = reqs'[a].packets
      BY <1>1 DEF Queue, Line
    <2>4. QED
      BY <2>2, <2>3 DEF Line
  <1>6. HopOf[cur] = key /\ HopOf' = [HopOf EXCEPT ![cur] = NoIp] /\ Route' = Route
    BY <1>1 DEF Queue, HopOf, Route
  <1>7. key # NoIp
    BY <1>1, ArpConstants
  <1>8. QED
    BY <1>1, <1>2, <1>3, <1>4, <1>5, <1>6, <1>7 DEF Queue

LEMMA RefineLeave ==
    ASSUME RefineInv, FlushOne
    PROVE  /\ key \in IPs /\ Line[key] # <<>>
           /\ Line' = [Line EXCEPT ![key] = Tail(@)]
           /\ Status' = [Status EXCEPT ![Head(Line[key])] = "out"]
           /\ strays' = strays \ {Head(Line[key])}
           /\ UNCHANGED <<HopOf, Route>>
  <1>0. TypeOK /\ FlushingAlone
    BY DEF RefineInv, WaitInv, PlaceInv, TypeInv
  <1>1. /\ stage = "flush" /\ key \in IPs /\ reqs[key].packets = <<>> /\ pending # <<>>
        /\ pending \in Seq(Packets) /\ Head(pending) \in Packets /\ Tail(pending) \in Seq(Packets)
    BY <1>0 DEF FlushOne, FlushingAlone, TypeOK
  <1>2. Line[key] = pending
    BY <1>1, LineOf
  <1>3. Line' = [Line EXCEPT ![key] = Tail(@)]
    <2>1. Tail(pending) \o <<>> = Tail(pending)
      BY <1>1
    <2>2. Line'[key] = Tail(pending)
      BY <1>1, <2>1 DEF FlushOne, Line
    <2>3. \A a \in IPs : a # key => Line'[a] = Line[a]
      BY DEF FlushOne, Line
    <2>4. QED
      BY <1>1, <1>2, <2>2, <2>3 DEF Line
  <1>4. Status' = [Status EXCEPT ![Head(pending)] = "out"]
    BY <1>0, <1>1, StatusChanges DEF FlushOne
  <1>5. strays' = strays \ {Head(pending)} /\ HopOf' = HopOf /\ Route' = Route
    BY DEF FlushOne, HopOf, Route
  <1>6. QED
    BY <1>1, <1>2, <1>3, <1>4, <1>5

LEMMA RefineHandleArp ==
    ASSUME RefineInv, NEW a \in IPs, NEW m \in Macs, NEW r \in BOOLEAN, HandleArp(a, m, r)
    PROVE  Line' = Line /\ Status' = Status
  <1>0. TypeOK /\ FateTells /\ UnlistedEmpty
    BY OnePlaceParts DEF RefineInv, WaitInv, PlaceInv, TypeInv
  <1>1. /\ stage = "idle" /\ reqs'[a].packets = <<>>
        /\ reqs[a].packets \in Seq(Packets)
        /\ \A b \in IPs : b # a => reqs'[b] = reqs[b]
    BY <1>0, ReqType DEF HandleArp, sr_arpcache_insert, NoReq, TypeOK
  <1>2. reqs[a].packets \o <<>> = reqs[a].packets
    BY <1>1
  <1>3. CASE reqs[a].listed
    <2>1. stage' = "flush" /\ key' = a /\ pending' = reqs[a].packets
      BY <1>3 DEF HandleArp
    <2>2. \A b \in IPs : Line'[b] = reqs[b].packets
      BY <1>1, <1>2, <2>1 DEF Line
    <2>3. \A b \in IPs : Line[b] = reqs[b].packets
      BY <1>1 DEF Line
    <2>4. \A p \in Packets : p \in QueuedUnder(a) => fate[p] = "queued"
      BY <1>0 DEF FateTells, OnRequest
    <2>5. \A p \in Packets : StatusOf(p)' = StatusOf(p)
      BY <1>3, <2>4 DEF HandleArp, StatusOf
    <2>6. QED
      BY <2>2, <2>3, <2>5 DEF Line, Status
  <1>4. CASE ~ reqs[a].listed
    <2>1. stage' # "flush" /\ fate' = fate /\ reqs[a].packets = <<>>
      BY <1>0, <1>4 DEF HandleArp, AfterFlush, UnlistedEmpty
    <2>2. \A b \in IPs : Line'[b] = reqs[b].packets /\ Line[b] = reqs[b].packets
      BY <1>1, <2>1 DEF Line
    <2>3. QED
      BY <2>1, <2>2 DEF Line, Status, StatusOf
  <1>5. QED
    BY <1>3, <1>4

(* The sweeper refuses the lines of the requests it gives up.              *)
LEMMA RefineRefuse ==
    ASSUME RefineInv, sr_arpcache_timeout
    PROVE  \E A \in SUBSET IPs :
             /\ Line' = [a \in IPs |-> IF a \in A THEN <<>> ELSE Line[a]]
             /\ Status' = [p \in Packets |->
                             IF \E a \in A : p \in {Line[a][k] : k \in 1 .. Len(Line[a])}
                             THEN "out" ELSE Status[p]]
             /\ strays' = {p \in strays :
                              ~ \E a \in A : p \in {Line[a][k] : k \in 1 .. Len(Line[a])}}
  <1> USE DEF mainVars
  <1> DEFINE A == {a \in IPs : GivenUp(a)}
  <1>0. TypeOK /\ FlushingAlone
    BY DEF RefineInv, WaitInv, PlaceInv, TypeInv
  <1>1. UNCHANGED <<stage, key, pending>>
    BY DEF sr_arpcache_timeout
  <1>2. \A a \in A : ~ (stage = "flush" /\ key = a) /\ reqs[a].packets = Line[a]
    BY <1>0, LineOf DEF GivenUp, FlushingAlone
  <1>3. \A a \in IPs : /\ a \in A => reqs'[a].packets = <<>>
                       /\ a \notin A => reqs'[a].packets = reqs[a].packets
    <2>1. \A a \in IPs : reqs[a] \in Request
      BY <1>0, ReqType
    <2>2. QED
      BY <2>1 DEF sr_arpcache_timeout, sr_arpcache_sweepreqs, NoReq, Request
  <1>4. \A a \in IPs : Line'[a] = IF a \in A THEN <<>> ELSE Line[a]
    BY <1>1, <1>2, <1>3 DEF Line
  <1>5. Line' = [a \in IPs |-> IF a \in A THEN <<>> ELSE Line[a]]
    BY <1>4 DEF Line
  <1>6. \A p : Refused(p) <=> \E a \in A : p \in {Line[a][k] : k \in 1 .. Len(Line[a])}
    BY <1>2 DEF Refused, QueuedUnder
  <1>7. \A p \in Packets : Status'[p] = IF Refused(p) THEN "out" ELSE Status[p]
    <2> SUFFICES ASSUME NEW p \in Packets
                 PROVE  Status'[p] = IF Refused(p) THEN "out" ELSE Status[p]
      OBVIOUS
    <2>1. fate[p] \in Fates /\ fate'[p] = IF Refused(p) THEN "unreachable" ELSE fate[p]
      BY <1>0 DEF sr_arpcache_timeout, sr_arpcache_sweepreqs, TypeOK
    <2>2. QED
      BY <2>1 DEF Status, StatusOf, Fates
  <1>8. Status' = [p \in Packets |-> IF Refused(p) THEN "out" ELSE Status[p]]
    BY <1>7 DEF Status
  <1>9. strays' = {p \in strays : ~ Refused(p)}
    BY DEF sr_arpcache_timeout, sr_arpcache_sweepreqs
  <1>10. A \in SUBSET IPs
    OBVIOUS
  <1> HIDE DEF A
  <1>11. Status' = [p \in Packets |->
                      IF \E a \in A : p \in {Line[a][k] : k \in 1 .. Len(Line[a])}
                      THEN "out" ELSE Status[p]]
    BY <1>6, <1>8
  <1>12. strays' = {p \in strays :
                      ~ \E a \in A : p \in {Line[a][k] : k \in 1 .. Len(Line[a])}}
    BY <1>6, <1>9
  <1>13. QED
    BY <1>5, <1>10, <1>11, <1>12

(* Every step of the cache and of its users is a step of the lines.        *)
LEMMA RefineNext ==
    ASSUME RefineInv, [Next]_vars
    PROVE  [NHQ!NHQNext]_(NHQ!nhqVars)
  <1> USE DEF mainVars
  <1>1. CASE UNCHANGED <<Route, HopOf, Line, Status, strays>>
    BY <1>1 DEF NHQ!nhqVars, Line, Status, HopOf, Route
  <1>2. ASSUME NEW p \in Packets, HandleIp(p) PROVE NHQ!NHQNext
    <2>1. NHQ!Arrive(p)
      BY <1>2, RefineArrive DEF NHQ!Arrive, Line, Status, HopOf, Route
    <2>2. QED
      BY <2>1 DEF NHQ!NHQNext
  <1>3. CASE SendNow
    <2> PICK p \in Packets : p = cur
      BY <1>3, RefinePassThrough
    <2>0. {Line[HopOf[p]][k] : k \in 1 .. Len(Line[HopOf[p]])} \subseteq strays
      BY <1>3, RefinePassThrough
    <2>1. NHQ!PassThrough(p)
      BY <1>3, <2>0, RefinePassThrough DEF NHQ!PassThrough, NHQ!Waiting, Line, Status, HopOf, Route
    <2>2. NHQ!NHQNext
      BY <2>1 DEF NHQ!NHQNext
    <2>3. QED
      BY <2>2
  <1>4. ASSUME NEW a \in IPs, Queue(a) PROVE NHQ!NHQNext
    <2> PICK p \in Packets : p = cur
      BY <1>4, RefineJoin
    <2>1. NHQ!JoinLine(p, a)
      BY <1>4, RefineJoin DEF NHQ!JoinLine, Line, Status, HopOf, Route
    <2>2. QED
      BY <2>1 DEF NHQ!NHQNext
  <1>5. CASE FlushOne
    <2> PICK a \in IPs : a = key
      BY <1>5, RefineLeave
    <2>1. NHQ!LeaveInTurn(a)
      BY <1>5, RefineLeave DEF NHQ!LeaveInTurn, Line, Status, HopOf, Route
    <2>2. NHQ!NHQNext
      BY <2>1 DEF NHQ!NHQNext
    <2>3. QED
      BY <2>2
  <1>6. CASE sr_arpcache_timeout
    <2>1. HopOf' = HopOf /\ Route' = Route
      BY <1>6 DEF sr_arpcache_timeout, HopOf, Route
    <2>2. \E A \in SUBSET IPs : NHQ!Refuse(A)
      BY <1>6, <2>1, RefineRefuse DEF NHQ!Refuse, NHQ!Waiting, Line, Status, HopOf, Route
    <2>3. NHQ!NHQNext
      BY <2>2 DEF NHQ!NHQNext
    <2>4. QED
      BY <2>3
  <1>7. ASSUME NEW a \in IPs, LookupHit(a) \/ LookupMiss(a) PROVE NHQ!NHQNext
    <2> PICK p \in Packets : p = cur
      BY <1>7, RefineLookUp
    <2>1. NHQ!LookUp(p, a)
      BY <1>7, RefineLookUp DEF NHQ!LookUp, Line, Status, HopOf, Route
    <2>2. QED
      BY <2>1 DEF NHQ!NHQNext
  <1>8. ASSUME NEW a \in IPs, NEW m \in Macs, NEW r \in BOOLEAN, HandleArp(a, m, r)
        PROVE  UNCHANGED <<Route, HopOf, Line, Status, strays>>
    <2>1. Line' = Line /\ Status' = Status
      BY <1>8, RefineHandleArp
    <2>2. /\ stage \notin {"hit", "miss", "reload"} /\ stage' \notin {"hit", "miss", "reload"}
          /\ gw' = gw /\ strays' = strays
      BY <1>8 DEF HandleArp, AfterFlush
    <2>3. QED
      BY <2>1, <2>2, NoHopElsewhere, NoHopElsewhereNext DEF Route
  <1>9. CASE FlushDone \/ AskNow \/ SendArpRep
    <2>1. Line' = Line /\ Status' = Status
      BY <1>9, RefineFlushDone, RefineStutter DEF AskNow, Return, SendArpRep
    <2>2. /\ stage \notin {"hit", "miss", "reload"} /\ stage' \notin {"hit", "miss", "reload"}
          /\ gw' = gw /\ strays' = strays
      BY <1>9 DEF FlushDone, AfterFlush, AskNow, Return, SendArpRep
    <2>3. QED
      BY <1>1, <2>1, <2>2, NoHopElsewhere, NoHopElsewhereNext DEF Route
  <1>10. CASE Tick \/ TestGw \/ UNCHANGED vars
    <2>1. /\ UNCHANGED <<reqs, pending, fate, gw, cur, key, strays>>
          /\ UNCHANGED stage \/ (stage # "flush" /\ stage' # "flush")
      BY <1>10 DEF Tick, TestGw, vars
    <2>2. stage' \in {"hit", "miss", "reload"} <=> stage \in {"hit", "miss", "reload"}
      BY <1>10 DEF Tick, TestGw, vars
    <2>3. Line' = Line /\ Status' = Status
      BY <2>1, RefineStutter
    <2>4. HopOf' = HopOf /\ Route' = Route
      BY <2>1, <2>2 DEF HopOf, Route
    <2>5. QED
      BY <1>1, <2>1, <2>3, <2>4
  <1>11. ASSUME NEW d \in Hosts, \/ \E g \in Gateways : RouteLearned(d, g)
                                 \/ RouteTakenOver(d)
         PROVE  NHQ!NHQNext
    <2>1. UNCHANGED <<reqs, pending, fate, cur, key, stage, strays>>
      BY <1>11 DEF RouteLearned, RouteTakenOver
    <2>2. Line' = Line /\ Status' = Status /\ HopOf' = HopOf
      BY <2>1, RefineStutter DEF HopOf
    <2>3. TypeOK'
      BY ArpTypeNext DEF RefineInv, WaitInv, PlaceInv, TypeInv
    <2>4. (Route \in [Packets -> IPs])'
      BY <2>3, RouteType, PTL
    <2>5. NHQ!Reroute
      BY <2>1, <2>2, <2>4 DEF NHQ!Reroute, Line, Status, HopOf, Route
    <2>6. QED
      BY <2>5 DEF NHQ!NHQNext
  <1>12. QED
    BY <1>1, <1>2, <1>3, <1>4, <1>5, <1>6, <1>7, <1>8, <1>9, <1>10, <1>11 DEF Next, MainStep

(* The cache, its sweeper and the two handlers keep one first-in first-out *)
(* line per next hop, whatever the RIP thread does to the routes: a packet *)
(* goes out at once only when nobody but strays waits for the next hop it  *)
(* looked up, packets leave a line in the order they came, all of a line   *)
(* that is given up are refused together, and none is lost or sent twice.  *)
THEOREM ArpImplementsNextHopQueue == Spec => ImplementsNextHopQueue
  <1>1. RefineInv /\ [Next]_vars => RefineInv'
    BY RefineInvNext
  <1>2. RefineInv /\ [Next]_vars => [NHQ!NHQNext]_(NHQ!nhqVars)
    BY RefineNext
  <1>3. QED
    BY <1>1, <1>2, RefineInit, PTL DEF Spec, ImplementsNextHopQueue, NHQ!NHQSpec
=============================================================================
