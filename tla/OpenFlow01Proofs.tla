----------------------------- MODULE OpenFlow01Proofs -----------------------
(***************************************************************************)
(* Proofs about module OpenFlow01: its types, and for any switches, ports  *)
(* and number of connections that the listeners hear of a connection in    *)
(* order, that the nexus is accurate, and that no change of a port is lost *)
(* or overtaken.                                                           *)
(*                                                                         *)
(* First come the laws of After, the ports as told by messages, and of     *)
(* what is left once the messages that were kept have been handled one by  *)
(* one (a fold); then the inductive invariant OfInv.                       *)
(***************************************************************************)
EXTENDS OpenFlow01, TLAPS, WellFoundedInduction

-----------------------------------------------------------------------------
(* Induction, and the greatest of a set of positions                       *)

LEMMA SetInduction ==
    ASSUME NEW T \in SUBSET Nat, 0 \in T, \A n \in T : n + 1 \in T
    PROVE  T = Nat
  <1>1. SUFFICES ASSUME Nat \ T # {} PROVE FALSE
    OBVIOUS
  <1>2. PICK m \in Nat \ T : \A y \in Nat \ T : ~ (<<y, m>> \in OpToRel(<, Nat))
    BY <1>1, WFMin, NatLessThanWellFounded
  <1>3. m # 0
    OBVIOUS
  <1>4. m - 1 \in Nat /\ m - 1 < m
    BY <1>3
  <1>5. m - 1 \in T
    BY <1>2, <1>4 DEF OpToRel
  <1>6. (m - 1) + 1 \in T
    BY <1>5
  <1> QED
    BY <1>6

LEMMA MaxIn ==
    ASSUME NEW n \in Nat, NEW K \in SUBSET (1 .. n), K # {}
    PROVE  Max(K) \in K /\ \A k \in K : k <= Max(K)
  <1> DEFINE T == {i \in Nat : \A S \in SUBSET (1 .. i) : S # {} => \E x \in S : \A y \in S : x >= y}
  <1>1. 0 \in T
    <2>1. 1 .. 0 = {}
      OBVIOUS
    <2> QED
      BY <2>1
  <1>2. ASSUME NEW i \in T PROVE i + 1 \in T
    <2>1. ASSUME NEW S \in SUBSET (1 .. i + 1), S # {}
          PROVE  \E x \in S : \A y \in S : x >= y
      <3>1. CASE i + 1 \in S
        BY <3>1
      <3>2. CASE i + 1 \notin S
        <4>1. S \in SUBSET (1 .. i)
          BY <3>2
        <4> QED
          BY <4>1, <2>1
      <3> QED
        BY <3>1, <3>2
    <2> QED
      BY <2>1
  <1>3. T = Nat
    <2> HIDE DEF T
    <2>1. T \in SUBSET Nat
      BY DEF T
    <2> QED
      BY <1>1, <1>2, <2>1, SetInduction
  <1>4. \E x \in K : \A y \in K : x >= y
    BY <1>3
  <1>5. Max(K) = CHOOSE x \in K : \A y \in K : x >= y
    BY DEF Max
  <1>6. Max(K) \in K /\ \A y \in K : Max(K) >= y
    BY <1>4, <1>5
  <1> QED
    BY <1>6

-----------------------------------------------------------------------------
(* The ports as told by the messages from position k + 1 on                *)

About(q, p, k) == {i \in DOMAIN q : i > k /\ q[i].type = "PORT_STATUS" /\ q[i].port = p}

AfterFrom(v, q, k) ==
    [p \in PortNos |-> IF About(q, p, k) = {} THEN v[p] ELSE q[Max(About(q, p, k))].state]

(* x is what is known of port p in the end.                                *)
Told(v, q, k, p, x) ==
    \/ (About(q, p, k) = {} /\ x = v[p])
    \/ \E i \in About(q, p, k) : (\A j \in About(q, p, k) : j <= i) /\ x = q[i].state

LEMMA AfterFromTold ==
    ASSUME NEW q \in Seq(ToController), NEW k \in Nat, NEW v \in Ports, NEW p \in PortNos
    PROVE  Told(v, q, k, p, AfterFrom(v, q, k)[p])
  <1>1. About(q, p, k) \in SUBSET (1 .. Len(q)) /\ Len(q) \in Nat
    BY DEF About
  <1>2. CASE About(q, p, k) = {}
    BY <1>2 DEF AfterFrom, Told
  <1>3. CASE About(q, p, k) # {}
    <2>1. Max(About(q, p, k)) \in About(q, p, k) /\ \A i \in About(q, p, k) : i <= Max(About(q, p, k))
      BY <1>1, <1>3, MaxIn
    <2>2. AfterFrom(v, q, k)[p] = q[Max(About(q, p, k))].state
      BY <1>3 DEF AfterFrom
    <2> QED
      BY <2>1, <2>2 DEF Told
  <1> QED
    BY <1>2, <1>3

LEMMA ToldOnce ==
    ASSUME NEW q, NEW k, NEW v, NEW p, NEW x, NEW y, About(q, p, k) \in SUBSET Nat,
           Told(v, q, k, p, x), Told(v, q, k, p, y)
    PROVE  x = y
  <1>1. CASE About(q, p, k) = {}
    BY <1>1 DEF Told
  <1>2. CASE About(q, p, k) # {}
    <2>1. PICK i \in About(q, p, k) : (\A j \in About(q, p, k) : j <= i) /\ x = q[i].state
      BY <1>2 DEF Told
    <2>2. PICK l \in About(q, p, k) : (\A j \in About(q, p, k) : j <= l) /\ y = q[l].state
      BY <1>2 DEF Told
    <2>3. i <= l /\ l <= i /\ i \in Nat /\ l \in Nat
      BY <2>1, <2>2
    <2>4. i = l
      BY <2>3
    <2> QED
      BY <2>1, <2>2, <2>4
  <1> QED
    BY <1>1, <1>2

LEMMA StatusMessage ==
    ASSUME NEW m \in ToController, m.type = "PORT_STATUS"
    PROVE  m \in Status /\ m.port \in PortNos /\ m.state \in PortState
  BY DEF ToController, Status, Msg

LEMMA FeaturesMessage ==
    ASSUME NEW m \in ToController, m.type = "FEATURES_REPLY"
    PROVE  m.dpid \in Switches /\ m.ports \in Ports
  BY DEF ToController, Status, Msg

LEMMA AfterFromType ==
    ASSUME NEW q \in Seq(ToController), NEW k \in Nat, NEW v \in Ports
    PROVE  AfterFrom(v, q, k) \in Ports
  <1>1. ASSUME NEW p \in PortNos PROVE AfterFrom(v, q, k)[p] \in PortState
    <2>1. Told(v, q, k, p, AfterFrom(v, q, k)[p])
      BY AfterFromTold
    <2>2. CASE AfterFrom(v, q, k)[p] = v[p]
      BY <2>2 DEF Ports
    <2>3. ASSUME NEW i \in About(q, p, k), AfterFrom(v, q, k)[p] = q[i].state
          PROVE  AfterFrom(v, q, k)[p] \in PortState
      <3>1. q[i] \in ToController /\ q[i].type = "PORT_STATUS"
        BY DEF About
      <3>2. q[i].state \in PortState
        BY <3>1, StatusMessage
      <3> QED
        BY <3>2, <2>3
    <2> QED
      BY <2>1, <2>2, <2>3 DEF Told
  <1>2. AfterFrom(v, q, k) = [p \in PortNos |-> AfterFrom(v, q, k)[p]]
    BY DEF AfterFrom
  <1> QED
    BY <1>1, <1>2 DEF Ports

LEMMA AfterIsFrom0 ==
    ASSUME NEW S, NEW q \in Seq(S), NEW v PROVE After(v, q) = AfterFrom(v, q, 0)
  <1>1. ASSUME NEW p \in PortNos
        PROVE {k \in DOMAIN q : /\ q[k].type = "PORT_STATUS"
                                /\ q[k].port = p} = About(q, p, 0)
    BY DEF About
  <1> QED
    BY <1>1 DEF After, AfterFrom

LEMMA AfterFromEnd ==
    ASSUME NEW q \in Seq(ToController), NEW v \in Ports
    PROVE  AfterFrom(v, q, Len(q)) = v
  <1>1. ASSUME NEW p \in PortNos PROVE About(q, p, Len(q)) = {}
    BY DEF About
  <1> QED
    BY <1>1 DEF AfterFrom, Ports

LEMMA AboutAppend ==
    ASSUME NEW q \in Seq(ToController), NEW m \in ToController, NEW k \in Nat, k <= Len(q), NEW p
    PROVE  About(Append(q, m), p, k) =
             IF m.type = "PORT_STATUS" /\ m.port = p THEN About(q, p, k) \cup {Len(q) + 1}
             ELSE About(q, p, k)
  <1>1. /\ DOMAIN Append(q, m) = 1 .. Len(q) + 1 /\ DOMAIN q = 1 .. Len(q) /\ Len(q) \in Nat
        /\ \A i \in 1 .. Len(q) : Append(q, m)[i] = q[i]
        /\ Append(q, m)[Len(q) + 1] = m
    OBVIOUS
  <1> QED
    BY <1>1 DEF About

LEMMA AfterAppendStatus ==
    ASSUME NEW q \in Seq(ToController), NEW m \in ToController, NEW k \in Nat, k <= Len(q),
           NEW v \in Ports, m.type = "PORT_STATUS"
    PROVE  AfterFrom(v, Append(q, m), k) = [AfterFrom(v, q, k) EXCEPT ![m.port] = m.state]
  <1>0. /\ DOMAIN Append(q, m) = 1 .. Len(q) + 1 /\ DOMAIN q = 1 .. Len(q) /\ Len(q) \in Nat
        /\ \A i \in 1 .. Len(q) : Append(q, m)[i] = q[i]
        /\ Append(q, m)[Len(q) + 1] = m
        /\ Append(q, m) \in Seq(ToController)
    OBVIOUS
  <1>1. ASSUME NEW p \in PortNos
        PROVE  AfterFrom(v, Append(q, m), k)[p] = IF p = m.port THEN m.state ELSE AfterFrom(v, q, k)[p]
    <2>1. Told(v, Append(q, m), k, p, AfterFrom(v, Append(q, m), k)[p])
      BY <1>0, AfterFromTold
    <2>2. About(Append(q, m), p, k) \in SUBSET Nat
      BY <1>0 DEF About
    <2>3. CASE p = m.port
      <3>1. About(Append(q, m), p, k) = About(q, p, k) \cup {Len(q) + 1}
        BY <2>3, AboutAppend
      <3>2. \A j \in About(Append(q, m), p, k) : j <= Len(q) + 1
        BY <1>0 DEF About
      <3>3. Told(v, Append(q, m), k, p, m.state)
        BY <1>0, <3>1, <3>2 DEF Told
      <3> QED
        BY <2>1, <2>2, <2>3, <3>3, ToldOnce
    <2>4. CASE p # m.port
      <3>1. About(Append(q, m), p, k) = About(q, p, k)
        BY <2>4, AboutAppend
      <3>2. Told(v, q, k, p, AfterFrom(v, q, k)[p])
        BY AfterFromTold
      <3>3. \A i \in About(q, p, k) : i \in 1 .. Len(q)
        BY <1>0 DEF About
      <3>4. Told(v, Append(q, m), k, p, AfterFrom(v, q, k)[p])
        BY <1>0, <3>1, <3>2, <3>3 DEF Told
      <3> QED
        BY <2>1, <2>2, <2>4, <3>4, ToldOnce
    <2> QED
      BY <2>3, <2>4
  <1>2. m.port \in PortNos
    BY StatusMessage
  <1> QED
    BY <1>1, <1>2 DEF AfterFrom

LEMMA AfterAppendOther ==
    ASSUME NEW q \in Seq(ToController), NEW m \in ToController, NEW k \in Nat, k <= Len(q),
           NEW v \in Ports, m.type # "PORT_STATUS"
    PROVE  AfterFrom(v, Append(q, m), k) = AfterFrom(v, q, k)
  <1>0. /\ DOMAIN Append(q, m) = 1 .. Len(q) + 1 /\ DOMAIN q = 1 .. Len(q) /\ Len(q) \in Nat
        /\ \A i \in 1 .. Len(q) : Append(q, m)[i] = q[i]
        /\ Append(q, m) \in Seq(ToController)
    OBVIOUS
  <1>1. ASSUME NEW p \in PortNos
        PROVE  AfterFrom(v, Append(q, m), k)[p] = AfterFrom(v, q, k)[p]
    <2>1. Told(v, Append(q, m), k, p, AfterFrom(v, Append(q, m), k)[p])
      BY <1>0, AfterFromTold
    <2>2. About(Append(q, m), p, k) \in SUBSET Nat
      BY <1>0 DEF About
    <2>3. About(Append(q, m), p, k) = About(q, p, k)
      BY AboutAppend
    <2>4. Told(v, q, k, p, AfterFrom(v, q, k)[p])
      BY AfterFromTold
    <2>5. \A i \in About(q, p, k) : i \in 1 .. Len(q)
      BY <1>0 DEF About
    <2>6. Told(v, Append(q, m), k, p, AfterFrom(v, q, k)[p])
      BY <1>0, <2>3, <2>4, <2>5 DEF Told
    <2> QED
      BY <2>1, <2>2, <2>6, ToldOnce
  <1> QED
    BY <1>1 DEF AfterFrom

LEMMA TailFacts ==
    ASSUME NEW S, NEW q \in Seq(S), q # <<>>
    PROVE  /\ Tail(q) \in Seq(S) /\ Head(q) \in S /\ Head(q) = q[1] /\ Len(q) \in Nat /\ Len(q) >= 1
           /\ DOMAIN q = 1 .. Len(q) /\ DOMAIN Tail(q) = 1 .. (Len(q) - 1)
           /\ \A i \in 1 .. (Len(q) - 1) : Tail(q)[i] = q[i + 1]
           /\ Len(Tail(q)) = Len(q) - 1
  OBVIOUS

LEMMA AboutTail ==
    ASSUME NEW q \in Seq(ToController), q # <<>>, NEW k \in Nat, NEW p
    PROVE  /\ \A i \in About(Tail(q), p, k) : i + 1 \in About(q, p, k + 1) /\ q[i + 1] = Tail(q)[i]
           /\ \A i \in About(q, p, k + 1) : i - 1 \in About(Tail(q), p, k) /\ i - 1 \in Nat
  BY TailFacts DEF About

(* Reading a message moves the positions of the others by one.             *)
LEMMA AfterTail ==
    ASSUME NEW q \in Seq(ToController), q # <<>>, NEW k \in Nat, NEW v \in Ports
    PROVE  AfterFrom(v, Tail(q), k) = AfterFrom(v, q, k + 1)
  <1>1. ASSUME NEW p \in PortNos
        PROVE  AfterFrom(v, Tail(q), k)[p] = AfterFrom(v, q, k + 1)[p]
    <2>1. Told(v, q, k + 1, p, AfterFrom(v, q, k + 1)[p])
      BY AfterFromTold
    <2>2. Told(v, Tail(q), k, p, AfterFrom(v, Tail(q), k)[p])
      BY AfterFromTold, TailFacts
    <2>3. About(q, p, k + 1) \in SUBSET Nat /\ About(Tail(q), p, k) \in SUBSET Nat
      BY TailFacts DEF About
    <2>4. CASE About(Tail(q), p, k) = {}
      <3>1. About(q, p, k + 1) = {}
        BY <2>4, AboutTail
      <3> QED
        BY <2>1, <2>2, <2>4, <3>1 DEF Told
    <2>5. ASSUME NEW i \in About(Tail(q), p, k), \A j \in About(Tail(q), p, k) : j <= i,
                 AfterFrom(v, Tail(q), k)[p] = Tail(q)[i].state
          PROVE  Told(v, q, k + 1, p, AfterFrom(v, Tail(q), k)[p])
      <3>1. i + 1 \in About(q, p, k + 1) /\ q[i + 1] = Tail(q)[i]
        BY AboutTail
      <3>2. ASSUME NEW j \in About(q, p, k + 1) PROVE j <= i + 1
        <4>1. j - 1 <= i /\ j \in Nat /\ i \in Nat
          BY <2>3, <2>5, AboutTail
        <4> QED
          BY <4>1
      <3> QED
        BY <2>5, <3>1, <3>2 DEF Told
    <2>6. CASE About(Tail(q), p, k) # {}
      <3>1. Told(v, q, k + 1, p, AfterFrom(v, Tail(q), k)[p])
        BY <2>2, <2>5, <2>6 DEF Told
      <3> QED
        BY <2>1, <2>3, <3>1, ToldOnce
    <2> QED
      BY <2>4, <2>6
  <1> QED
    BY <1>1 DEF AfterFrom

LEMMA AboutHead ==
    ASSUME NEW q \in Seq(ToController), q # <<>>, NEW p
    PROVE  About(q, p, 0) = IF q[1].type = "PORT_STATUS" /\ q[1].port = p
                            THEN About(q, p, 1) \cup {1} ELSE About(q, p, 1)
  BY TailFacts DEF About

(* The first message may be taken note of first.                           *)
LEMMA AfterHeadStatus ==
    ASSUME NEW q \in Seq(ToController), q # <<>>, NEW v \in Ports, q[1].type = "PORT_STATUS"
    PROVE  AfterFrom(v, q, 0) = AfterFrom([v EXCEPT ![q[1].port] = q[1].state], q, 1)
  <1> DEFINE w == [v EXCEPT ![q[1].port] = q[1].state]
  <1>0. q[1].port \in PortNos /\ q[1].state \in PortState
    BY StatusMessage, TailFacts
  <1>1. w \in Ports /\ w[q[1].port] = q[1].state /\ \A p \in PortNos : p # q[1].port => w[p] = v[p]
    BY <1>0 DEF Ports
  <1>2. ASSUME NEW p \in PortNos
        PROVE  AfterFrom(v, q, 0)[p] = AfterFrom(w, q, 1)[p]
    <2> HIDE DEF w
    <2>1. Told(v, q, 0, p, AfterFrom(v, q, 0)[p])
      BY AfterFromTold
    <2>2. Told(w, q, 1, p, AfterFrom(w, q, 1)[p])
      BY AfterFromTold, <1>1
    <2>3. About(q, p, 0) \in SUBSET Nat /\ \A i \in About(q, p, 1) : i > 1
      BY TailFacts DEF About
    <2>4. Told(v, q, 0, p, AfterFrom(w, q, 1)[p])
      <3>1. CASE About(q, p, 1) = {} /\ p = q[1].port
        BY <2>2, <3>1, <1>1, AboutHead DEF Told
      <3>2. CASE About(q, p, 1) = {} /\ p # q[1].port
        BY <2>2, <3>2, <1>1, AboutHead DEF Told
      <3>3. CASE About(q, p, 1) # {}
        <4>1. PICK i \in About(q, p, 1) : (\A j \in About(q, p, 1) : j <= i) /\ AfterFrom(w, q, 1)[p] = q[i].state
          BY <2>2, <3>3 DEF Told
        <4>2. i \in About(q, p, 0) /\ \A j \in About(q, p, 0) : j = 1 \/ j \in About(q, p, 1)
          BY AboutHead
        <4>3. ASSUME NEW j \in About(q, p, 0) PROVE j <= i
          BY <4>1, <4>2, <2>3
        <4> QED
          BY <4>1, <4>2, <4>3 DEF Told
      <3> QED
        BY <3>1, <3>2, <3>3
    <2> QED
      BY <2>1, <2>3, <2>4, ToldOnce
  <1> QED
    BY <1>2 DEF AfterFrom

LEMMA AfterHeadOther ==
    ASSUME NEW q \in Seq(ToController), q # <<>>, NEW v \in Ports, q[1].type # "PORT_STATUS"
    PROVE  AfterFrom(v, q, 0) = AfterFrom(v, q, 1)
  <1>1. ASSUME NEW p \in PortNos PROVE About(q, p, 0) = About(q, p, 1)
    BY AboutHead
  <1> QED
    BY <1>1 DEF AfterFrom

(* The same for After.                                                     *)
LEMMA ReadStatus ==
    ASSUME NEW q \in Seq(ToController), q # <<>>, NEW v \in Ports, Head(q).type = "PORT_STATUS"
    PROVE  After(v, q) = After([v EXCEPT ![Head(q).port] = Head(q).state], Tail(q))
  <1>1. Head(q) = q[1] /\ Tail(q) \in Seq(ToController) /\ Head(q) \in ToController
    BY TailFacts
  <1>2. PICK w \in Ports : w = [v EXCEPT ![q[1].port] = q[1].state]
    BY <1>1, StatusMessage DEF Ports
  <1>3. After(v, q) = AfterFrom(v, q, 0) /\ After(w, Tail(q)) = AfterFrom(w, Tail(q), 0)
    BY <1>1, AfterIsFrom0
  <1>4. AfterFrom(v, q, 0) = AfterFrom(w, q, 1)
    BY <1>1, <1>2, AfterHeadStatus
  <1>5. AfterFrom(w, Tail(q), 0) = AfterFrom(w, q, 0 + 1)
    BY AfterTail
  <1>6. 0 + 1 = 1
    OBVIOUS
  <1> QED
    BY <1>1, <1>2, <1>3, <1>4, <1>5, <1>6

LEMMA ReadOther ==
    ASSUME NEW q \in Seq(ToController), q # <<>>, NEW v \in Ports, Head(q).type # "PORT_STATUS"
    PROVE  After(v, q) = After(v, Tail(q))
  <1>1. Head(q) = q[1] /\ Tail(q) \in Seq(ToController)
    BY TailFacts
  <1>3. After(v, q) = AfterFrom(v, q, 0) /\ After(v, Tail(q)) = AfterFrom(v, Tail(q), 0)
    BY <1>1, AfterIsFrom0
  <1>4. AfterFrom(v, q, 0) = AfterFrom(v, q, 1)
    BY <1>1, AfterHeadOther
  <1>5. AfterFrom(v, Tail(q), 0) = AfterFrom(v, q, 0 + 1)
    BY AfterTail
  <1>6. 0 + 1 = 1
    OBVIOUS
  <1> QED
    BY <1>3, <1>4, <1>5, <1>6

LEMMA AfterNone ==
    ASSUME NEW v \in Ports PROVE After(v, <<>>) = v
  BY DEF After, Ports

LEMMA AfterType ==
    ASSUME NEW q \in Seq(ToController), NEW v \in Ports PROVE After(v, q) \in Ports
  BY AfterIsFrom0, AfterFromType

LEMMA AddStatus ==
    ASSUME NEW q \in Seq(ToController), NEW m \in ToController, NEW v \in Ports, m.type = "PORT_STATUS"
    PROVE  After(v, Append(q, m)) = [After(v, q) EXCEPT ![m.port] = m.state]
  <1>1. Append(q, m) \in Seq(ToController) /\ 0 <= Len(q)
    OBVIOUS
  <1>2. After(v, q) = AfterFrom(v, q, 0) /\ After(v, Append(q, m)) = AfterFrom(v, Append(q, m), 0)
    BY <1>1, AfterIsFrom0
  <1>3. AfterFrom(v, Append(q, m), 0) = [AfterFrom(v, q, 0) EXCEPT ![m.port] = m.state]
    BY <1>1, AfterAppendStatus
  <1> QED
    BY <1>2, <1>3

LEMMA AddOther ==
    ASSUME NEW q \in Seq(ToController), NEW m \in ToController, NEW v \in Ports, m.type # "PORT_STATUS"
    PROVE  After(v, Append(q, m)) = After(v, q)
  <1>1. Append(q, m) \in Seq(ToController) /\ 0 <= Len(q)
    OBVIOUS
  <1> QED
    BY <1>1, AfterIsFrom0, AfterAppendOther

-----------------------------------------------------------------------------
(* The messages that were kept, handled one by one                         *)

(* f is what handling the messages whose positions are in s, in order,     *)
(* makes of r, for every set s of the first n positions.                   *)
Handling(f, r, q, n) ==
    f = [s \in SUBSET (1 .. n) |->
           IF s = {} THEN r ELSE Tracked(f[s \ {Max(s)}], q[Max(s)])]

LEMMA HandlingExists ==
    ASSUME NEW r, NEW q, NEW n \in Nat
    PROVE  \E f : Handling(f, r, q, n)
  <1> DEFINE T == {i \in Nat : \E f : Handling(f, r, q, i)}
  <1>1. 0 \in T
    <2> DEFINE f == [s \in SUBSET (1 .. 0) |-> r]
    <2>1. \A s \in SUBSET (1 .. 0) : s = {}
      OBVIOUS
    <2>2. Handling(f, r, q, 0)
      BY <2>1 DEF Handling
    <2> QED
      BY <2>2
  <1>2. ASSUME NEW i \in T PROVE i + 1 \in T
    <2>1. PICK f : Handling(f, r, q, i)
      OBVIOUS
    <2> DEFINE g == [s \in SUBSET (1 .. i + 1) |->
                       IF i + 1 \in s THEN Tracked(f[s \ {i + 1}], q[i + 1]) ELSE f[s]]
    <2>2. ASSUME NEW s \in SUBSET (1 .. i + 1)
          PROVE  g[s] = IF s = {} THEN r ELSE Tracked(g[s \ {Max(s)}], q[Max(s)])
      <3>1. CASE i + 1 \in s
        <4>0. i + 1 \in Nat /\ s # {} /\ i \in Nat
          BY <3>1
        <4>1. Max(s) \in s /\ \A k \in s : k <= Max(s)
          BY <4>0, MaxIn
        <4>2. Max(s) = i + 1
          <5>1. Max(s) \in 1 .. i + 1 /\ i + 1 <= Max(s)
            BY <4>1, <3>1
          <5> QED
            BY <5>1, <4>0
        <4>3. s \ {i + 1} \in SUBSET (1 .. i + 1) /\ i + 1 \notin s \ {i + 1}
          OBVIOUS
        <4>4. g[s \ {i + 1}] = f[s \ {i + 1}]
          BY <4>3
        <4>5. g[s] = Tracked(f[s \ {i + 1}], q[i + 1])
          BY <3>1
        <4> QED
          BY <3>1, <4>2, <4>4, <4>5
      <3>2. CASE i + 1 \notin s /\ s # {}
        <4>1. s \in SUBSET (1 .. i)
          BY <3>2
        <4>2. Max(s) \in s
          BY <3>2, <4>1, MaxIn
        <4>3. /\ s \ {Max(s)} \in SUBSET (1 .. i) /\ s \ {Max(s)} \in SUBSET (1 .. i + 1)
              /\ i + 1 \notin s \ {Max(s)}
          BY <4>1, <3>2
        <4>4. g[s \ {Max(s)}] = f[s \ {Max(s)}] /\ g[s] = f[s]
          BY <4>3, <3>2
        <4>5. f[s] = Tracked(f[s \ {Max(s)}], q[Max(s)])
          BY <2>1, <3>2, <4>1 DEF Handling
        <4> QED
          BY <3>2, <4>4, <4>5
      <3>3. CASE s = {}
        <4>1. f[s] = r
          BY <2>1, <3>3 DEF Handling
        <4> QED
          BY <3>3, <4>1
      <3> QED
        BY <3>1, <3>2, <3>3
    <2>3. Handling(g, r, q, i + 1)
      <3>1. g = [s \in SUBSET (1 .. i + 1) |-> g[s]]
        OBVIOUS
      <3> HIDE DEF g
      <3> QED
        BY <2>2, <3>1 DEF Handling
    <2> QED
      BY <2>3
  <1>3. T = Nat
    <2> HIDE DEF T
    <2>1. T \in SUBSET Nat
      BY DEF T
    <2> QED
      BY <1>1, <1>2, <2>1, SetInduction
  <1> QED
    BY <1>3

(* The first i messages, handled.                                          *)
LEMMA HandlingStep ==
    ASSUME NEW f, NEW r, NEW q, NEW n \in Nat, Handling(f, r, q, n)
    PROVE  /\ f[1 .. 0] = r
           /\ \A i \in 1 .. n : f[1 .. i] = Tracked(f[1 .. i - 1], q[i])
  <1>1. 1 .. 0 = {} /\ 1 .. 0 \in SUBSET (1 .. n)
    OBVIOUS
  <1>2. f[1 .. 0] = r
    BY <1>1 DEF Handling
  <1>3. ASSUME NEW i \in 1 .. n PROVE f[1 .. i] = Tracked(f[1 .. i - 1], q[i])
    <2>1. 1 .. i \in SUBSET (1 .. n) /\ 1 .. i \in SUBSET (1 .. i) /\ i \in 1 .. i /\ 1 .. i # {} /\ i \in Nat
      OBVIOUS
    <2>2. Max(1 .. i) \in 1 .. i /\ i <= Max(1 .. i)
      BY <2>1, MaxIn
    <2>3. Max(1 .. i) = i
      BY <2>2
    <2>4. (1 .. i) \ {i} = 1 .. i - 1
      OBVIOUS
    <2>5. f[1 .. i] = Tracked(f[(1 .. i) \ {Max(1 .. i)}], q[Max(1 .. i)])
      BY <2>1 DEF Handling
    <2> QED
      BY <2>3, <2>4, <2>5
  <1> QED
    BY <1>2, <1>3

LEMMA FoldIsHandling ==
    ASSUME NEW r, NEW S, NEW q \in Seq(S)
    PROVE  \E f : Handling(f, r, q, Len(q)) /\ FoldLeft(Tracked, r, q) = f[1 .. Len(q)]
  <1> DEFINE f == CHOOSE g : g = [s \in SUBSET (DOMAIN q) |->
                     IF s = {} THEN r ELSE Tracked(g[s \ {Max(s)}], q[Max(s)])]
  <1>1. FoldLeft(Tracked, r, q) = f[DOMAIN q]
    BY DEF FoldLeft, MapThenFoldSet
  <1>2. DOMAIN q = 1 .. Len(q) /\ Len(q) \in Nat
    OBVIOUS
  <1>3. \E g : g = [s \in SUBSET (DOMAIN q) |->
                     IF s = {} THEN r ELSE Tracked(g[s \ {Max(s)}], q[Max(s)])]
    <2>1. PICK g : Handling(g, r, q, Len(q))
      BY <1>2, HandlingExists
    <2>2. g = [s \in SUBSET (DOMAIN q) |-> IF s = {} THEN r ELSE Tracked(g[s \ {Max(s)}], q[Max(s)])]
      BY <1>2, <2>1 DEF Handling
    <2> QED
      BY <2>2
  <1>4. f = [s \in SUBSET (DOMAIN q) |-> IF s = {} THEN r ELSE Tracked(f[s \ {Max(s)}], q[Max(s)])]
    BY <1>3
  <1> HIDE DEF f
  <1>5. Handling(f, r, q, Len(q))
    BY <1>2, <1>4 DEF Handling
  <1> QED
    BY <1>1, <1>2, <1>5

(* One port status message, taken note of.                                 *)
SameBut(r, u) ==
    /\ u.stage = r.stage /\ u.dpid = r.dpid /\ u.asked = r.asked /\ u.barrier = r.barrier
    /\ u.original = r.original /\ u.deferred = r.deferred
    /\ u.disconnected = r.disconnected /\ u.raised = r.raised /\ u.sender = r.sender

LEMMA TrackedFacts ==
    ASSUME NEW r \in Connection, NEW m \in Status
    PROVE  /\ Tracked(r, m) \in Connection /\ SameBut(r, Tracked(r, m))
           /\ View(Tracked(r, m)) = [View(r) EXCEPT ![m.port] = m.state]
  <1>1. m.port \in PortNos /\ m.state \in PortState
    BY DEF Status
  <1>2. r.delta \in Ports /\ r.masks \in SUBSET PortNos /\ r.original \in Ports
    BY DEF Connection
  <1>3. PICK w \in Ports : w = [r.delta EXCEPT ![m.port] = m.state]
    BY <1>1, <1>2 DEF Ports
  <1>4. CASE m.state = "none"
    <2>1. Tracked(r, m) = [r EXCEPT !.masks = r.masks \cup {m.port}, !.delta = w]
      BY <1>3, <1>4 DEF Tracked, forget
    <2>2. Tracked(r, m) \in Connection /\ SameBut(r, Tracked(r, m))
      <3>1. PICK s \in SUBSET PortNos : Tracked(r, m) = [r EXCEPT !.masks = s, !.delta = w]
        BY <2>1, <1>1, <1>2
      <3>2. [r EXCEPT !.masks = s, !.delta = w] \in Connection
        BY DEF Connection
      <3>3. SameBut(r, [r EXCEPT !.masks = s, !.delta = w])
        BY DEF Connection, SameBut
      <3> QED
        BY <3>1, <3>2, <3>3
    <2>3. Tracked(r, m).delta = w /\ Tracked(r, m).masks = r.masks \cup {m.port} /\ Tracked(r, m).original = r.original
      BY <2>1, <1>2 DEF Connection
    <2>4. View(Tracked(r, m)) = [View(r) EXCEPT ![m.port] = m.state]
      BY <2>3, <1>1, <1>2, <1>3, <1>4 DEF View, Ports
    <2> QED
      BY <2>2, <2>4
  <1>5. CASE m.state # "none"
    <2>1. Tracked(r, m) = [r EXCEPT !.masks = r.masks \ {m.port}, !.delta = w]
      BY <1>3, <1>5 DEF Tracked, update
    <2>2. Tracked(r, m) \in Connection /\ SameBut(r, Tracked(r, m))
      <3>1. PICK s \in SUBSET PortNos : Tracked(r, m) = [r EXCEPT !.masks = s, !.delta = w]
        BY <2>1, <1>1, <1>2
      <3>2. [r EXCEPT !.masks = s, !.delta = w] \in Connection
        BY DEF Connection
      <3>3. SameBut(r, [r EXCEPT !.masks = s, !.delta = w])
        BY DEF Connection, SameBut
      <3> QED
        BY <3>1, <3>2, <3>3
    <2>3. Tracked(r, m).delta = w /\ Tracked(r, m).masks = r.masks \ {m.port} /\ Tracked(r, m).original = r.original
      BY <2>1, <1>2 DEF Connection
    <2>4. View(Tracked(r, m)) = [View(r) EXCEPT ![m.port] = m.state]
      BY <2>3, <1>1, <1>2, <1>3, <1>5 DEF View, Ports
    <2> QED
      BY <2>2, <2>4
  <1> QED
    BY <1>4, <1>5

LEMMA ViewType ==
    ASSUME NEW r \in Connection PROVE View(r) \in Ports
  BY DEF View, Ports, Connection, PortState

LEMMA StatusSeq ==
    ASSUME NEW q \in Seq(Status) PROVE q \in Seq(ToController)
  <1>1. Status \in SUBSET ToController
    BY DEF ToController
  <1>2. Len(q) \in Nat /\ DOMAIN q = 1 .. Len(q) /\ q = [i \in 1 .. Len(q) |-> q[i]]
    OBVIOUS
  <1>3. \A i \in 1 .. Len(q) : q[i] \in ToController
    BY <1>1, <1>2
  <1> QED
    BY <1>2, <1>3

LEMMA FirstOnes ==
    ASSUME NEW S, NEW q \in Seq(S), NEW i \in Nat, i + 1 <= Len(q)
    PROVE  /\ SubSeq(q, 1, i) \in Seq(S) /\ q[i + 1] \in S
           /\ SubSeq(q, 1, i + 1) = Append(SubSeq(q, 1, i), q[i + 1])
  <1>1. Len(q) \in Nat /\ i + 1 \in 1 .. Len(q)
    OBVIOUS
  <1>2. SubSeq(q, 1, i) \in Seq(S) /\ q[i + 1] \in S
    BY <1>1
  <1>3. Len(SubSeq(q, 1, i)) = i /\ Len(SubSeq(q, 1, i + 1)) = i + 1
    BY <1>1
  <1>4. Len(Append(SubSeq(q, 1, i), q[i + 1])) = i + 1
    BY <1>2, <1>3
  <1>5. \A j \in 1 .. i + 1 : SubSeq(q, 1, i + 1)[j] = q[j]
    BY <1>1
  <1>6. \A j \in 1 .. i + 1 : Append(SubSeq(q, 1, i), q[i + 1])[j] = q[j]
    BY <1>1, <1>2, <1>3
  <1>7. SubSeq(q, 1, i + 1) \in Seq(S) /\ Append(SubSeq(q, 1, i), q[i + 1]) \in Seq(S)
    BY <1>1, <1>2
  <1> QED
    BY <1>2, <1>3, <1>4, <1>5, <1>6, <1>7

(* Handling what was kept leaves the ports its messages tell of.           *)
LEMMA TrackedAll ==
    ASSUME NEW r \in Connection, NEW q \in Seq(Status)
    PROVE  /\ FoldLeft(Tracked, r, q) \in Connection
           /\ SameBut(r, FoldLeft(Tracked, r, q))
           /\ View(FoldLeft(Tracked, r, q)) = After(View(r), q)
  <1>1. PICK f : Handling(f, r, q, Len(q)) /\ FoldLeft(Tracked, r, q) = f[1 .. Len(q)]
    BY FoldIsHandling
  <1>2. Len(q) \in Nat
    OBVIOUS
  <1>3. /\ f[1 .. 0] = r
        /\ \A i \in 1 .. Len(q) : f[1 .. i] = Tracked(f[1 .. i - 1], q[i])
    BY <1>1, <1>2, HandlingStep
  <1> DEFINE P(i) == /\ f[1 .. i] \in Connection /\ SameBut(r, f[1 .. i])
                     /\ View(f[1 .. i]) = After(View(r), SubSeq(q, 1, i))
             T == {i \in Nat : i <= Len(q) => P(i)}
  <1>4. 0 \in T
    <2>1. SubSeq(q, 1, 0) = <<>>
      OBVIOUS
    <2>2. After(View(r), <<>>) = View(r)
      BY AfterNone, ViewType
    <2> QED
      BY <2>1, <2>2, <1>3 DEF SameBut
  <1>5. ASSUME NEW i \in T PROVE i + 1 \in T
    <2>1. SUFFICES ASSUME i + 1 <= Len(q) PROVE P(i + 1)
      OBVIOUS
    <2>2. P(i) /\ i + 1 \in 1 .. Len(q) /\ i \in Nat
      BY <2>1, <1>2
    <2>3. q[i + 1] \in Status /\ SubSeq(q, 1, i) \in Seq(Status)
          /\ SubSeq(q, 1, i + 1) = Append(SubSeq(q, 1, i), q[i + 1])
      BY <2>1, <2>2, FirstOnes
    <2>4. (i + 1) - 1 = i
      BY <2>2
    <2>5. PICK u \in Connection : u = f[1 .. i]
      BY <2>2
    <2>6. f[1 .. i + 1] = Tracked(u, q[i + 1])
      BY <2>2, <2>4, <2>5, <1>3
    <2>7. /\ Tracked(u, q[i + 1]) \in Connection /\ SameBut(u, Tracked(u, q[i + 1]))
          /\ View(Tracked(u, q[i + 1])) = [View(u) EXCEPT ![q[i + 1].port] = q[i + 1].state]
      BY <2>3, TrackedFacts
    <2>8. SameBut(r, f[1 .. i + 1])
      BY <2>2, <2>5, <2>6, <2>7 DEF SameBut
    <2>9. PICK s \in Seq(ToController) : s = SubSeq(q, 1, i)
      BY <2>3, StatusSeq
    <2>10. q[i + 1] \in ToController /\ q[i + 1].type = "PORT_STATUS"
      BY <2>3 DEF ToController, Status
    <2>11. After(View(r), Append(s, q[i + 1])) = [After(View(r), s) EXCEPT ![q[i + 1].port] = q[i + 1].state]
      BY <2>10, AddStatus, ViewType
    <2> QED
      BY <2>2, <2>3, <2>5, <2>6, <2>7, <2>8, <2>9, <2>11
  <1>6. T = Nat
    <2> HIDE DEF T
    <2>1. T \in SUBSET Nat
      BY DEF T
    <2> QED
      BY <1>4, <1>5, <2>1, SetInduction
  <1>7. P(Len(q))
    BY <1>6, <1>2
  <1>8. SubSeq(q, 1, Len(q)) = q
    OBVIOUS
  <1> QED
    BY <1>1, <1>7, <1>8

-----------------------------------------------------------------------------
(* The inductive invariant                                                 *)

Events == {"up", "status", "down"}

(* What was raised about a connection, given how far it is and how far the *)
(* sender's thread is with it.  As long as the task has not closed it, only *)
(* the sender's thread can have raised ConnectionDown, and the other way    *)
(* round: so the second of the two is the last.                            *)
LogFine(r, l) ==
    /\ \A j, k \in 1 .. Len(l) : l[j] = "up" /\ l[k] = "up" => j = k
    /\ \A k \in 1 .. Len(l) : l[k] = "status" => \E i \in 1 .. k - 1 : l[i] = "up"
    /\ r.stage \in {"free", "incoming", "handshake"} => \A k \in 1 .. Len(l) : l[k] # "up"
    /\ r.stage = "connected" => \E k \in 1 .. Len(l) : l[k] = "up"
    /\ \A k \in 1 .. Len(l) : l[k] = "down" => r.stage = "closed" \/ r.sender = "done"
    /\ \A j, k \in 1 .. Len(l) : l[j] = "down" /\ l[k] = "down" /\ j # k =>
         r.stage = "closed" /\ r.sender = "done"
    /\ r.sender = "idle" =>
         \A k \in 1 .. Len(l) : (l[k] = "up" => k = 1) /\ (l[k] = "down" => k = Len(l))

(* How far a connection is, and what it holds.                             *)
StageFine(r, q) ==
    /\ r.stage \in {"free", "incoming"} => r.barrier = FALSE
    /\ r.stage = "free" => q = <<>> /\ r.dpid = NoDpid /\ r.sender = "idle"
    /\ r.barrier = TRUE => r.dpid \in Switches
    /\ r.stage = "handshake" /\ r.barrier = TRUE => r.delta = NoPorts /\ r.masks = {}

(* The connection r, with q on its way, is one of switch e.                *)
Own(r, q, e) ==
    /\ r.dpid \in {NoDpid, e}
    /\ \A k \in DOMAIN q : q[k].type = "FEATURES_REPLY" => q[k].dpid = e

OneSwitch(c) ==
    \E e \in Switches \cup {NoDpid} :
      /\ Own(conn[c], toController[c], e)
      /\ \A d \in Switches : swconn[d] = c => d = e

(* What is known and what is on its way add up to the ports P; a reply     *)
(* under way does so with what was sent after it.                          *)
Good(r, q, v, P) ==
    /\ r.stage = "connected" => After(View(r), q) = P /\ After(v, q) = P
    /\ r.stage = "handshake" /\ r.barrier = TRUE =>
         After(After(r.original, r.deferred), q) = P
    /\ \A k \in DOMAIN q : q[k].type = "FEATURES_REPLY" => AfterFrom(q[k].ports, q, k) = P

PortsGood ==
    \A d \in Switches, c \in Conns :
      swconn[d] = c => Good(conn[c], toController[c], known[c], ports[d])

Alone(d, b) == conn[b].dpid = d /\ \A a \in Conns \ {b} : conn[a].dpid # d

NexusOK ==
    /\ \A d \in Switches, c \in Conns :
         connections[d] = c => conn[c].stage = "connected" /\ conn[c].dpid = d
    /\ \A d \in Switches, b \in Conns :
         /\ Alone(d, b) /\ conn[b].stage = "connected" /\ conn[b].disconnected = FALSE
         => connections[d] = b

ConnFine(c) ==
    /\ LogFine(conn[c], log[c]) /\ StageFine(conn[c], toController[c])
    /\ conn[c].stage = "free" => \A d \in Switches : swconn[d] # c

OfInv ==
    /\ TypeOK
    /\ \A c \in Conns : ConnFine(c)
    /\ \A c \in Conns : OneSwitch(c)
    /\ PortsGood
    /\ NexusOK

-----------------------------------------------------------------------------
(* Messages on a connection                                                *)

LEMMA GoodTail ==
    ASSUME NEW q \in Seq(ToController), q # <<>>, NEW P,
           \A k \in DOMAIN q : q[k].type = "FEATURES_REPLY" => AfterFrom(q[k].ports, q, k) = P
    PROVE  \A k \in DOMAIN Tail(q) : Tail(q)[k].type = "FEATURES_REPLY" => AfterFrom(Tail(q)[k].ports, Tail(q), k) = P
  <1>1. ASSUME NEW k \in DOMAIN Tail(q), Tail(q)[k].type = "FEATURES_REPLY"
        PROVE  AfterFrom(Tail(q)[k].ports, Tail(q), k) = P
    <2>1. k \in Nat /\ k + 1 \in DOMAIN q /\ Tail(q)[k] = q[k + 1] /\ q[k + 1] \in ToController
      BY TailFacts
    <2>2. PICK v \in Ports : v = q[k + 1].ports
      BY <1>1, <2>1, FeaturesMessage
    <2>3. AfterFrom(v, Tail(q), k) = AfterFrom(v, q, k + 1)
      BY <2>1, AfterTail
    <2> QED
      BY <1>1, <2>1, <2>2, <2>3
  <1> QED
    BY <1>1

LEMMA AppendFacts ==
    ASSUME NEW S, NEW q \in Seq(S), NEW m \in S
    PROVE  /\ Append(q, m) \in Seq(S) /\ DOMAIN Append(q, m) = 1 .. Len(q) + 1 /\ DOMAIN q = 1 .. Len(q)
           /\ Len(q) \in Nat /\ Append(q, m)[Len(q) + 1] = m
           /\ \A i \in 1 .. Len(q) : Append(q, m)[i] = q[i]
           /\ Len(Append(q, m)) = Len(q) + 1 /\ Append(q, m) # <<>>
  OBVIOUS

LEMMA ConcatFacts ==
    ASSUME NEW S, NEW q \in Seq(S), NEW s \in Seq(S)
    PROVE  /\ q \o s \in Seq(S) /\ Len(q) \in Nat /\ Len(s) \in Nat /\ Len(q \o s) = Len(q) + Len(s)
           /\ \A i \in 1 .. Len(q) : (q \o s)[i] = q[i]
           /\ \A i \in 1 .. Len(s) : (q \o s)[Len(q) + i] = s[i]
  OBVIOUS

LEMMA KeptPorts ==
    ASSUME NEW r \in Connection
    PROVE  /\ r.original \in Ports /\ r.deferred \in Seq(ToController) /\ r.deferred \in Seq(Status)
           /\ After(r.original, r.deferred) \in Ports /\ View(r) \in Ports
  <1>1. r.original \in Ports /\ r.deferred \in Seq(Status)
    BY DEF Connection
  <1> QED
    BY <1>1, StatusSeq, AfterType, ViewType

(* A port changes.                                                         *)
LEMMA GoodStatus ==
    ASSUME NEW r \in Connection, NEW q \in Seq(ToController), NEW v \in Ports, NEW P \in Ports,
           Good(r, q, v, P), NEW m \in ToController, m.type = "PORT_STATUS"
    PROVE  Good(r, Append(q, m), v, [P EXCEPT ![m.port] = m.state])
  <1>1. PICK w \in Ports : w = After(r.original, r.deferred)
    BY KeptPorts
  <1>2. \A u \in Ports : After(u, Append(q, m)) = [After(u, q) EXCEPT ![m.port] = m.state]
    BY AddStatus
  <1>3. r.stage = "connected" => /\ After(View(r), Append(q, m)) = [P EXCEPT ![m.port] = m.state]
                                 /\ After(v, Append(q, m)) = [P EXCEPT ![m.port] = m.state]
    <2>1. View(r) \in Ports
      BY KeptPorts
    <2>2. r.stage = "connected" => After(View(r), q) = P /\ After(v, q) = P
      BY DEF Good
    <2> QED
      BY <1>2, <2>1, <2>2
  <1>4. r.stage = "handshake" /\ r.barrier = TRUE => After(w, Append(q, m)) = [P EXCEPT ![m.port] = m.state]
    BY <1>1, <1>2 DEF Good
  <1>5. ASSUME NEW k \in DOMAIN Append(q, m), Append(q, m)[k].type = "FEATURES_REPLY"
        PROVE  AfterFrom(Append(q, m)[k].ports, Append(q, m), k) = [P EXCEPT ![m.port] = m.state]
    <2>1. k \in 1 .. Len(q) /\ k \in Nat /\ k <= Len(q) /\ Append(q, m)[k] = q[k] /\ q[k] \in ToController
      BY <1>5, AppendFacts
    <2>2. PICK u \in Ports : u = q[k].ports
      BY <1>5, <2>1, FeaturesMessage
    <2>3. AfterFrom(u, q, k) = P
      BY <1>5, <2>1, <2>2, AppendFacts DEF Good
    <2>4. AfterFrom(u, Append(q, m), k) = [AfterFrom(u, q, k) EXCEPT ![m.port] = m.state]
      BY <2>1, AfterAppendStatus
    <2> QED
      BY <2>1, <2>2, <2>3, <2>4
  <1> QED
    BY <1>1, <1>3, <1>4, <1>5 DEF Good

(* The switch answers: a reply tells of the ports as they are.             *)
LEMMA GoodAnswer ==
    ASSUME NEW r \in Connection, NEW q \in Seq(ToController), NEW v \in Ports, NEW P \in Ports,
           Good(r, q, v, P), NEW m \in ToController, m.type # "PORT_STATUS",
           m.type = "FEATURES_REPLY" => m.ports = P
    PROVE  Good(r, Append(q, m), v, P)
  <1>1. PICK w \in Ports : w = After(r.original, r.deferred)
    BY KeptPorts
  <1>2. \A u \in Ports : After(u, Append(q, m)) = After(u, q)
    BY AddOther
  <1>3. r.stage = "connected" => After(View(r), Append(q, m)) = P /\ After(v, Append(q, m)) = P
    <2>1. View(r) \in Ports
      BY KeptPorts
    <2>2. r.stage = "connected" => After(View(r), q) = P /\ After(v, q) = P
      BY DEF Good
    <2> QED
      BY <1>2, <2>1, <2>2
  <1>4. r.stage = "handshake" /\ r.barrier = TRUE => After(w, Append(q, m)) = P
    BY <1>1, <1>2 DEF Good
  <1>5. ASSUME NEW k \in DOMAIN Append(q, m), Append(q, m)[k].type = "FEATURES_REPLY"
        PROVE  AfterFrom(Append(q, m)[k].ports, Append(q, m), k) = P
    <2>0. k \in 1 .. Len(q) \/ k = Len(q) + 1
      BY AppendFacts
    <2>1. CASE k \in 1 .. Len(q)
      <3>1. k \in Nat /\ k <= Len(q) /\ Append(q, m)[k] = q[k] /\ q[k] \in ToController
        BY <2>1, AppendFacts
      <3>2. PICK u \in Ports : u = q[k].ports
        BY <1>5, <3>1, FeaturesMessage
      <3>3. AfterFrom(u, q, k) = P
        BY <1>5, <2>1, <3>1, <3>2, AppendFacts DEF Good
      <3>4. AfterFrom(u, Append(q, m), k) = AfterFrom(u, q, k)
        BY <3>1, AfterAppendOther
      <3> QED
        BY <3>1, <3>2, <3>3, <3>4
    <2>2. CASE k = Len(q) + 1
      <3>1. Append(q, m)[k] = m /\ k = Len(Append(q, m)) /\ Append(q, m) \in Seq(ToController)
        BY <2>2, AppendFacts
      <3>2. m.ports = P
        BY <1>5, <3>1
      <3>3. PICK s \in Seq(ToController) : s = Append(q, m)
        BY <3>1
      <3>4. AfterFrom(P, s, Len(s)) = P
        BY AfterFromEnd
      <3> QED
        BY <3>1, <3>2, <3>3, <3>4
    <2> QED
      BY <2>0, <2>1, <2>2
  <1> QED
    BY <1>1, <1>3, <1>4, <1>5 DEF Good

-----------------------------------------------------------------------------
(* Steps of the controller                                                 *)

LEMMA TypeUse ==
    ASSUME TypeOK, NEW c \in Conns
    PROVE  /\ conn[c] \in Connection /\ toController[c] \in Seq(ToController)
           /\ log[c] \in Seq(Events) /\ known[c] \in Ports /\ toSwitch[c] \in Seq(ToSwitch)
  BY DEF TypeOK, Events

(* A step that changes connection c only.                                  *)
LEMMA OneConnection ==
    ASSUME OfInv, NEW c \in Conns, NEW r \in Connection, NEW q \in Seq(ToController),
           NEW l \in Seq(Events), NEW v \in Ports,
           conn' = [conn EXCEPT ![c] = r], toController' = [toController EXCEPT ![c] = q],
           log' = [log EXCEPT ![c] = l], known' = [known EXCEPT ![c] = v],
           UNCHANGED switchVars, toSwitch' \in [Conns -> Seq(ToSwitch)],
           connections' \in [Switches -> Conns \cup {NoConn}],
           LogFine(r, l), StageFine(r, q), r.stage # "free",
           \A e \in Switches \cup {NoDpid} : Own(conn[c], toController[c], e) => Own(r, q, e),
           \A d \in Switches : Good(conn[c], toController[c], known[c], ports[d]) => Good(r, q, v, ports[d]),
           NexusOK'
    PROVE  OfInv'
  <1>1. TypeOK'
    BY DEF OfInv, TypeOK, switchVars, Events
  <1>2. ASSUME NEW b \in Conns PROVE ConnFine(b)'
    <2>1. ConnFine(b)
      BY DEF OfInv
    <2>2. CASE b = c
      <3>1. conn'[b] = r /\ toController'[b] = q /\ log'[b] = l
        BY <2>2 DEF OfInv, TypeOK
      <3> QED
        BY <3>1 DEF ConnFine
    <2>3. CASE b # c
      <3>1. conn'[b] = conn[b] /\ toController'[b] = toController[b] /\ log'[b] = log[b]
        BY <2>3 DEF OfInv, TypeOK
      <3> QED
        BY <2>1, <3>1 DEF ConnFine, switchVars
    <2> QED
      BY <2>2, <2>3
  <1>3. ASSUME NEW b \in Conns PROVE OneSwitch(b)'
    <2>1. PICK e \in Switches \cup {NoDpid} :
            Own(conn[b], toController[b], e) /\ \A d \in Switches : swconn[d] = b => d = e
      BY DEF OfInv, OneSwitch
    <2>2. Own(conn'[b], toController'[b], e)
      <3>1. CASE b = c
        <4>1. conn'[b] = r /\ toController'[b] = q
          BY <3>1 DEF OfInv, TypeOK
        <4> QED
          BY <2>1, <3>1, <4>1
      <3>2. CASE b # c
        <4>1. conn'[b] = conn[b] /\ toController'[b] = toController[b]
          BY <3>2 DEF OfInv, TypeOK
        <4> QED
          BY <2>1, <4>1
      <3> QED
        BY <3>1, <3>2
    <2> QED
      BY <2>1, <2>2 DEF OneSwitch, switchVars
  <1>4. PortsGood'
    <2>1. ASSUME NEW d \in Switches, NEW b \in Conns, swconn[d] = b
          PROVE  Good(conn'[b], toController'[b], known'[b], ports[d])
      <3>1. Good(conn[b], toController[b], known[b], ports[d])
        BY <2>1 DEF OfInv, PortsGood
      <3>2. CASE b = c
        <4>1. conn'[b] = r /\ toController'[b] = q /\ known'[b] = v
          BY <3>2 DEF OfInv, TypeOK
        <4> QED
          BY <3>1, <3>2, <4>1
      <3>3. CASE b # c
        <4>1. conn'[b] = conn[b] /\ toController'[b] = toController[b] /\ known'[b] = known[b]
          BY <3>3 DEF OfInv, TypeOK
        <4> QED
          BY <3>1, <4>1
      <3> QED
        BY <3>2, <3>3
    <2> QED
      BY <2>1 DEF PortsGood, switchVars
  <1> QED
    BY <1>1, <1>2, <1>3, <1>4 DEF OfInv

(* The nexus, when connection c becomes r.                                 *)
LEMMA NexusSame ==
    ASSUME OfInv, NEW c \in Conns, NEW r \in Connection, conn' = [conn EXCEPT ![c] = r],
           connections' = connections, conn[c].dpid \in {NoDpid, r.dpid},
           conn[c].stage = "connected" =>
             r.stage = "connected" /\ r.dpid = conn[c].dpid,
           r.stage = "connected" /\ r.disconnected = FALSE =>
             /\ conn[c].stage = "connected" /\ conn[c].disconnected = FALSE
             /\ r.dpid = conn[c].dpid
    PROVE  NexusOK' /\ connections' \in [Switches -> Conns \cup {NoConn}]
  <1>0. /\ conn'[c] = r /\ \A b \in Conns : b # c => conn'[b] = conn[b]
    BY DEF OfInv, TypeOK
  <1>1. ASSUME NEW d \in Switches, NEW b \in Conns, connections[d] = b
        PROVE  conn'[b].stage = "connected" /\ conn'[b].dpid = d
    <2>1. conn[b].stage = "connected" /\ conn[b].dpid = d
      BY <1>1 DEF OfInv, NexusOK
    <2> QED
      BY <1>0, <2>1
  <1>2. ASSUME NEW d \in Switches, NEW b \in Conns, Alone(d, b)',
               conn'[b].stage = "connected", conn'[b].disconnected = FALSE
        PROVE  connections[d] = b
    <2>1. conn[b].stage = "connected" /\ conn[b].disconnected = FALSE /\ conn[b].dpid = d
      BY <1>0, <1>2 DEF Alone
    <2>2. ASSUME NEW a \in Conns \ {b} PROVE conn[a].dpid # d
      <3>1. conn'[a].dpid # d
        BY <1>2 DEF Alone
      <3>2. NoDpid # d
        BY OfAssumption
      <3> QED
        BY <1>0, <3>1, <3>2
    <2> QED
      BY <2>1, <2>2 DEF OfInv, NexusOK, Alone
  <1> QED
    BY <1>1, <1>2 DEF NexusOK, OfInv, TypeOK

LEMMA NexusWithout ==
    ASSUME OfInv, NEW c \in Conns, NEW r \in Connection, conn' = [conn EXCEPT ![c] = r],
           connections' = Without(connections, r.dpid), conn[c].dpid \in {NoDpid, r.dpid},
           r.stage # "connected" \/ r.disconnected = TRUE,
           conn[c].stage = "connected" => r.dpid = conn[c].dpid
    PROVE  NexusOK' /\ connections' \in [Switches -> Conns \cup {NoConn}]
  <1>0. /\ conn'[c] = r /\ \A b \in Conns : b # c => conn'[b] = conn[b]
    BY DEF OfInv, TypeOK
  <1>1. ASSUME NEW d \in Switches
        PROVE  connections'[d] = IF d = r.dpid THEN NoConn ELSE connections[d]
    BY DEF OfInv, TypeOK, Without
  <1>2. NoConn \notin Conns
    BY OfAssumption DEF Conns, NoConn
  <1>3. ASSUME NEW d \in Switches, NEW b \in Conns, connections'[d] = b
        PROVE  conn'[b].stage = "connected" /\ conn'[b].dpid = d
    <2>1. connections[d] = b /\ d # r.dpid
      BY <1>1, <1>2, <1>3
    <2>2. conn[b].stage = "connected" /\ conn[b].dpid = d
      BY <2>1 DEF OfInv, NexusOK
    <2>3. b # c
      BY <2>1, <2>2
    <2> QED
      BY <1>0, <2>2, <2>3
  <1>4. ASSUME NEW d \in Switches, NEW b \in Conns, Alone(d, b)',
               conn'[b].stage = "connected", conn'[b].disconnected = FALSE
        PROVE  connections'[d] = b
    <2>1. b # c
      BY <1>0, <1>4
    <2>2. conn[b].stage = "connected" /\ conn[b].disconnected = FALSE /\ conn[b].dpid = d
      BY <1>0, <1>4, <2>1 DEF Alone
    <2>3. r.dpid # d
      BY <1>0, <1>4, <2>1 DEF Alone
    <2>4. ASSUME NEW a \in Conns \ {b} PROVE conn[a].dpid # d
      <3>1. conn'[a].dpid # d
        BY <1>4 DEF Alone
      <3>2. NoDpid # d
        BY OfAssumption
      <3> QED
        BY <1>0, <3>1, <3>2, <2>3
    <2>5. connections[d] = b
      BY <2>2, <2>4 DEF OfInv, NexusOK, Alone
    <2> QED
      BY <1>1, <2>3, <2>5
  <1>5. connections' \in [Switches -> Conns \cup {NoConn}]
    BY DEF OfInv, TypeOK, Without
  <1> QED
    BY <1>3, <1>4, <1>5 DEF NexusOK

LEMMA NexusEntered ==
    ASSUME OfInv, NEW c \in Conns, NEW r \in Connection, conn' = [conn EXCEPT ![c] = r],
           connections' = [connections EXCEPT ![r.dpid] = c],
           conn[c].dpid = r.dpid, r.stage = "connected"
    PROVE  NexusOK' /\ connections' \in [Switches -> Conns \cup {NoConn}]
  <1>0. /\ conn'[c] = r /\ \A b \in Conns : b # c => conn'[b] = conn[b]
    BY DEF OfInv, TypeOK
  <1>1. ASSUME NEW d \in Switches
        PROVE  connections'[d] = IF d = r.dpid THEN c ELSE connections[d]
    BY DEF OfInv, TypeOK
  <1>3. ASSUME NEW d \in Switches, NEW b \in Conns, connections'[d] = b
        PROVE  conn'[b].stage = "connected" /\ conn'[b].dpid = d
    <2>1. CASE d = r.dpid
      BY <1>0, <1>1, <1>3, <2>1
    <2>2. CASE d # r.dpid
      <3>1. connections[d] = b
        BY <1>1, <1>3, <2>2
      <3>2. conn[b].stage = "connected" /\ conn[b].dpid = d
        BY <3>1 DEF OfInv, NexusOK
      <3> QED
        BY <1>0, <3>2, <2>2
    <2> QED
      BY <2>1, <2>2
  <1>4. ASSUME NEW d \in Switches, NEW b \in Conns, Alone(d, b)',
               conn'[b].stage = "connected", conn'[b].disconnected = FALSE
        PROVE  connections'[d] = b
    <2>1. CASE b = c
      BY <1>0, <1>1, <1>4, <2>1 DEF Alone
    <2>2. CASE b # c
      <3>1. r.dpid # d
        BY <1>0, <1>4, <2>2 DEF Alone
      <3>2. conn[b].stage = "connected" /\ conn[b].disconnected = FALSE /\ conn[b].dpid = d
        BY <1>0, <1>4, <2>2 DEF Alone
      <3>3. ASSUME NEW a \in Conns \ {b} PROVE conn[a].dpid # d
        <4>1. conn'[a].dpid # d
          BY <1>4 DEF Alone
        <4> QED
          BY <1>0, <4>1
      <3>4. connections[d] = b
        BY <3>2, <3>3 DEF OfInv, NexusOK, Alone
      <3> QED
        BY <1>1, <3>1, <3>4
    <2> QED
      BY <2>1, <2>2
  <1>5. connections' \in [Switches -> Conns \cup {NoConn}]
    BY DEF OfInv, TypeOK
  <1> QED
    BY <1>3, <1>4, <1>5 DEF NexusOK

(* What a write does to the connection, the nexus and the switch's queue.  *)
SameButEnd(r, u) ==
    /\ u.stage = r.stage /\ u.dpid = r.dpid /\ u.barrier = r.barrier
    /\ u.original = r.original /\ u.delta = r.delta /\ u.masks = r.masks
    /\ u.deferred = r.deferred /\ u.sender = r.sender

LEMMA Sent ==
    ASSUME TypeOK, NEW c \in Conns, NEW r \in Connection, NEW n, NEW msgs \in Seq(ToSwitch),
           send(c, r, n, msgs)
    PROVE  /\ toSwitch' \in [Conns -> Seq(ToSwitch)]
           /\ \E u \in Connection :
                /\ conn' = [conn EXCEPT ![c] = u] /\ SameButEnd(r, u)
                /\ \/ u = r /\ connections' = n
                   \/ u.disconnected = TRUE /\ connections' = Without(n, r.dpid)
  <1>1. toSwitch \in [Conns -> Seq(ToSwitch)] /\ toSwitch[c] \o msgs \in Seq(ToSwitch)
    BY DEF TypeOK
  <1>2. toSwitch' \in [Conns -> Seq(ToSwitch)]
    <2>1. [toSwitch EXCEPT ![c] = toSwitch[c] \o msgs] \in [Conns -> Seq(ToSwitch)]
      BY <1>1
    <2>2. \/ toSwitch' = toSwitch
          \/ toSwitch' = [toSwitch EXCEPT ![c] = toSwitch[c] \o msgs]
      BY DEF send
    <2> QED
      BY <1>1, <2>1, <2>2
  <1>3. CASE conn' = [conn EXCEPT ![c] = r] /\ connections' = n
    BY <1>2, <1>3 DEF SameButEnd
  <1>4. CASE /\ conn' = [conn EXCEPT ![c] = [r EXCEPT !.disconnected = TRUE]]
             /\ connections' = Without(n, r.dpid)
    <2>1. PICK u : u = [r EXCEPT !.disconnected = TRUE]
      OBVIOUS
    <2>2. u \in Connection
      BY <2>1 DEF Connection
    <2>3. u.disconnected = TRUE /\ SameButEnd(r, u)
      BY <2>1 DEF Connection, SameButEnd
    <2> QED
      BY <1>2, <1>4, <2>1, <2>2, <2>3
  <1> QED
    BY <1>3, <1>4 DEF send

LEMMA EndSame ==
    ASSUME NEW r, NEW u, SameButEnd(r, u), NEW l, NEW q, LogFine(r, l), StageFine(r, q)
    PROVE  LogFine(u, l) /\ StageFine(u, q)
  BY DEF SameButEnd, LogFine, StageFine

LEMMA EndGood ==
    ASSUME NEW r, NEW u, SameButEnd(r, u), NEW q, NEW v, NEW P, Good(r, q, v, P)
    PROVE  Good(u, q, v, P)
  <1>1. View(u) = View(r)
    BY DEF View, SameButEnd
  <1> QED
    BY <1>1 DEF Good, SameButEnd

LEMMA EndOwn ==
    ASSUME NEW r, NEW u, SameButEnd(r, u), NEW q, NEW e, Own(r, q, e)
    PROVE  Own(u, q, e)
  BY DEF Own, SameButEnd

(* A step that writes and leaves the nexus to the write.                   *)
LEMMA Write ==
    ASSUME OfInv, NEW c \in Conns, NEW r \in Connection, NEW q \in Seq(ToController),
           NEW msgs \in Seq(ToSwitch), send(c, r, connections, msgs),
           toController' = [toController EXCEPT ![c] = q],
           UNCHANGED <<switchVars, log, known>>,
           LogFine(r, log[c]), StageFine(r, q), r.stage # "free",
           \A e \in Switches \cup {NoDpid} : Own(conn[c], toController[c], e) => Own(r, q, e),
           \A d \in Switches : Good(conn[c], toController[c], known[c], ports[d]) => Good(r, q, known[c], ports[d]),
           conn[c].dpid \in {NoDpid, r.dpid},
           conn[c].stage = "connected" => r.stage = "connected" /\ r.dpid = conn[c].dpid,
           r.stage = "connected" =>
             /\ conn[c].stage = "connected" /\ r.disconnected = conn[c].disconnected
             /\ r.dpid = conn[c].dpid
    PROVE  OfInv'
  <1>0. TypeOK
    BY DEF OfInv
  <1>1. toSwitch' \in [Conns -> Seq(ToSwitch)]
    BY <1>0, Sent
  <1>2. PICK u \in Connection :
                /\ conn' = [conn EXCEPT ![c] = u] /\ SameButEnd(r, u)
                /\ \/ u = r /\ connections' = connections
                   \/ u.disconnected = TRUE /\ connections' = Without(connections, r.dpid)
    BY <1>0, Sent
  <1>3. log[c] \in Seq(Events) /\ known[c] \in Ports
    BY <1>0, TypeUse
  <1>4. log' = [log EXCEPT ![c] = log[c]] /\ known' = [known EXCEPT ![c] = known[c]]
    BY <1>0 DEF TypeOK
  <1>5. LogFine(u, log[c]) /\ StageFine(u, q) /\ u.stage # "free"
    <2>1. LogFine(u, log[c]) /\ StageFine(u, q)
      BY <1>2, EndSame
    <2> QED
      BY <1>2, <2>1 DEF SameButEnd
  <1>6. \A e \in Switches \cup {NoDpid} : Own(conn[c], toController[c], e) => Own(u, q, e)
    BY <1>2, EndOwn
  <1>7. \A d \in Switches : Good(conn[c], toController[c], known[c], ports[d]) => Good(u, q, known[c], ports[d])
    BY <1>2, EndGood
  <1>8. NexusOK' /\ connections' \in [Switches -> Conns \cup {NoConn}]
    <2>1. CASE u = r /\ connections' = connections
      BY <1>2, <2>1, NexusSame
    <2>2. CASE u.disconnected = TRUE /\ connections' = Without(connections, r.dpid)
      <3>1. u.dpid = r.dpid
        BY <1>2 DEF SameButEnd
      <3> QED
        BY <1>2, <2>2, <3>1, NexusWithout
    <2> QED
      BY <1>2, <2>1, <2>2
  <1> QED
    BY <1>1, <1>2, <1>3, <1>4, <1>5, <1>6, <1>7, <1>8, OneConnection

LEMMA SwitchMessages ==
    /\ <<>> \in Seq(ToSwitch) /\ <<Msg("HELLO")>> \in Seq(ToSwitch)
    /\ <<Msg("FEATURES_REQUEST")>> \in Seq(ToSwitch) /\ <<Msg("BARRIER_REQUEST")>> \in Seq(ToSwitch)
  <1>1. Msg("HELLO") \in ToSwitch /\ Msg("FEATURES_REQUEST") \in ToSwitch /\ Msg("BARRIER_REQUEST") \in ToSwitch
    BY DEF ToSwitch
  <1> QED
    BY <1>1

(* Reading keeps a connection one of its switch.                           *)
LEMMA OwnTail ==
    ASSUME NEW r, NEW u, NEW q \in Seq(ToController), q # <<>>, NEW e, Own(r, q, e), u.dpid \in {NoDpid, e}
    PROVE  Own(u, Tail(q), e)
  <1>1. ASSUME NEW k \in DOMAIN Tail(q), Tail(q)[k].type = "FEATURES_REPLY" PROVE Tail(q)[k].dpid = e
    <2>1. k + 1 \in DOMAIN q /\ Tail(q)[k] = q[k + 1]
      BY TailFacts
    <2> QED
      BY <1>1, <2>1 DEF Own
  <1> QED
    BY <1>1 DEF Own

LEMMA ReadUse ==
    ASSUME OfInv, NEW c \in Conns, NEW t, NEW s, Receives(c, t, s), Read(c)
    PROVE  /\ toController[c] \in Seq(ToController) /\ toController[c] # <<>>
           /\ Tail(toController[c]) \in Seq(ToController) /\ Head(toController[c]) \in ToController
           /\ Head(toController[c]).type = t /\ conn[c].stage = s /\ conn[c] \in Connection
           /\ toController' = [toController EXCEPT ![c] = Tail(toController[c])]
           /\ LogFine(conn[c], log[c]) /\ StageFine(conn[c], toController[c])
  <1>1. toController[c] \in Seq(ToController) /\ toController[c] # <<>> /\ conn[c] \in Connection
    BY TypeUse DEF OfInv, Receives
  <1>2. LogFine(conn[c], log[c]) /\ StageFine(conn[c], toController[c])
    BY DEF OfInv, ConnFine
  <1> QED
    BY <1>1, <1>2, TailFacts DEF Receives, Read

LEMMA AcceptStep ==
    ASSUME OfInv, NEW c \in Conns, accept(c) PROVE OfInv'
  <1>1. TypeOK /\ conn[c] \in Connection /\ toController[c] \in Seq(ToController)
    BY TypeUse DEF OfInv
  <1>2. PICK r : r = [conn[c] EXCEPT !.stage = "handshake"]
    OBVIOUS
  <1>3. r \in Connection
    BY <1>1, <1>2 DEF Connection
  <1>4. /\ r.stage = "handshake" /\ r.dpid = conn[c].dpid /\ r.barrier = conn[c].barrier
        /\ conn[c].stage = "incoming" /\ r.sender = conn[c].sender
    BY <1>1, <1>2 DEF Connection, accept
  <1>5. LogFine(conn[c], log[c]) /\ StageFine(conn[c], toController[c])
    BY DEF OfInv, ConnFine
  <1>6. LogFine(r, log[c]) /\ StageFine(r, toController[c])
    BY <1>4, <1>5 DEF LogFine, StageFine
  <1>7. \A e \in Switches \cup {NoDpid} : Own(conn[c], toController[c], e) => Own(r, toController[c], e)
    BY <1>4 DEF Own
  <1>8. \A d \in Switches : Good(conn[c], toController[c], known[c], ports[d]) => Good(r, toController[c], known[c], ports[d])
    BY <1>4, <1>5 DEF Good, StageFine
  <1>9. toController' = [toController EXCEPT ![c] = toController[c]]
    BY <1>1 DEF accept, TypeOK
  <1>10. send(c, r, connections, <<Msg("HELLO")>>) /\ UNCHANGED <<switchVars, log, known>>
    BY <1>2 DEF accept
  <1> QED
    BY <1>1, <1>3, <1>4, <1>6, <1>7, <1>8, <1>9, <1>10, SwitchMessages, Write

LEMMA ComponentStep ==
    ASSUME OfInv, NEW c \in Conns, ComponentSends(c) PROVE OfInv'
  <1>1. TypeOK /\ conn[c] \in Connection /\ toController[c] \in Seq(ToController)
    BY TypeUse DEF OfInv
  <1>2. LogFine(conn[c], log[c]) /\ StageFine(conn[c], toController[c])
    BY DEF OfInv, ConnFine
  <1>3. toController' = [toController EXCEPT ![c] = toController[c]] /\ conn[c].stage = "connected"
    BY <1>1 DEF ComponentSends, TypeOK
  <1>4. send(c, conn[c], connections, <<>>) /\ UNCHANGED <<switchVars, log, known>>
    BY DEF ComponentSends
  <1>5. PICK r \in Connection : r = conn[c]
    BY <1>1
  <1> QED
    BY <1>1, <1>2, <1>3, <1>4, <1>5, SwitchMessages, Write

LEMMA GoodReadOther ==
    ASSUME NEW r \in Connection, NEW u \in Connection, NEW q \in Seq(ToController), q # <<>>,
           NEW v \in Ports, NEW P, Good(r, q, v, P), Head(q).type # "PORT_STATUS",
           SameButEnd(r, u)
    PROVE  Good(u, Tail(q), v, P)
  <1>1. \A w \in Ports : After(w, q) = After(w, Tail(q))
    BY ReadOther
  <1>2. View(r) \in Ports /\ After(r.original, r.deferred) \in Ports
    BY KeptPorts
  <1>3. /\ r.stage = "connected" => After(View(r), Tail(q)) = P /\ After(v, Tail(q)) = P
        /\ r.stage = "handshake" /\ r.barrier = TRUE => After(After(r.original, r.deferred), Tail(q)) = P
    BY <1>1, <1>2 DEF Good
  <1>4. \A k \in DOMAIN Tail(q) : Tail(q)[k].type = "FEATURES_REPLY" => AfterFrom(Tail(q)[k].ports, Tail(q), k) = P
    BY GoodTail DEF Good
  <1>5. Good(r, Tail(q), v, P)
    BY <1>3, <1>4 DEF Good
  <1> QED
    BY <1>5, EndGood

LEMMA HelloStep ==
    ASSUME OfInv, NEW c \in Conns, handle_HELLO(c) PROVE OfInv'
  <1>1. /\ Receives(c, "HELLO", "handshake") /\ Read(c)
    BY DEF handle_HELLO
  <1>2. /\ toController[c] \in Seq(ToController) /\ toController[c] # <<>>
        /\ Tail(toController[c]) \in Seq(ToController)
        /\ Head(toController[c]).type = "HELLO" /\ conn[c].stage = "handshake" /\ conn[c] \in Connection
        /\ toController' = [toController EXCEPT ![c] = Tail(toController[c])]
        /\ LogFine(conn[c], log[c]) /\ StageFine(conn[c], toController[c])
    BY <1>1, ReadUse
  <1>3. PICK r : r = [conn[c] EXCEPT !.asked = TRUE]
    OBVIOUS
  <1>4. r \in Connection /\ SameButEnd(conn[c], r)
    <2>1. r \in Connection
      BY <1>2, <1>3 DEF Connection
    <2>2. SameButEnd(conn[c], r)
      BY <1>2, <1>3 DEF Connection, SameButEnd
    <2> QED
      BY <2>1, <2>2
  <1>5. PICK msgs \in Seq(ToSwitch) : send(c, r, connections, msgs)
    <2>1. send(c, r, connections, IF conn[c].asked THEN <<>> ELSE <<Msg("FEATURES_REQUEST")>>)
      BY <1>3 DEF handle_HELLO
    <2>2. (IF conn[c].asked THEN <<>> ELSE <<Msg("FEATURES_REQUEST")>>) \in Seq(ToSwitch)
      BY SwitchMessages
    <2> QED
      BY <2>1, <2>2
  <1>6. LogFine(r, log[c]) /\ StageFine(r, Tail(toController[c])) /\ r.stage = "handshake" /\ r.dpid = conn[c].dpid
    BY <1>2, <1>4 DEF LogFine, StageFine, SameButEnd
  <1>7. \A e \in Switches \cup {NoDpid} : Own(conn[c], toController[c], e) => Own(r, Tail(toController[c]), e)
    <2>1. ASSUME NEW e \in Switches \cup {NoDpid}, Own(conn[c], toController[c], e)
          PROVE  Own(r, Tail(toController[c]), e)
      <3>1. r.dpid \in {NoDpid, e}
        BY <1>6, <2>1 DEF Own
      <3> QED
        BY <1>2, <2>1, <3>1, OwnTail
    <2> QED
      BY <2>1
  <1>8. \A d \in Switches : Good(conn[c], toController[c], known[c], ports[d]) => Good(r, Tail(toController[c]), known[c], ports[d])
    <2>1. known[c] \in Ports
      BY TypeUse DEF OfInv
    <2> QED
      BY <1>2, <1>4, <2>1, GoodReadOther
  <1>9. UNCHANGED <<switchVars, log, known>>
    BY DEF handle_HELLO
  <1> QED
    BY <1>2, <1>4, <1>5, <1>6, <1>7, <1>8, <1>9, Write

LEMMA FeaturesStep ==
    ASSUME OfInv, NEW c \in Conns, handle_FEATURES_REPLY(c) PROVE OfInv'
  <1>1. /\ Receives(c, "FEATURES_REPLY", "handshake") /\ Read(c)
    BY DEF handle_FEATURES_REPLY
  <1>2. /\ toController[c] \in Seq(ToController) /\ toController[c] # <<>>
        /\ Tail(toController[c]) \in Seq(ToController) /\ Head(toController[c]) \in ToController
        /\ Head(toController[c]).type = "FEATURES_REPLY" /\ conn[c].stage = "handshake" /\ conn[c] \in Connection
        /\ toController' = [toController EXCEPT ![c] = Tail(toController[c])]
        /\ LogFine(conn[c], log[c]) /\ StageFine(conn[c], toController[c])
    BY <1>1, ReadUse
  <1>3. PICK q \in Seq(ToController) : q = toController[c]
    BY <1>2
  <1>4. PICK m \in ToController : m = Head(q)
    BY <1>2, <1>3
  <1>5. m.dpid \in Switches /\ m.ports \in Ports /\ q # <<>> /\ q[1] = m /\ 1 \in DOMAIN q /\ Tail(q) \in Seq(ToController)
        /\ m.type = "FEATURES_REPLY"
    BY <1>2, <1>3, <1>4, FeaturesMessage, TailFacts
  <1>6. PICK r : r = [conn[c] EXCEPT !.dpid = m.dpid, !.original = m.ports, !.delta = NoPorts,
                                     !.masks = {}, !.deferred = <<>>, !.barrier = TRUE]
    OBVIOUS
  <1>7. r \in Connection
    <2>1. NoPorts \in Ports /\ {} \in SUBSET PortNos /\ <<>> \in Seq(Status) /\ m.dpid \in Switches \cup {NoDpid}
      BY <1>5 DEF NoPorts, Ports, PortState
    <2> QED
      BY <1>2, <1>5, <1>6, <2>1 DEF Connection
  <1>8. /\ r.stage = "handshake" /\ r.dpid = m.dpid /\ r.original = m.ports /\ r.deferred = <<>>
        /\ r.delta = NoPorts /\ r.masks = {} /\ r.sender = conn[c].sender
    BY <1>2, <1>6 DEF Connection
  <1>9. LogFine(r, log[c]) /\ StageFine(r, Tail(q))
    BY <1>2, <1>5, <1>8 DEF LogFine, StageFine
  <1>10. ASSUME NEW e \in Switches \cup {NoDpid}, Own(conn[c], q, e) PROVE Own(r, Tail(q), e) /\ m.dpid = e
    <2>1. m.dpid = e
      BY <1>5, <1>10 DEF Own
    <2> QED
      BY <1>5, <1>8, <1>10, <2>1, OwnTail
  <1>11. conn[c].dpid \in {NoDpid, r.dpid}
    <2>1. PICK e \in Switches \cup {NoDpid} : Own(conn[c], q, e)
      BY <1>3 DEF OfInv, OneSwitch
    <2> QED
      BY <2>1, <1>8, <1>10 DEF Own
  <1>12. ASSUME NEW d \in Switches, Good(conn[c], q, known[c], ports[d])
         PROVE  Good(r, Tail(q), known[c], ports[d])
    <2>1. AfterFrom(m.ports, q, 1) = ports[d]
      BY <1>5, <1>12 DEF Good
    <2>2. AfterFrom(m.ports, Tail(q), 0) = AfterFrom(m.ports, q, 0 + 1)
      BY <1>5, AfterTail
    <2>3. After(m.ports, Tail(q)) = AfterFrom(m.ports, Tail(q), 0)
      BY <1>5, AfterIsFrom0
    <2>4. After(r.original, r.deferred) = m.ports
      BY <1>5, <1>8, AfterNone
    <2>5. 0 + 1 = 1
      OBVIOUS
    <2>6. After(After(r.original, r.deferred), Tail(q)) = ports[d]
      BY <2>1, <2>2, <2>3, <2>4, <2>5
    <2>7. \A k \in DOMAIN Tail(q) : Tail(q)[k].type = "FEATURES_REPLY" => AfterFrom(Tail(q)[k].ports, Tail(q), k) = ports[d]
      BY <1>5, <1>12, GoodTail DEF Good
    <2> QED
      BY <1>8, <2>6, <2>7 DEF Good
  <1>13. send(c, r, connections, <<Msg("BARRIER_REQUEST")>>) /\ UNCHANGED <<switchVars, log, known>>
    BY <1>3, <1>4, <1>6 DEF handle_FEATURES_REPLY
  <1> QED
    BY <1>2, <1>3, <1>5, <1>7, <1>8, <1>9, <1>10, <1>11, <1>12, <1>13, SwitchMessages, Write

(* Messages that were kept are messages on their way no more.              *)
LEMMA EarlyStatusStep ==
    ASSUME OfInv, NEW c \in Conns, EarlyPortStatus(c) PROVE OfInv'
  <1>0. TypeOK
    BY DEF OfInv
  <1>1. /\ Receives(c, "PORT_STATUS", "handshake") /\ Read(c)
    BY DEF EarlyPortStatus
  <1>2. /\ toController[c] \in Seq(ToController) /\ toController[c] # <<>>
        /\ Tail(toController[c]) \in Seq(ToController) /\ Head(toController[c]) \in ToController
        /\ Head(toController[c]).type = "PORT_STATUS" /\ conn[c].stage = "handshake" /\ conn[c] \in Connection
        /\ toController' = [toController EXCEPT ![c] = Tail(toController[c])]
        /\ LogFine(conn[c], log[c]) /\ StageFine(conn[c], toController[c])
    BY <1>1, ReadUse
  <1>3. PICK q \in Seq(ToController) : q = toController[c]
    BY <1>2
  <1>4. PICK m \in ToController : m = Head(q)
    BY <1>2, <1>3
  <1>5. q # <<>> /\ Tail(q) \in Seq(ToController) /\ m.type = "PORT_STATUS" /\ m \in Status
    BY <1>2, <1>3, <1>4, StatusMessage
  <1>6. PICK r : r = IF conn[c].dpid = NoDpid THEN conn[c]
                     ELSE [conn[c] EXCEPT !.deferred = Append(conn[c].deferred, m)]
    OBVIOUS
  <1>7. conn' = [conn EXCEPT ![c] = r]
    <2>1. CASE conn[c].dpid = NoDpid
      BY <2>1, <1>0, <1>6 DEF EarlyPortStatus, TypeOK
    <2>2. CASE conn[c].dpid # NoDpid
      BY <2>2, <1>0, <1>3, <1>4, <1>6 DEF EarlyPortStatus, TypeOK
    <2> QED
      BY <2>1, <2>2
  <1>8. conn[c].original \in Ports /\ conn[c].deferred \in Seq(Status) /\ conn[c].deferred \in Seq(ToController)
        /\ After(conn[c].original, conn[c].deferred) \in Ports
    BY <1>2, KeptPorts
  <1>9. /\ r \in Connection /\ r.stage = "handshake" /\ r.dpid = conn[c].dpid /\ r.barrier = conn[c].barrier
        /\ r.delta = conn[c].delta /\ r.masks = conn[c].masks /\ r.original = conn[c].original
        /\ r.sender = conn[c].sender
    <2>1. CASE conn[c].dpid = NoDpid
      BY <2>1, <1>2, <1>6
    <2>2. CASE conn[c].dpid # NoDpid
      <3>1. PICK s \in Seq(Status) : s = Append(conn[c].deferred, m)
        BY <1>5, <1>8, AppendFacts
      <3>2. r = [conn[c] EXCEPT !.deferred = s]
        BY <2>2, <1>6, <3>1
      <3> QED
        BY <3>2, <1>2 DEF Connection
    <2> QED
      BY <2>1, <2>2
  <1>10. conn[c].dpid # NoDpid => r.deferred = Append(conn[c].deferred, m)
    BY <1>2, <1>6 DEF Connection
  <1>11. LogFine(r, log[c]) /\ StageFine(r, Tail(q))
    BY <1>2, <1>9 DEF LogFine, StageFine
  <1>12. ASSUME NEW e \in Switches \cup {NoDpid}, Own(conn[c], q, e) PROVE Own(r, Tail(q), e)
    <2>1. r.dpid \in {NoDpid, e}
      BY <1>9, <1>12 DEF Own
    <2> QED
      BY <1>5, <1>12, <2>1, OwnTail
  <1>13. ASSUME NEW d \in Switches, Good(conn[c], q, known[c], ports[d])
         PROVE  Good(r, Tail(q), known[c], ports[d])
    <2>1. ASSUME r.barrier = TRUE PROVE After(After(r.original, r.deferred), Tail(q)) = ports[d]
      <3>1. conn[c].dpid # NoDpid
        BY <1>2, <1>9, <2>1, OfAssumption DEF StageFine
      <3>2. PICK w \in Ports : w = After(conn[c].original, conn[c].deferred)
        BY <1>8
      <3>3. After(w, q) = ports[d]
        BY <1>2, <1>9, <1>13, <2>1, <3>2 DEF Good
      <3>4. After(w, q) = After([w EXCEPT ![m.port] = m.state], Tail(q))
        BY <1>4, <1>5, ReadStatus
      <3>5. After(conn[c].original, Append(conn[c].deferred, m)) = [w EXCEPT ![m.port] = m.state]
        BY <1>5, <1>8, <3>2, AddStatus
      <3> QED
        BY <1>9, <1>10, <3>1, <3>3, <3>4, <3>5
    <2>2. \A k \in DOMAIN Tail(q) : Tail(q)[k].type = "FEATURES_REPLY" => AfterFrom(Tail(q)[k].ports, Tail(q), k) = ports[d]
      BY <1>5, <1>13, GoodTail DEF Good
    <2> QED
      BY <1>9, <2>1, <2>2 DEF Good
  <1>14. NexusOK' /\ connections' \in [Switches -> Conns \cup {NoConn}]
    <2>1. connections' = connections
      BY DEF EarlyPortStatus
    <2> QED
      BY <1>2, <1>7, <1>9, <2>1, NexusSame
  <1>15. log' = [log EXCEPT ![c] = log[c]] /\ known' = [known EXCEPT ![c] = known[c]]
    BY <1>0 DEF TypeOK, EarlyPortStatus
  <1>16. log[c] \in Seq(Events) /\ known[c] \in Ports
    BY <1>0, TypeUse
  <1>17. UNCHANGED switchVars /\ toSwitch' \in [Conns -> Seq(ToSwitch)]
    BY <1>0 DEF EarlyPortStatus, TypeOK
  <1> QED
    BY <1>2, <1>3, <1>5, <1>7, <1>9, <1>11, <1>12, <1>13, <1>14, <1>15, <1>16, <1>17, OneConnection

LEMMA EventTypes == "up" \in Events /\ "status" \in Events /\ "down" \in Events
  BY DEF Events

LEMMA LogStatus ==
    ASSUME NEW r, NEW u, NEW l \in Seq(Events), LogFine(r, l),
           r.stage = "connected", u.stage = "connected", u.sender = r.sender
    PROVE  LogFine(u, Append(l, "status"))
  <1>1. PICK m : m = Append(l, "status")
    OBVIOUS
  <1>2. /\ Len(l) \in Nat /\ Len(m) = Len(l) + 1 /\ m[Len(l) + 1] = "status"
        /\ \A k \in 1 .. Len(l) : m[k] = l[k]
    BY <1>1, EventTypes, AppendFacts
  <1>3. \E i \in 1 .. Len(l) : m[i] = "up"
    BY <1>2 DEF LogFine
  <1>4. ASSUME NEW k \in 1 .. Len(m), m[k] # "status" PROVE k \in 1 .. Len(l) /\ m[k] = l[k]
    BY <1>2, <1>4
  <1>5. ASSUME NEW k \in 1 .. Len(m), m[k] = "status" PROVE \E i \in 1 .. k - 1 : m[i] = "up"
    <2>1. CASE k = Len(l) + 1
      BY <1>2, <1>3, <2>1
    <2>2. CASE k # Len(l) + 1
      <3>1. k \in 1 .. Len(l) /\ l[k] = "status"
        BY <1>2, <1>5, <2>2
      <3>2. PICK i \in 1 .. k - 1 : l[i] = "up"
        BY <3>1 DEF LogFine
      <3>3. i \in 1 .. Len(l)
        BY <1>2, <3>1, <3>2
      <3> QED
        BY <1>2, <3>2, <3>3
    <2> QED
      BY <2>1, <2>2
  <1>6. u.sender = "idle" => \A k \in 1 .. Len(m) : m[k] # "down"
    <2>1. ASSUME u.sender = "idle", NEW k \in 1 .. Len(m), m[k] = "down" PROVE FALSE
      <3>1. k \in 1 .. Len(l) /\ l[k] = "down"
        BY <1>4, <2>1
      <3> QED
        BY <2>1, <3>1 DEF LogFine
    <2> QED
      BY <2>1
  <1>7. LogFine(u, m)
    <2>1. \E k \in 1 .. Len(m) : m[k] = "up"
      BY <1>2, <1>3
    <2>2. \A j, k \in 1 .. Len(m) : m[j] = "up" /\ m[k] = "up" => j = k
      BY <1>4 DEF LogFine
    <2>3. \A k \in 1 .. Len(m) : m[k] = "down" => u.sender = "done"
      BY <1>4 DEF LogFine
    <2>4. \A j, k \in 1 .. Len(m) : ~ (m[j] = "down" /\ m[k] = "down" /\ j # k)
      BY <1>4 DEF LogFine
    <2>5. u.sender = "idle" => \A k \in 1 .. Len(m) : m[k] = "up" => k = 1
      <3>1. ASSUME u.sender = "idle", NEW k \in 1 .. Len(m), m[k] = "up" PROVE k = 1
        <4>1. k \in 1 .. Len(l) /\ l[k] = "up"
          BY <1>4, <3>1
        <4> QED
          BY <3>1, <4>1 DEF LogFine
      <3> QED
        BY <3>1
    <2> QED
      BY <1>5, <1>6, <2>1, <2>2, <2>3, <2>4, <2>5 DEF LogFine
  <1> QED
    BY <1>1, <1>7

(* One of the threads raises ConnectionDown.                               *)
LEMMA LogDown ==
    ASSUME NEW r, NEW u, NEW l \in Seq(Events), LogFine(r, l),
           \/ r.stage = "closing" /\ u.stage = "closed" /\ u.sender = r.sender
           \/ r.sender = "raising" /\ u.sender = "done" /\ u.stage = r.stage
    PROVE  LogFine(u, Append(l, "down"))
  <1>1. PICK m : m = Append(l, "down")
    OBVIOUS
  <1>2. /\ Len(l) \in Nat /\ Len(m) = Len(l) + 1 /\ m[Len(l) + 1] = "down"
        /\ \A k \in 1 .. Len(l) : m[k] = l[k]
    BY <1>1, EventTypes, AppendFacts
  <1>3. ASSUME NEW k \in 1 .. Len(m), m[k] # "down" PROVE k \in 1 .. Len(l) /\ m[k] = l[k]
    BY <1>2, <1>3
  <1>4. ASSUME NEW k \in 1 .. Len(m), m[k] = "status" PROVE \E i \in 1 .. k - 1 : m[i] = "up"
    <2>1. k \in 1 .. Len(l) /\ l[k] = "status"
      BY <1>3, <1>4
    <2>2. PICK i \in 1 .. k - 1 : l[i] = "up"
      BY <2>1 DEF LogFine
    <2>3. i \in 1 .. Len(l)
      BY <1>2, <2>1, <2>2
    <2> QED
      BY <1>2, <2>2, <2>3
  <1>5. \A k \in 1 .. Len(l) : l[k] = "down" => u.stage = "closed" /\ u.sender = "done"
    BY DEF LogFine
  <1>6. LogFine(u, m)
    <2>1. \A j, k \in 1 .. Len(m) : m[j] = "up" /\ m[k] = "up" => j = k
      BY <1>3 DEF LogFine
    <2>2. u.stage \in {"free", "incoming", "handshake"} => \A k \in 1 .. Len(m) : m[k] # "up"
      BY <1>3 DEF LogFine
    <2>3. u.stage = "connected" => \E k \in 1 .. Len(m) : m[k] = "up"
      <3>1. ASSUME u.stage = "connected" PROVE \E k \in 1 .. Len(m) : m[k] = "up"
        <4>1. PICK k \in 1 .. Len(l) : l[k] = "up"
          BY <3>1 DEF LogFine
        <4> QED
          BY <1>2, <4>1
      <3> QED
        BY <3>1
    <2>4. u.stage = "closed" \/ u.sender = "done"
      OBVIOUS
    <2>5. ASSUME NEW j \in 1 .. Len(m), NEW k \in 1 .. Len(m), m[j] = "down", m[k] = "down", j # k
          PROVE  u.stage = "closed" /\ u.sender = "done"
      <3>1. (j \in 1 .. Len(l) /\ l[j] = "down") \/ (k \in 1 .. Len(l) /\ l[k] = "down")
        BY <1>2, <2>5
      <3> QED
        BY <1>5, <3>1
    <2>6. ASSUME u.sender = "idle", NEW k \in 1 .. Len(m)
          PROVE  (m[k] = "up" => k = 1) /\ (m[k] = "down" => k = Len(m))
      <3>1. ASSUME m[k] = "up" PROVE k = 1
        <4>1. k \in 1 .. Len(l) /\ l[k] = "up"
          BY <1>3, <3>1
        <4>2. r.sender = "idle"
          BY <2>6
        <4> QED
          BY <4>1, <4>2 DEF LogFine
      <3>2. m[k] = "down" => k = Len(m)
        BY <1>2, <1>5, <2>6
      <3> QED
        BY <3>1, <3>2
    <2> QED
      BY <1>4, <2>1, <2>2, <2>3, <2>4, <2>5, <2>6 DEF LogFine
  <1> QED
    BY <1>1, <1>6

LEMMA StatusStep ==
    ASSUME OfInv, NEW c \in Conns, handle_PORT_STATUS(c) PROVE OfInv'
  <1>0. TypeOK
    BY DEF OfInv
  <1>1. /\ Receives(c, "PORT_STATUS", "connected") /\ Read(c)
    BY DEF handle_PORT_STATUS
  <1>2. /\ toController[c] \in Seq(ToController) /\ toController[c] # <<>>
        /\ Tail(toController[c]) \in Seq(ToController) /\ Head(toController[c]) \in ToController
        /\ Head(toController[c]).type = "PORT_STATUS" /\ conn[c].stage = "connected" /\ conn[c] \in Connection
        /\ toController' = [toController EXCEPT ![c] = Tail(toController[c])]
        /\ LogFine(conn[c], log[c]) /\ StageFine(conn[c], toController[c])
    BY <1>1, ReadUse
  <1>3. PICK q \in Seq(ToController) : q = toController[c]
    BY <1>2
  <1>4. PICK m \in ToController : m = Head(q)
    BY <1>2, <1>3
  <1>5. q # <<>> /\ Tail(q) \in Seq(ToController) /\ m.type = "PORT_STATUS" /\ m \in Status
        /\ m.port \in PortNos /\ m.state \in PortState
    BY <1>2, <1>3, <1>4, StatusMessage
  <1>6. PICK r \in Connection : r = Tracked(conn[c], m)
    BY <1>2, <1>5, TrackedFacts
  <1>7. conn' = [conn EXCEPT ![c] = r]
    BY <1>3, <1>4, <1>6 DEF handle_PORT_STATUS
  <1>8. SameBut(conn[c], r) /\ View(r) = [View(conn[c]) EXCEPT ![m.port] = m.state]
    BY <1>2, <1>5, <1>6, TrackedFacts
  <1>9. /\ r.stage = "connected" /\ r.dpid = conn[c].dpid /\ r.barrier = conn[c].barrier
        /\ r.disconnected = conn[c].disconnected /\ r.sender = conn[c].sender
    BY <1>2, <1>8 DEF SameBut
  <1>10. log[c] \in Seq(Events) /\ known[c] \in Ports
    BY <1>0, TypeUse
  <1>11. PICK l \in Seq(Events) : l = Append(log[c], "status")
    BY <1>10, EventTypes, AppendFacts
  <1>12. PICK v \in Ports : v = [known[c] EXCEPT ![m.port] = m.state]
    BY <1>5, <1>10 DEF Ports
  <1>13. log' = [log EXCEPT ![c] = l] /\ known' = [known EXCEPT ![c] = v]
    BY <1>0, <1>3, <1>4, <1>11, <1>12 DEF handle_PORT_STATUS, TypeOK
  <1>14. LogFine(r, l)
    BY <1>2, <1>9, <1>10, <1>11, LogStatus
  <1>15. StageFine(r, Tail(q))
    BY <1>2, <1>9 DEF StageFine
  <1>16. ASSUME NEW e \in Switches \cup {NoDpid}, Own(conn[c], q, e) PROVE Own(r, Tail(q), e)
    <2>1. r.dpid \in {NoDpid, e}
      BY <1>9, <1>16 DEF Own
    <2> QED
      BY <1>5, <1>16, <2>1, OwnTail
  <1>17. ASSUME NEW d \in Switches, Good(conn[c], q, known[c], ports[d])
         PROVE  Good(r, Tail(q), v, ports[d])
    <2>1. PICK w \in Ports : w = View(conn[c])
      BY <1>2, ViewType
    <2>2. After(w, q) = ports[d] /\ After(known[c], q) = ports[d]
      BY <1>2, <1>17, <2>1 DEF Good
    <2>3. After(w, q) = After([w EXCEPT ![m.port] = m.state], Tail(q))
      BY <1>4, <1>5, ReadStatus
    <2>4. After(known[c], q) = After([known[c] EXCEPT ![m.port] = m.state], Tail(q))
      BY <1>4, <1>5, <1>10, ReadStatus
    <2>5. After(View(r), Tail(q)) = ports[d] /\ After(v, Tail(q)) = ports[d]
      BY <1>8, <1>12, <2>1, <2>2, <2>3, <2>4
    <2>6. \A k \in DOMAIN Tail(q) : Tail(q)[k].type = "FEATURES_REPLY" => AfterFrom(Tail(q)[k].ports, Tail(q), k) = ports[d]
      BY <1>5, <1>17, GoodTail DEF Good
    <2> QED
      BY <1>9, <2>5, <2>6 DEF Good
  <1>18. NexusOK' /\ connections' \in [Switches -> Conns \cup {NoConn}]
    <2>1. connections' = connections
      BY DEF handle_PORT_STATUS
    <2> QED
      BY <1>2, <1>7, <1>9, <2>1, NexusSame
  <1>19. UNCHANGED switchVars /\ toSwitch' \in [Conns -> Seq(ToSwitch)]
    BY <1>0 DEF handle_PORT_STATUS, TypeOK
  <1> QED
    BY <1>2, <1>3, <1>5, <1>7, <1>9, <1>13, <1>14, <1>15, <1>16, <1>17, <1>18, <1>19, OneConnection

(* A connection is announced, with n changes kept.                         *)
LEMMA LogUp ==
    ASSUME NEW r, NEW u, NEW l \in Seq(Events), LogFine(r, l), NEW n \in Nat,
           r.stage = "handshake", u.stage = "connected", u.sender = r.sender
    PROVE  \E m \in Seq(Events) :
             /\ m = l \o <<"up">> \o [k \in 1 .. n |-> "status"]
             /\ LogFine(u, m)
  <1>1. PICK s : s = [k \in 1 .. n |-> "status"]
    OBVIOUS
  <1>2. s \in Seq(Events) /\ Len(s) = n /\ \A k \in 1 .. n : s[k] = "status"
    BY <1>1, EventTypes
  <1>3. <<"up">> \in Seq(Events)
    BY EventTypes
  <1>4. PICK a \in Seq(Events) : a = <<"up">> /\ Len(a) = 1 /\ a[1] = "up"
    BY <1>3
  <1>5. PICK b \in Seq(Events) : b = l \o a
    BY ConcatFacts
  <1>6. /\ Len(l) \in Nat /\ Len(b) = Len(l) + 1 /\ b[Len(l) + 1] = "up"
        /\ \A k \in 1 .. Len(l) : b[k] = l[k]
    BY <1>4, <1>5, ConcatFacts
  <1>7. PICK m \in Seq(Events) : m = b \o s
    BY <1>2, ConcatFacts
  <1>8. /\ Len(m) = Len(b) + n /\ \A k \in 1 .. Len(b) : m[k] = b[k]
        /\ \A k \in Len(b) + 1 .. Len(b) + n : m[k] = "status"
    <2>1. Len(m) = Len(b) + n /\ \A k \in 1 .. Len(b) : m[k] = b[k]
      BY <1>2, <1>7, ConcatFacts
    <2>2. ASSUME NEW k \in Len(b) + 1 .. Len(b) + n PROVE m[k] = "status"
      <3>1. Len(b) \in Nat /\ k - Len(b) \in 1 .. n /\ k = Len(b) + (k - Len(b))
        BY <1>6
      <3>2. m[Len(b) + (k - Len(b))] = s[k - Len(b)]
        BY <1>2, <1>7, <3>1, ConcatFacts
      <3> QED
        BY <1>2, <3>1, <3>2
    <2> QED
      BY <2>1, <2>2
  <1>9. \A k \in 1 .. Len(l) : l[k] # "up" /\ l[k] # "status"
    <2>1. \A k \in 1 .. Len(l) : l[k] # "up"
      BY DEF LogFine
    <2>2. ASSUME NEW k \in 1 .. Len(l), l[k] = "status" PROVE FALSE
      <3>1. PICK i \in 1 .. k - 1 : l[i] = "up"
        BY <2>2 DEF LogFine
      <3> QED
        BY <1>6, <2>1, <3>1
    <2> QED
      BY <2>1, <2>2
  <1>10. \A k \in 1 .. Len(l) : l[k] = "down" => r.sender = "done"
    BY DEF LogFine
  <1>11. r.sender = "idle" => Len(l) = 0
    <2>1. ASSUME r.sender = "idle", Len(l) # 0 PROVE FALSE
      <3>1. 1 \in 1 .. Len(l) /\ l[1] \in Events
        BY <1>6, <2>1
      <3> QED
        BY <1>9, <1>10, <2>1, <3>1 DEF Events
    <2> QED
      BY <2>1
  <1>12. \A k \in 1 .. Len(m) : \/ k \in 1 .. Len(l) /\ m[k] = l[k]
                                \/ k = Len(l) + 1 /\ m[k] = "up"
                                \/ k > Len(l) + 1 /\ m[k] = "status"
    BY <1>6, <1>8
  <1>13. Len(l) + 1 \in 1 .. Len(m) /\ m[Len(l) + 1] = "up"
    BY <1>6, <1>8
  <1>14. LogFine(u, m)
    <2>1. \A k \in 1 .. Len(m) : m[k] = "up" => k = Len(l) + 1
      BY <1>9, <1>12
    <2>2. \A j, k \in 1 .. Len(m) : m[j] = "up" /\ m[k] = "up" => j = k
      BY <2>1
    <2>3. ASSUME NEW k \in 1 .. Len(m), m[k] = "status" PROVE \E i \in 1 .. k - 1 : m[i] = "up"
      <3>1. k > Len(l) + 1
        BY <1>9, <1>12, <2>3
      <3>2. Len(l) + 1 \in 1 .. k - 1
        BY <1>6, <3>1
      <3> QED
        BY <1>13, <3>2
    <2>4. \A k \in 1 .. Len(m) : m[k] = "down" => k \in 1 .. Len(l) /\ l[k] = "down"
      BY <1>12
    <2>5. \A k \in 1 .. Len(m) : m[k] = "down" => u.sender = "done"
      BY <1>10, <2>4
    <2>6. \A j, k \in 1 .. Len(m) : ~ (m[j] = "down" /\ m[k] = "down" /\ j # k)
      BY <2>4 DEF LogFine
    <2>7. u.sender = "idle" => \A k \in 1 .. Len(m) : m[k] = "up" => k = 1
      BY <1>11, <2>1
    <2> QED
      BY <1>13, <2>2, <2>3, <2>5, <2>6, <2>7 DEF LogFine
  <1> QED
    BY <1>1, <1>4, <1>5, <1>7, <1>14

(* The barrier is answered or refused.                                     *)
LEMMA FinishStep ==
    ASSUME OfInv, NEW c \in Conns, NEW t, t # "PORT_STATUS",
           Receives(c, t, "handshake"), Read(c), conn[c].barrier,
           finish_connecting(c), UNCHANGED switchVars
    PROVE  OfInv'
  <1>0. TypeOK
    BY DEF OfInv
  <1>2. /\ toController[c] \in Seq(ToController) /\ toController[c] # <<>>
        /\ Tail(toController[c]) \in Seq(ToController) /\ Head(toController[c]) \in ToController
        /\ Head(toController[c]).type = t /\ conn[c].stage = "handshake" /\ conn[c] \in Connection
        /\ toController' = [toController EXCEPT ![c] = Tail(toController[c])]
        /\ LogFine(conn[c], log[c]) /\ StageFine(conn[c], toController[c])
    BY ReadUse
  <1>3. PICK q \in Seq(ToController) : q = toController[c]
    BY <1>2
  <1>4. q # <<>> /\ Tail(q) \in Seq(ToController) /\ Head(q).type # "PORT_STATUS"
    BY <1>2, <1>3
  <1>5. conn[c].barrier = TRUE
    BY <1>2 DEF Connection
  <1>6. conn[c].dpid \in Switches /\ conn[c].delta = NoPorts /\ conn[c].masks = {}
    BY <1>2, <1>5 DEF StageFine
  <1>7. PICK kept \in Seq(Status) : kept = conn[c].deferred
    BY <1>2, KeptPorts
  <1>8. PICK r : r = [[conn[c] EXCEPT !.stage = "connected"] EXCEPT !.deferred = <<>>]
    OBVIOUS
  <1>9. r \in Connection
    <2>1. <<>> \in Seq(Status)
      OBVIOUS
    <2> QED
      BY <1>2, <1>8, <2>1 DEF Connection
  <1>10. /\ r.stage = "connected" /\ r.dpid = conn[c].dpid /\ r.barrier = TRUE
         /\ r.delta = NoPorts /\ r.masks = {} /\ r.original = conn[c].original
         /\ r.sender = conn[c].sender
    BY <1>2, <1>5, <1>6, <1>8 DEF Connection
  <1>11. PICK up \in Connection : up = FoldLeft(Tracked, r, kept)
    BY <1>9, TrackedAll
  <1>12. SameBut(r, up) /\ View(up) = After(View(r), kept)
    BY <1>9, <1>11, TrackedAll
  <1>13. conn[c].original \in Ports /\ After(conn[c].original, kept) \in Ports
    BY <1>2, <1>7, KeptPorts
  <1>14. View(r) = conn[c].original
    BY <1>10, <1>13 DEF View, NoPorts, Ports
  <1>15. send(c, up, [connections EXCEPT ![up.dpid] = c], <<>>)
    <2>1. [conn[c] EXCEPT !.stage = "connected"].dpid = up.dpid
      BY <1>2, <1>10, <1>12 DEF Connection, SameBut
    <2>2. [conn[c] EXCEPT !.stage = "connected"].deferred = kept
      BY <1>2, <1>7 DEF Connection
    <2> QED
      BY <1>8, <1>11, <2>1, <2>2 DEF finish_connecting
  <1>16. toSwitch' \in [Conns -> Seq(ToSwitch)]
    BY <1>0, <1>15, SwitchMessages, Sent
  <1>17. PICK u \in Connection :
                /\ conn' = [conn EXCEPT ![c] = u] /\ SameButEnd(up, u)
                /\ \/ u = up /\ connections' = [connections EXCEPT ![up.dpid] = c]
                   \/ u.disconnected = TRUE /\ connections' = Without([connections EXCEPT ![up.dpid] = c], up.dpid)
    BY <1>0, <1>15, SwitchMessages, Sent
  <1>18. /\ u.stage = "connected" /\ u.dpid = conn[c].dpid /\ u.dpid = up.dpid
         /\ u.sender = conn[c].sender
         /\ View(u) = After(conn[c].original, kept)
    <2>1. View(u) = View(up)
      BY <1>17 DEF View, SameButEnd
    <2> QED
      BY <1>10, <1>12, <1>14, <1>17, <2>1 DEF SameBut, SameButEnd
  <1>19. NexusOK' /\ connections' \in [Switches -> Conns \cup {NoConn}]
    <2>1. CASE u = up /\ connections' = [connections EXCEPT ![up.dpid] = c]
      BY <1>17, <1>18, <2>1, NexusEntered
    <2>2. CASE u.disconnected = TRUE /\ connections' = Without([connections EXCEPT ![up.dpid] = c], up.dpid)
      <3>1. Without([connections EXCEPT ![up.dpid] = c], up.dpid) = Without(connections, u.dpid)
        BY <1>0, <1>18 DEF Without, TypeOK
      <3> QED
        BY <1>17, <1>18, <2>2, <3>1, NexusWithout
    <2> QED
      BY <1>17, <2>1, <2>2
  <1>20. /\ known' = [known EXCEPT ![c] = After(conn[c].original, kept)]
         /\ log' = [log EXCEPT ![c] = log[c] \o <<"up">> \o [k \in 1 .. Len(kept) |-> "status"]]
    <2>2. [conn[c] EXCEPT !.stage = "connected"].deferred = kept
          /\ [conn[c] EXCEPT !.stage = "connected"].original = conn[c].original
      BY <1>2, <1>7 DEF Connection
    <2>3. log' = [log EXCEPT ![c] = log[c] \o <<"up">> \o [k \in 1 .. Len(kept) |-> "status"]]
      BY <2>2 DEF finish_connecting
    <2>4. known' = [known EXCEPT ![c] = After(conn[c].original, kept)]
      BY <2>2 DEF finish_connecting
    <2> QED
      BY <2>3, <2>4
  <1>21. PICK l \in Seq(Events) :
             /\ l = log[c] \o <<"up">> \o [k \in 1 .. Len(kept) |-> "status"]
             /\ LogFine(u, l)
    <2>1. PICK n \in Nat : n = Len(kept)
      OBVIOUS
    <2>2. log[c] \in Seq(Events)
      BY <1>0, TypeUse
    <2>3. \E l \in Seq(Events) :
             /\ l = log[c] \o <<"up">> \o [k \in 1 .. n |-> "status"]
             /\ LogFine(u, l)
      BY <1>2, <1>18, <2>2, LogUp, Zenon
    <2> QED
      BY <2>1, <2>3, Zenon
  <1>22. LogFine(u, l)
    BY <1>21
  <1>23. StageFine(u, Tail(q))
    BY <1>6, <1>18 DEF StageFine
  <1>24. ASSUME NEW e \in Switches \cup {NoDpid}, Own(conn[c], q, e) PROVE Own(u, Tail(q), e)
    <2>1. u.dpid \in {NoDpid, e}
      BY <1>18, <1>24 DEF Own
    <2> QED
      BY <1>4, <1>24, <2>1, OwnTail
  <1>25. ASSUME NEW d \in Switches, Good(conn[c], q, known[c], ports[d])
         PROVE  Good(u, Tail(q), After(conn[c].original, kept), ports[d])
    <2>1. After(After(conn[c].original, kept), q) = ports[d]
      BY <1>2, <1>5, <1>7, <1>25 DEF Good
    <2>2. After(After(conn[c].original, kept), Tail(q)) = ports[d]
      BY <1>4, <1>13, <2>1, ReadOther
    <2>3. \A k \in DOMAIN Tail(q) : Tail(q)[k].type = "FEATURES_REPLY" => AfterFrom(Tail(q)[k].ports, Tail(q), k) = ports[d]
      BY <1>4, <1>25, GoodTail DEF Good
    <2> QED
      BY <1>18, <2>2, <2>3 DEF Good
  <1>26. log' = [log EXCEPT ![c] = l]
    BY <1>20, <1>21
  <1>27. PICK v \in Ports : v = After(conn[c].original, kept)
    BY <1>13
  <1>28. /\ known' = [known EXCEPT ![c] = v] /\ u.stage # "free"
         /\ toController' = [toController EXCEPT ![c] = Tail(q)]
    BY <1>2, <1>3, <1>18, <1>20, <1>27
  <1>29. \A e \in Switches \cup {NoDpid} : Own(conn[c], toController[c], e) => Own(u, Tail(q), e)
    BY <1>3, <1>24
  <1>30. \A d \in Switches : Good(conn[c], toController[c], known[c], ports[d]) => Good(u, Tail(q), v, ports[d])
    BY <1>3, <1>25, <1>27
  <1> QED
    BY <1>4, <1>16, <1>17, <1>19, <1>22, <1>23, <1>26, <1>28, <1>29, <1>30, OneConnection

LEMMA CloseStep ==
    ASSUME OfInv, NEW c \in Conns, close(c) PROVE OfInv'
  <1>0. TypeOK /\ conn[c] \in Connection /\ log[c] \in Seq(Events) /\ known[c] \in Ports
    BY TypeUse DEF OfInv
  <1>1. PICK s \in {"closing", "closed"} : s = IF Tells(conn[c]) THEN "closing" ELSE "closed"
    OBVIOUS
  <1>2. PICK r : r = [conn[c] EXCEPT !.disconnected = TRUE, !.stage = s]
    OBVIOUS
  <1>3. /\ r \in Connection /\ r.stage \in {"closing", "closed"} /\ r.dpid = conn[c].dpid
        /\ r.barrier = conn[c].barrier /\ r.sender = conn[c].sender
    BY <1>0, <1>2 DEF Connection
  <1>4. conn' = [conn EXCEPT ![c] = r]
    BY <1>1, <1>2 DEF close
  <1>5. toController' = [toController EXCEPT ![c] = <<>>] /\ <<>> \in Seq(ToController)
    BY DEF close
  <1>6. LogFine(conn[c], log[c]) /\ StageFine(conn[c], toController[c])
        /\ conn[c].stage \in {"handshake", "connected"}
    BY DEF OfInv, ConnFine, close
  <1>8. LogFine(r, log[c]) /\ StageFine(r, <<>>)
    BY <1>3, <1>6 DEF LogFine, StageFine
  <1>9. \A e \in Switches \cup {NoDpid} : Own(conn[c], toController[c], e) => Own(r, <<>>, e)
    BY <1>3 DEF Own
  <1>10. \A d \in Switches : Good(r, <<>>, known[c], ports[d])
    BY <1>3 DEF Good
  <1>11. NexusOK' /\ connections' \in [Switches -> Conns \cup {NoConn}]
    <2>1. connections' = Without(connections, r.dpid)
      BY <1>3 DEF close
    <2> QED
      BY <1>3, <1>4, <2>1, NexusWithout
  <1>12. log' = [log EXCEPT ![c] = log[c]] /\ known' = [known EXCEPT ![c] = known[c]]
    BY <1>0 DEF close, TypeOK
  <1>13. UNCHANGED switchVars /\ toSwitch' \in [Conns -> Seq(ToSwitch)]
    BY <1>0 DEF close, TypeOK
  <1> QED
    BY <1>0, <1>3, <1>4, <1>5, <1>8, <1>9, <1>10, <1>11, <1>12, <1>13, OneConnection

(* A thread goes on with disconnect(): of connection c only the stage and  *)
(* the flags change, and the nexus may lose its switch.                    *)
LEMMA Disconnecting ==
    ASSUME OfInv, NEW c \in Conns, NEW r \in Connection, NEW l \in Seq(Events),
           conn' = [conn EXCEPT ![c] = r], log' = [log EXCEPT ![c] = l], LogFine(r, l),
           UNCHANGED <<switchVars, toSwitch, toController, known>>,
           \/ r.stage = conn[c].stage
           \/ conn[c].stage = "closing" /\ r.stage = "closed",
           conn[c].stage # "free", r.dpid = conn[c].dpid, r.barrier = conn[c].barrier,
           r.original = conn[c].original, r.delta = conn[c].delta, r.masks = conn[c].masks,
           r.deferred = conn[c].deferred,
           \/ connections' = connections /\ r.disconnected = conn[c].disconnected
           \/ connections' = Without(connections, r.dpid) /\ r.disconnected = TRUE
    PROVE  OfInv'
  <1>0. /\ TypeOK /\ conn[c] \in Connection /\ known[c] \in Ports
        /\ toController[c] \in Seq(ToController)
    BY TypeUse DEF OfInv
  <1>1. /\ toController' = [toController EXCEPT ![c] = toController[c]]
        /\ known' = [known EXCEPT ![c] = known[c]]
        /\ toSwitch' \in [Conns -> Seq(ToSwitch)]
    BY <1>0 DEF TypeOK
  <1>2. StageFine(r, toController[c]) /\ r.stage # "free"
    <2>1. StageFine(conn[c], toController[c])
      BY DEF OfInv, ConnFine
    <2> QED
      BY <2>1 DEF StageFine
  <1>3. \A e \in Switches \cup {NoDpid} : Own(conn[c], toController[c], e) => Own(r, toController[c], e)
    BY DEF Own
  <1>4. ASSUME NEW d \in Switches, Good(conn[c], toController[c], known[c], ports[d])
        PROVE  Good(r, toController[c], known[c], ports[d])
    <2>1. View(r) = View(conn[c])
      BY DEF View
    <2> QED
      BY <1>4, <2>1 DEF Good
  <1>5. NexusOK' /\ connections' \in [Switches -> Conns \cup {NoConn}]
    <2>1. CASE connections' = connections /\ r.disconnected = conn[c].disconnected
      BY <2>1, NexusSame
    <2>2. CASE connections' = Without(connections, r.dpid) /\ r.disconnected = TRUE
      BY <2>2, NexusWithout
    <2> QED
      BY <2>1, <2>2
  <1> QED
    BY <1>0, <1>1, <1>2, <1>3, <1>4, <1>5, OneConnection

LEMMA RaiseDownStep ==
    ASSUME OfInv, NEW c \in Conns, RaiseDown(c) PROVE OfInv'
  <1>0. TypeOK /\ conn[c] \in Connection /\ log[c] \in Seq(Events) /\ LogFine(conn[c], log[c])
    BY TypeUse DEF OfInv, ConnFine
  <1>1. PICK r : r = [conn[c] EXCEPT !.raised = TRUE, !.stage = "closed"]
    OBVIOUS
  <1>2. /\ r \in Connection /\ r.stage = "closed" /\ r.sender = conn[c].sender
        /\ r.dpid = conn[c].dpid /\ r.barrier = conn[c].barrier
        /\ r.original = conn[c].original /\ r.delta = conn[c].delta /\ r.masks = conn[c].masks
        /\ r.deferred = conn[c].deferred /\ r.disconnected = conn[c].disconnected
    BY <1>0, <1>1 DEF Connection
  <1>3. conn' = [conn EXCEPT ![c] = r] /\ conn[c].stage = "closing" /\ conn[c].stage # "free"
    BY <1>0, <1>1 DEF RaiseDown, TypeOK
  <1>4. PICK l \in Seq(Events) : l = Append(log[c], "down")
    BY <1>0, EventTypes, AppendFacts
  <1>5. LogFine(r, l)
    BY <1>0, <1>2, <1>3, <1>4, LogDown
  <1>6. log' = [log EXCEPT ![c] = l]
    BY <1>4 DEF RaiseDown
  <1>7. UNCHANGED <<switchVars, toSwitch, toController, known>> /\ connections' = connections
    BY DEF RaiseDown
  <1> QED
    BY <1>2, <1>3, <1>5, <1>6, <1>7, Disconnecting

LEMMA SenderDisconnectsStep ==
    ASSUME OfInv, NEW c \in Conns, SenderDisconnects(c) PROVE OfInv'
  <1>0. TypeOK /\ conn[c] \in Connection /\ log[c] \in Seq(Events) /\ LogFine(conn[c], log[c])
    BY TypeUse DEF OfInv, ConnFine
  <1>1. PICK r : r = [conn[c] EXCEPT !.disconnected = TRUE, !.sender = "disconnected"]
    OBVIOUS
  <1>2. /\ r \in Connection /\ r.stage = conn[c].stage /\ r.sender = "disconnected"
        /\ r.dpid = conn[c].dpid /\ r.barrier = conn[c].barrier
        /\ r.original = conn[c].original /\ r.delta = conn[c].delta /\ r.masks = conn[c].masks
        /\ r.deferred = conn[c].deferred /\ r.disconnected = TRUE
    BY <1>0, <1>1 DEF Connection
  <1>3. conn' = [conn EXCEPT ![c] = r] /\ conn[c].stage # "free" /\ conn[c].sender = "idle"
    BY <1>0, <1>1 DEF SenderDisconnects, TypeOK
  <1>4. LogFine(r, log[c])
    BY <1>0, <1>2, <1>3 DEF LogFine
  <1>5. log' = [log EXCEPT ![c] = log[c]]
    BY <1>0 DEF SenderDisconnects, TypeOK
  <1>6. /\ UNCHANGED <<switchVars, toSwitch, toController, known>>
        /\ connections' = Without(connections, r.dpid)
    BY <1>2 DEF SenderDisconnects
  <1> QED
    BY <1>0, <1>2, <1>3, <1>4, <1>5, <1>6, Disconnecting

LEMMA SenderTestsStep ==
    ASSUME OfInv, NEW c \in Conns, SenderTests(c) PROVE OfInv'
  <1>0. /\ TypeOK /\ conn[c] \in Connection /\ log[c] \in Seq(Events) /\ LogFine(conn[c], log[c])
        /\ StageFine(conn[c], toController[c])
    BY TypeUse DEF OfInv, ConnFine
  <1>1. PICK s \in {"raising", "done"} : s = IF Tells(conn[c]) THEN "raising" ELSE "done"
    OBVIOUS
  <1>2. PICK r : r = [conn[c] EXCEPT !.sender = s]
    OBVIOUS
  <1>3. /\ r \in Connection /\ r.stage = conn[c].stage /\ r.sender \in {"raising", "done"}
        /\ r.dpid = conn[c].dpid /\ r.barrier = conn[c].barrier
        /\ r.original = conn[c].original /\ r.delta = conn[c].delta /\ r.masks = conn[c].masks
        /\ r.deferred = conn[c].deferred /\ r.disconnected = conn[c].disconnected
    BY <1>0, <1>2 DEF Connection
  <1>4. conn' = [conn EXCEPT ![c] = r] /\ conn[c].sender = "disconnected"
    BY <1>0, <1>1, <1>2 DEF SenderTests, TypeOK
  <1>5. LogFine(r, log[c])
    BY <1>0, <1>3, <1>4 DEF LogFine
  <1>6. log' = [log EXCEPT ![c] = log[c]]
    BY <1>0 DEF SenderTests, TypeOK
  <1>7. UNCHANGED <<switchVars, toSwitch, toController, known>> /\ connections' = connections
    BY DEF SenderTests
  <1>8. conn[c].stage # "free"
    BY <1>0, <1>4 DEF StageFine
  <1> QED
    BY <1>0, <1>3, <1>4, <1>5, <1>6, <1>7, <1>8, Disconnecting

LEMMA SenderRaisesStep ==
    ASSUME OfInv, NEW c \in Conns, SenderRaises(c) PROVE OfInv'
  <1>0. /\ TypeOK /\ conn[c] \in Connection /\ log[c] \in Seq(Events) /\ LogFine(conn[c], log[c])
        /\ StageFine(conn[c], toController[c])
    BY TypeUse DEF OfInv, ConnFine
  <1>1. PICK r : r = [conn[c] EXCEPT !.raised = TRUE, !.sender = "done"]
    OBVIOUS
  <1>2. /\ r \in Connection /\ r.stage = conn[c].stage /\ r.sender = "done"
        /\ r.dpid = conn[c].dpid /\ r.barrier = conn[c].barrier
        /\ r.original = conn[c].original /\ r.delta = conn[c].delta /\ r.masks = conn[c].masks
        /\ r.deferred = conn[c].deferred /\ r.disconnected = conn[c].disconnected
    BY <1>0, <1>1 DEF Connection
  <1>3. conn' = [conn EXCEPT ![c] = r] /\ conn[c].sender = "raising"
    BY <1>0, <1>1 DEF SenderRaises, TypeOK
  <1>4. PICK l \in Seq(Events) : l = Append(log[c], "down")
    BY <1>0, EventTypes, AppendFacts
  <1>5. LogFine(r, l)
    BY <1>0, <1>2, <1>3, <1>4, LogDown
  <1>6. log' = [log EXCEPT ![c] = l]
    BY <1>4 DEF SenderRaises
  <1>7. UNCHANGED <<switchVars, toSwitch, toController, known>> /\ connections' = connections
    BY DEF SenderRaises
  <1>8. conn[c].stage # "free"
    BY <1>0, <1>3 DEF StageFine
  <1> QED
    BY <1>2, <1>3, <1>5, <1>6, <1>7, <1>8, Disconnecting

-----------------------------------------------------------------------------
(* Steps of the switches                                                   *)

LEMMA NoConnOutside == NoConn \notin Conns
  BY OfAssumption DEF Conns, NoConn

LEMMA ConnectStep ==
    ASSUME OfInv, NEW d \in Switches, NEW c \in Conns, Connect(d, c) PROVE OfInv'
  <1>0. TypeOK /\ conn[c] \in Connection /\ ConnFine(c)
    BY TypeUse DEF OfInv
  <1>1. PICK r : r = [conn[c] EXCEPT !.stage = "incoming"]
    OBVIOUS
  <1>2. /\ r \in Connection /\ r.stage = "incoming" /\ r.dpid = conn[c].dpid
        /\ r.barrier = conn[c].barrier /\ r.sender = conn[c].sender /\ conn[c].stage = "free"
    BY <1>0, <1>1 DEF Connection, Connect
  <1>3. conn' = [conn EXCEPT ![c] = r]
    BY <1>0, <1>1 DEF Connect, TypeOK
  <1>4. PICK q \in Seq(ToController) : q = <<Msg("HELLO")>>
    <2>1. Msg("HELLO") \in ToController
      BY DEF ToController
    <2>2. <<Msg("HELLO")>> \in Seq(ToController)
      BY <2>1
    <2> QED
      BY <2>2, Zenon
  <1>5. DOMAIN q = {1} /\ q[1].type = "HELLO"
    BY <1>4 DEF Msg
  <1>6. /\ toController' = [toController EXCEPT ![c] = q] /\ swconn' = [swconn EXCEPT ![d] = c]
        /\ swconn[d] = NoConn
        /\ UNCHANGED <<connections, ports, gone, toSwitch, changes, log, known>>
    BY <1>4 DEF Connect
  <1>7. /\ conn'[c] = r /\ toController'[c] = q /\ swconn'[d] = c
        /\ \A b \in Conns : b # c => conn'[b] = conn[b] /\ toController'[b] = toController[b]
        /\ \A e \in Switches : e # d => swconn'[e] = swconn[e]
    BY <1>0, <1>3, <1>6 DEF TypeOK
  <1>8. TypeOK'
    BY <1>0, <1>2, <1>3, <1>6 DEF TypeOK
  <1>9. ASSUME NEW b \in Conns PROVE ConnFine(b)'
    <2>1. ConnFine(b)
      BY DEF OfInv
    <2>2. CASE b = c
      <3>1. LogFine(r, log[c])
        BY <1>0, <1>2 DEF ConnFine, LogFine
      <3>2. StageFine(r, q)
        BY <1>0, <1>2 DEF ConnFine, StageFine
      <3> QED
        BY <1>2, <1>6, <1>7, <2>2, <3>1, <3>2 DEF ConnFine
    <2>3. CASE b # c
      BY <1>6, <1>7, <2>1, <2>3 DEF ConnFine
    <2> QED
      BY <2>2, <2>3
  <1>10. ASSUME NEW b \in Conns PROVE OneSwitch(b)'
    <2>1. CASE b = c
      <3>1. conn[c].dpid = NoDpid /\ \A a \in Switches : swconn[a] # c
        BY <1>0, <1>2 DEF ConnFine, StageFine
      <3>2. Own(r, q, d)
        BY <1>2, <1>5, <3>1 DEF Own
      <3>3. \A a \in Switches : swconn'[a] = c => a = d
        BY <1>7, <3>1
      <3> QED
        BY <1>7, <2>1, <3>2, <3>3 DEF OneSwitch
    <2>2. CASE b # c
      <3>1. PICK e \in Switches \cup {NoDpid} :
              Own(conn[b], toController[b], e) /\ \A a \in Switches : swconn[a] = b => a = e
        BY DEF OfInv, OneSwitch
      <3>2. \A a \in Switches : swconn'[a] = b => a = e
        BY <1>7, <2>2, <3>1
      <3> QED
        BY <1>7, <2>2, <3>1, <3>2 DEF OneSwitch
    <2> QED
      BY <2>1, <2>2
  <1>11. PortsGood'
    <2>1. ASSUME NEW a \in Switches, NEW b \in Conns, swconn'[a] = b
          PROVE  Good(conn'[b], toController'[b], known[b], ports[a])
      <3>1. CASE a = d
        <4>1. Good(r, q, known[c], ports[a])
          BY <1>2, <1>5 DEF Good
        <4> QED
          BY <1>7, <2>1, <3>1, <4>1
      <3>2. CASE a # d
        <4>1. swconn[a] = b
          BY <1>7, <2>1, <3>2
        <4>2. b # c
          BY <1>0, <1>2, <4>1 DEF ConnFine
        <4> QED
          BY <1>7, <4>1, <4>2 DEF OfInv, PortsGood
      <3> QED
        BY <3>1, <3>2
    <2> QED
      BY <1>6, <2>1 DEF PortsGood
  <1>12. NexusOK'
    BY <1>2, <1>3, <1>6, NexusSame
  <1> QED
    BY <1>8, <1>9, <1>10, <1>11, <1>12 DEF OfInv

LEMMA LeaveStep ==
    ASSUME OfInv, NEW d \in Switches, Leave(d) PROVE OfInv'
  <1>0. TypeOK
    BY DEF OfInv
  <1>1. PICK c \in Conns : c = swconn[d]
    BY <1>0 DEF TypeOK, Leave
  <1>2. /\ gone' = gone \cup {c} /\ toSwitch' = [toSwitch EXCEPT ![c] = <<>>]
        /\ swconn' = [swconn EXCEPT ![d] = NoConn]
        /\ UNCHANGED <<conn, connections, ports, toController, changes, log, known>>
    BY <1>1 DEF Leave
  <1>3. \A a \in Switches : swconn'[a] = IF a = d THEN NoConn ELSE swconn[a]
    BY <1>0, <1>2 DEF TypeOK
  <1>4. \A a \in Switches, b \in Conns : swconn'[a] = b => swconn[a] = b
    BY <1>3, NoConnOutside
  <1>5. TypeOK'
    <2>1. <<>> \in Seq(ToSwitch)
      OBVIOUS
    <2>2. toSwitch' \in [Conns -> Seq(ToSwitch)]
      BY <1>0, <1>2, <2>1 DEF TypeOK
    <2>3. swconn' \in [Switches -> Conns \cup {NoConn}]
      BY <1>0, <1>2 DEF TypeOK
    <2> QED
      BY <1>0, <1>2, <2>2, <2>3 DEF TypeOK
  <1>6. ASSUME NEW b \in Conns PROVE ConnFine(b)'
    <2>1. ConnFine(b)
      BY DEF OfInv
    <2> QED
      BY <1>2, <1>4, <2>1 DEF ConnFine
  <1>7. ASSUME NEW b \in Conns PROVE OneSwitch(b)'
    <2>1. PICK e \in Switches \cup {NoDpid} :
            Own(conn[b], toController[b], e) /\ \A a \in Switches : swconn[a] = b => a = e
      BY DEF OfInv, OneSwitch
    <2> QED
      BY <1>2, <1>4, <2>1 DEF OneSwitch
  <1>8. PortsGood'
    BY <1>2, <1>4 DEF OfInv, PortsGood
  <1>9. NexusOK'
    BY <1>2 DEF OfInv, NexusOK, Alone
  <1> QED
    BY <1>5, <1>6, <1>7, <1>8, <1>9 DEF OfInv

(* Switch d, whose ports become P, puts m on its connection c.             *)
LEMMA SwitchSends ==
    ASSUME OfInv, NEW d \in Switches, NEW c \in Conns, swconn[d] = c,
           NEW m \in ToController, NEW P \in Ports,
           m.type = "FEATURES_REPLY" => m.dpid = d,
           Good(conn[c], toController[c], known[c], ports[d]) =>
             Good(conn[c], Append(toController[c], m), known[c], P),
           toController' = [toController EXCEPT ![c] = Append(toController[c], m)],
           ports' = [ports EXCEPT ![d] = P], changes' \in 0 .. MaxChanges,
           toSwitch' \in [Conns -> Seq(ToSwitch)],
           UNCHANGED <<conn, connections, swconn, gone, log, known>>
    PROVE  OfInv'
  <1>0. TypeOK /\ toController[c] \in Seq(ToController)
    BY TypeUse DEF OfInv
  <1>1. PICK q \in Seq(ToController) : q = Append(toController[c], m)
    BY <1>0, AppendFacts
  <1>2. toController'[c] = q /\ \A b \in Conns : b # c => toController'[b] = toController[b]
    BY <1>0, <1>1 DEF TypeOK
  <1>3. ports'[d] = P /\ \A a \in Switches : a # d => ports'[a] = ports[a]
    BY <1>0 DEF TypeOK
  <1>4. TypeOK'
    <2>1. toController' \in [Conns -> Seq(ToController)]
      BY <1>0, <1>1 DEF TypeOK
    <2>2. ports' \in [Switches -> Ports]
      BY <1>0 DEF TypeOK
    <2> QED
      BY <1>0, <2>1, <2>2 DEF TypeOK
  <1>5. ASSUME NEW b \in Conns PROVE ConnFine(b)'
    <2>1. ConnFine(b)
      BY DEF OfInv
    <2>2. CASE b = c
      <3>1. conn[c].stage # "free"
        BY <2>1, <2>2 DEF ConnFine
      <3> QED
        BY <1>2, <2>1, <2>2, <3>1 DEF ConnFine, StageFine
    <2>3. CASE b # c
      BY <1>2, <2>1, <2>3 DEF ConnFine
    <2> QED
      BY <2>2, <2>3
  <1>6. ASSUME NEW b \in Conns PROVE OneSwitch(b)'
    <2>1. PICK e \in Switches \cup {NoDpid} :
            Own(conn[b], toController[b], e) /\ \A a \in Switches : swconn[a] = b => a = e
      BY DEF OfInv, OneSwitch
    <2>2. CASE b = c
      <3>1. e = d
        BY <2>1, <2>2
      <3>2. ASSUME NEW k \in DOMAIN q, q[k].type = "FEATURES_REPLY" PROVE q[k].dpid = e
        <4>1. \/ k \in DOMAIN toController[c] /\ q[k] = toController[c][k]
              \/ q[k] = m
          BY <1>0, <1>1, AppendFacts
        <4> QED
          BY <2>1, <2>2, <3>1, <3>2, <4>1 DEF Own
      <3>3. Own(conn[b], q, e)
        BY <2>1, <3>2 DEF Own
      <3> QED
        BY <1>2, <2>1, <2>2, <3>3 DEF OneSwitch
    <2>3. CASE b # c
      BY <1>2, <2>1, <2>3 DEF OneSwitch
    <2> QED
      BY <2>2, <2>3
  <1>7. PortsGood'
    <2>1. ASSUME NEW a \in Switches, NEW b \in Conns, swconn[a] = b
          PROVE  Good(conn[b], toController'[b], known[b], ports'[a])
      <3>1. Good(conn[b], toController[b], known[b], ports[a])
        BY <2>1 DEF OfInv, PortsGood
      <3>2. CASE a = d
        BY <1>1, <1>2, <1>3, <2>1, <3>1, <3>2
      <3>3. CASE a # d
        <4>1. b # c
          <5>1. PICK e \in Switches \cup {NoDpid} : \A x \in Switches : swconn[x] = c => x = e
            BY DEF OfInv, OneSwitch
          <5> QED
            BY <2>1, <3>3, <5>1
        <4> QED
          BY <1>2, <1>3, <3>1, <3>3, <4>1
      <3> QED
        BY <3>2, <3>3
    <2> QED
      BY <2>1 DEF PortsGood
  <1>8. NexusOK'
    BY DEF OfInv, NexusOK, Alone
  <1> QED
    BY <1>4, <1>5, <1>6, <1>7, <1>8 DEF OfInv

LEMMA PortChangeStep ==
    ASSUME OfInv, NEW d \in Switches, NEW p \in PortNos, NEW s \in PortState, PortChange(d, p, s)
    PROVE  OfInv'
  <1>0. TypeOK
    BY DEF OfInv
  <1>1. changes' \in 0 .. MaxChanges /\ toSwitch' \in [Conns -> Seq(ToSwitch)]
    BY <1>0, OfAssumption DEF TypeOK, PortChange
  <1>2. PICK P \in Ports : P = [ports[d] EXCEPT ![p] = s]
    BY <1>0 DEF TypeOK, Ports
  <1>3. ports' = [ports EXCEPT ![d] = P] /\ UNCHANGED <<conn, connections, swconn, gone, toSwitch, log, known>>
    BY <1>0, <1>2 DEF PortChange, TypeOK
  <1>4. CASE swconn[d] = NoConn
    <2>1. toController' = toController
      BY <1>4 DEF PortChange
    <2>2. ports' \in [Switches -> Ports]
      BY <1>0, <1>3 DEF TypeOK
    <2>3. TypeOK'
      BY <1>0, <1>1, <1>3, <2>1, <2>2 DEF TypeOK
    <2>4. \A b \in Conns : ConnFine(b)'
      BY <1>3, <2>1 DEF OfInv, ConnFine
    <2>5. \A b \in Conns : OneSwitch(b)'
      BY <1>3, <2>1 DEF OfInv, OneSwitch
    <2>6. PortsGood'
      <3>1. ASSUME NEW a \in Switches, NEW b \in Conns, swconn[a] = b
            PROVE  Good(conn[b], toController[b], known[b], ports'[a])
        <4>1. a # d
          BY <1>4, <3>1, NoConnOutside
        <4>2. ports'[a] = ports[a]
          BY <1>0, <1>3, <4>1 DEF TypeOK
        <4> QED
          BY <3>1, <4>2 DEF OfInv, PortsGood
      <3> QED
        BY <1>3, <2>1, <3>1 DEF PortsGood
    <2>7. NexusOK'
      BY <1>3 DEF OfInv, NexusOK, Alone
    <2> QED
      BY <2>3, <2>4, <2>5, <2>6, <2>7 DEF OfInv
  <1>5. CASE swconn[d] # NoConn
    <2>1. PICK c \in Conns : c = swconn[d]
      BY <1>0, <1>5 DEF TypeOK
    <2>2. PICK m \in ToController : m = [type |-> "PORT_STATUS", port |-> p, state |-> s]
      BY DEF ToController, Status
    <2>3. m.type = "PORT_STATUS" /\ m.port = p /\ m.state = s
      BY <2>2
    <2>4. toController' = [toController EXCEPT ![c] = Append(toController[c], m)]
      BY <1>5, <2>1, <2>2 DEF PortChange
    <2>5. /\ conn[c] \in Connection /\ toController[c] \in Seq(ToController) /\ known[c] \in Ports
          /\ ports[d] \in Ports
      BY <1>0, TypeUse DEF TypeOK
    <2>6. Good(conn[c], toController[c], known[c], ports[d]) =>
             Good(conn[c], Append(toController[c], m), known[c], P)
      BY <1>2, <2>3, <2>5, GoodStatus
    <2> QED
      BY <1>1, <1>3, <2>1, <2>3, <2>4, <2>6, SwitchSends
  <1> QED
    BY <1>4, <1>5

LEMMA AnswerStep ==
    ASSUME OfInv, NEW d \in Switches, Answer(d) PROVE OfInv'
  <1>0. TypeOK
    BY DEF OfInv
  <1>1. PICK c \in Conns : c = swconn[d]
    BY <1>0 DEF TypeOK, Answer
  <1>2. toSwitch[c] \in Seq(ToSwitch) /\ toSwitch[c] # <<>>
    BY <1>0, <1>1, TypeUse DEF Answer
  <1>3. PICK h \in ToSwitch : h = Head(toSwitch[c])
    BY <1>2, TailFacts
  <1>4. toSwitch' \in [Conns -> Seq(ToSwitch)]
    <2>1. Tail(toSwitch[c]) \in Seq(ToSwitch)
      BY <1>2, TailFacts
    <2>2. toSwitch' = [toSwitch EXCEPT ![c] = Tail(toSwitch[c])]
      BY <1>1 DEF Answer
    <2> QED
      BY <1>0, <2>1, <2>2 DEF TypeOK
  <1>5. UNCHANGED <<conn, connections, switchVars, log, known>>
    BY DEF Answer
  <1>6. ports' = [ports EXCEPT ![d] = ports[d]] /\ changes' \in 0 .. MaxChanges /\ ports[d] \in Ports
    BY <1>0, <1>5 DEF TypeOK, switchVars
  <1>7. CASE toController' = toController
    <2>1. TypeOK'
      BY <1>0, <1>4, <1>5, <1>7 DEF TypeOK, switchVars
    <2>2. \A b \in Conns : ConnFine(b)'
      BY <1>5, <1>7 DEF OfInv, ConnFine, switchVars
    <2>3. \A b \in Conns : OneSwitch(b)'
      BY <1>5, <1>7 DEF OfInv, OneSwitch, switchVars
    <2>4. PortsGood'
      BY <1>5, <1>7 DEF OfInv, PortsGood, switchVars
    <2>5. NexusOK'
      BY <1>5 DEF OfInv, NexusOK, Alone
    <2> QED
      BY <2>1, <2>2, <2>3, <2>4, <2>5 DEF OfInv
  <1>8. ASSUME NEW m \in ToController, m.type # "PORT_STATUS",
               m.type = "FEATURES_REPLY" => m.dpid = d /\ m.ports = ports[d],
               toController' = [toController EXCEPT ![c] = Append(toController[c], m)]
        PROVE  OfInv'
    <2>1. conn[c] \in Connection /\ toController[c] \in Seq(ToController) /\ known[c] \in Ports
      BY <1>0, TypeUse
    <2>2. Good(conn[c], toController[c], known[c], ports[d]) =>
             Good(conn[c], Append(toController[c], m), known[c], ports[d])
      BY <1>6, <1>8, <2>1, GoodAnswer
    <2>3. UNCHANGED <<conn, connections, swconn, gone, log, known>>
      BY <1>5 DEF switchVars
    <2> QED
      BY <1>1, <1>4, <1>6, <1>8, <2>2, <2>3, SwitchSends
  <1>9. \/ toController' = toController
        \/ \E m \in ToController :
             /\ m.type # "PORT_STATUS"
             /\ m.type = "FEATURES_REPLY" => m.dpid = d /\ m.ports = ports[d]
             /\ toController' = [toController EXCEPT ![c] = Append(toController[c], m)]
    <2> DEFINE reply == [type |-> "FEATURES_REPLY", dpid |-> d, ports |-> ports[d]]
               a == [HELLO |-> {}, FEATURES_REQUEST |-> {reply},
                     BARRIER_REQUEST |-> {Msg("BARRIER_REPLY"), Msg("ERROR")}][h.type]
    <2>1. \/ toController' = toController
          \/ \E m \in a : toController' = [toController EXCEPT ![c] = Append(toController[c], m)]
      BY <1>1, <1>3 DEF Answer
    <2>2. h.type \in {"HELLO", "FEATURES_REQUEST", "BARRIER_REQUEST"}
      BY DEF ToSwitch, Msg
    <2>3. a \in SUBSET {reply, Msg("BARRIER_REPLY"), Msg("ERROR")}
      BY <2>2
    <2>4. /\ reply \in ToController /\ reply.type = "FEATURES_REPLY" /\ reply.dpid = d /\ reply.ports = ports[d]
      BY <1>6 DEF ToController
    <2>5. /\ Msg("BARRIER_REPLY") \in ToController /\ Msg("BARRIER_REPLY").type = "BARRIER_REPLY"
          /\ Msg("ERROR") \in ToController /\ Msg("ERROR").type = "ERROR"
      BY DEF ToController, Msg
    <2> HIDE DEF a, reply
    <2>6. ASSUME NEW m \in a
          PROVE  /\ m \in ToController /\ m.type # "PORT_STATUS"
                 /\ m.type = "FEATURES_REPLY" => m.dpid = d /\ m.ports = ports[d]
      BY <2>3, <2>4, <2>5
    <2> QED
      BY <2>1, <2>6
  <1> QED
    BY <1>7, <1>8, <1>9

-----------------------------------------------------------------------------
(* The theorems                                                            *)

LEMMA InitInv == Init => OfInv
  <1> SUFFICES ASSUME Init PROVE OfInv
    OBVIOUS
  <1>1. NoPorts \in Ports /\ <<>> \in Seq(Status) /\ <<>> \in Seq(ToSwitch) /\ <<>> \in Seq(ToController)
        /\ <<>> \in Seq(Events)
    BY DEF NoPorts, Ports, PortState
  <1>2. Fresh \in Connection
    BY <1>1 DEF Fresh, Connection
  <1>3. \A c \in Conns : /\ conn[c] = Fresh /\ toController[c] = <<>> /\ log[c] = <<>>
    BY DEF Init
  <1>4. \A d \in Switches : swconn[d] = NoConn /\ connections[d] = NoConn
    BY DEF Init
  <1>5. TypeOK
    <2>1. conn \in [Conns -> Connection] /\ known \in [Conns -> Ports]
      BY <1>1, <1>2 DEF Init
    <2>2. /\ toSwitch \in [Conns -> Seq(ToSwitch)] /\ toController \in [Conns -> Seq(ToController)]
          /\ log \in [Conns -> Seq({"up", "status", "down"})]
      BY <1>1 DEF Init, Events
    <2>3. ports \in [Switches -> Ports]
      BY DEF Init, Ports, PortState
    <2>4. changes \in 0 .. MaxChanges
      BY OfAssumption DEF Init
    <2>5. /\ connections \in [Switches -> Conns \cup {NoConn}] /\ swconn \in [Switches -> Conns \cup {NoConn}]
          /\ gone \subseteq Conns
      BY DEF Init
    <2> QED
      BY <2>1, <2>2, <2>3, <2>4, <2>5 DEF TypeOK
  <1>6. Fresh.stage = "free" /\ Fresh.dpid = NoDpid /\ Fresh.barrier = FALSE /\ Fresh.sender = "idle"
    BY DEF Fresh
  <1>7. ASSUME NEW c \in Conns PROVE ConnFine(c)
    <2>1. LogFine(Fresh, <<>>)
      BY <1>6 DEF LogFine
    <2> QED
      BY <1>3, <1>4, <1>6, <2>1, NoConnOutside DEF ConnFine, StageFine
  <1>8. ASSUME NEW c \in Conns PROVE OneSwitch(c)
    BY <1>3, <1>4, <1>6, NoConnOutside DEF OneSwitch, Own
  <1>9. PortsGood
    BY <1>4, NoConnOutside DEF PortsGood
  <1>10. NexusOK
    BY <1>3, <1>4, <1>6, NoConnOutside DEF NexusOK
  <1> QED
    BY <1>5, <1>7, <1>8, <1>9, <1>10 DEF OfInv

LEMMA StutterInv == OfInv /\ UNCHANGED vars => OfInv'
  <1> SUFFICES ASSUME OfInv, UNCHANGED vars PROVE OfInv'
    OBVIOUS
  <1>1. TypeOK'
    BY DEF OfInv, TypeOK, vars
  <1>2. \A b \in Conns : ConnFine(b)'
    BY DEF OfInv, ConnFine, vars
  <1>3. \A b \in Conns : OneSwitch(b)'
    BY DEF OfInv, OneSwitch, vars
  <1>4. PortsGood'
    BY DEF OfInv, PortsGood, vars
  <1>5. NexusOK'
    BY DEF OfInv, NexusOK, Alone, vars
  <1> QED
    BY <1>1, <1>2, <1>3, <1>4, <1>5 DEF OfInv

LEMMA NextInv == OfInv /\ Next => OfInv'
  <1> SUFFICES ASSUME OfInv, Next PROVE OfInv'
    OBVIOUS
  <1>1. ASSUME NEW c \in Conns, Handle(c) PROVE OfInv'
    <2>1. CASE handle_BARRIER_REPLY(c)
      BY <2>1, FinishStep DEF handle_BARRIER_REPLY
    <2>2. CASE handle_ERROR(c)
      BY <2>2, FinishStep DEF handle_ERROR
    <2> QED
      BY <1>1, <2>1, <2>2, AcceptStep, HelloStep, FeaturesStep, EarlyStatusStep, StatusStep, CloseStep,
         RaiseDownStep
         DEF Handle
  <1>2. ASSUME NEW c \in Conns, Sender(c) \/ ComponentSends(c) PROVE OfInv'
    BY <1>2, ComponentStep, SenderDisconnectsStep, SenderTestsStep, SenderRaisesStep DEF Sender
  <1>3. ASSUME NEW d \in Switches, NEW c \in Conns, Connect(d, c) PROVE OfInv'
    BY <1>3, ConnectStep
  <1>4. ASSUME NEW d \in Switches, Leave(d) \/ Answer(d) PROVE OfInv'
    BY <1>4, LeaveStep, AnswerStep
  <1>5. ASSUME NEW d \in Switches, NEW p \in PortNos, NEW s \in PortState, PortChange(d, p, s) PROVE OfInv'
    BY <1>5, PortChangeStep
  <1> QED
    BY <1>1, <1>2, <1>3, <1>4, <1>5 DEF Next

(* The inductive invariant: how far each connection is, whose switch it    *)
(* is, what the messages under way will tell and what the nexus holds      *)
(* agree, through every handler of of_01.py and every step of the switches.*)
THEOREM OfInvariant == Spec => []OfInv
  <1>1. OfInv /\ [Next]_vars => OfInv'
    BY NextInv, StutterInv
  <1> QED
    BY InitInv, <1>1, PTL DEF Spec

(* Connections, queues and ports keep their types, whatever the order of   *)
(* messages, failed writes and departures.                                 *)
THEOREM OfTypes == Spec => []TypeOK
  <1>1. OfInv => TypeOK
    BY DEF OfInv
  <1> QED
    BY <1>1, OfInvariant, PTL

(* For every number of switches and connections, ConnectionUp is raised at *)
(* most once (_finish_connecting) and ports are told of after it; without  *)
(* the sender's thread ConnectionUp is first and ConnectionDown last, and  *)
(* ConnectionDown is doubled only by both threads' disconnect().           *)
THEOREM OfEventsInOrder == Spec => []EventsInOrder
  <1>1. ASSUME OfInv, NEW c \in Conns, NEW j \in 1 .. Len(log[c]), NEW k \in 1 .. Len(log[c])
        PROVE  /\ log[c][j] = "up" /\ log[c][k] = "up" => j = k
               /\ log[c][k] = "status" => \E i \in 1 .. k - 1 : log[c][i] = "up"
               /\ conn[c].sender = "idle" =>
                    /\ log[c][k] = "up" => k = 1
                    /\ log[c][k] = "down" => k = Len(log[c])
               /\ log[c][j] = "down" /\ log[c][k] = "down" /\ j # k =>
                    conn[c].stage = "closed" /\ conn[c].sender = "done"
    <2>1. LogFine(conn[c], log[c])
      BY <1>1 DEF OfInv, ConnFine
    <2>2. PICK l, r : l = log[c] /\ r = conn[c]
      OBVIOUS
    <2>3. LogFine(r, l)
      BY <2>1, <2>2
    <2>4. l[j] = "up" /\ l[k] = "up" => j = k
      BY <2>2, <2>3 DEF LogFine
    <2>5. l[k] = "status" => \E i \in 1 .. k - 1 : l[i] = "up"
      BY <2>2, <2>3 DEF LogFine
    <2>6. r.sender = "idle" => (l[k] = "up" => k = 1) /\ (l[k] = "down" => k = Len(l))
      BY <2>2, <2>3 DEF LogFine
    <2>7. l[j] = "down" /\ l[k] = "down" /\ j # k => r.stage = "closed" /\ r.sender = "done"
      BY <2>2, <2>3 DEF LogFine
    <2> QED
      BY <2>2, <2>4, <2>5, <2>6, <2>7
  <1>2. OfInv => EventsInOrder
    BY <1>1 DEF EventsInOrder
  <1> QED
    BY <1>2, OfInvariant, PTL

(* The nexus holds only connections that were announced and not closed,    *)
(* nor taken back but by the sender's thread, and holds the only           *)
(* connection of a switch (nexus._connect and _disconnect).                *)
THEOREM OfNexusAccurate == Spec => []NexusAccurate
  <1>1. ASSUME OfInv, NEW d \in Switches, NEW c, c = connections[d], c # NoConn
        PROVE  /\ conn[c].stage = "connected" /\ conn[c].dpid = d
               /\ \E k \in 1 .. Len(log[c]) : log[c][k] = "up"
               /\ conn[c].sender = "idle" => \A k \in 1 .. Len(log[c]) : log[c][k] # "down"
    <2>1. c \in Conns
      BY <1>1 DEF OfInv, TypeOK
    <2>2. conn[c].stage = "connected" /\ conn[c].dpid = d
      BY <1>1, <2>1 DEF OfInv, NexusOK
    <2>3. LogFine(conn[c], log[c])
      BY <1>1, <2>1 DEF OfInv, ConnFine
    <2> QED
      BY <2>2, <2>3 DEF LogFine
  <1>2. ASSUME OfInv, NEW d \in Switches, NEW b \in Conns,
               conn[b].dpid = d, \A a \in Conns \ {b} : ~ (conn[a].dpid = d),
               conn[b].stage = "connected", ~ conn[b].disconnected
        PROVE  connections[d] = b
    <2>1. conn[b] \in Connection
      BY <1>2, TypeUse DEF OfInv
    <2>2. conn[b].disconnected = FALSE
      BY <1>2, <2>1 DEF Connection
    <2> QED
      BY <1>2, <2>2 DEF OfInv, NexusOK, Alone
  <1>3. OfInv => NexusAccurate
    BY <1>1, <1>2 DEF NexusAccurate
  <1> QED
    BY <1>3, OfInvariant, PTL

(* No change of a port is lost or overtaken: con.ports and what listeners  *)
(* were told, with what is under way, are the ports the switch has, also   *)
(* for changes that come between features and barrier                      *)
(* (_deferred_port_status) and whatever the switch's number of ports.      *)
THEOREM OfPortsFollow == Spec => []PortsFollow
  <1>1. ASSUME OfInv, NEW d \in Switches, NEW c, c = swconn[d], c # NoConn
        PROVE  /\ conn[c].stage = "connected" =>
                    /\ After(View(conn[c]), toController[c]) = ports[d]
                    /\ After(known[c], toController[c]) = ports[d]
               /\ conn[c].stage = "handshake" /\ conn[c].barrier =>
                    After(After(conn[c].original, conn[c].deferred), toController[c]) = ports[d]
    <2>1. c \in Conns
      BY <1>1 DEF OfInv, TypeOK
    <2>2. Good(conn[c], toController[c], known[c], ports[d])
      BY <1>1, <2>1 DEF OfInv, PortsGood
    <2>3. conn[c] \in Connection
      BY <1>1, <2>1, TypeUse DEF OfInv
    <2>4. conn[c].barrier => conn[c].barrier = TRUE
      BY <2>3 DEF Connection
    <2> QED
      BY <2>2, <2>4 DEF Good
  <1>2. OfInv => PortsFollow
    BY <1>1 DEF PortsFollow
  <1> QED
    BY <1>2, OfInvariant, PTL

=============================================================================
