-------------------------- MODULE LtProtocolProofs --------------------------
(***************************************************************************)
(* Proofs about module LtProtocol, for any width of numbers, any commands  *)
(* and any cuts: its types, that dataReceived reassembles the stream, and  *)
(* that both directions implement MessageChannel.                          *)
(*                                                                         *)
(* Numbers come first: unpacking what was packed gives the number back.    *)
(* Then concatenation: what is read and what is on its way are the packed  *)
(* commands not yet handled, so the first length read is that of the first *)
(* of them, whatever the cuts.                                             *)
(***************************************************************************)
EXTENDS LtProtocol, TLAPS, SequenceTheorems, WellFoundedInduction

-----------------------------------------------------------------------------
(* Induction, and the greatest of a set of positions                       *)

LEMMA SetInduction ==
    ASSUME NEW T \in SUBSET Nat, 0 \in T, \A n \in T : n + 1 \in T
    PROVE  T = Nat
  <1>1. SUFFICES ASSUME Nat \ T # {} PROVE FALSE
    OBVIOUS
  <1>2. PICK m \in Nat \ T : \A y \in Nat \ T : ~ (<<y, m>> \in OpToRel(<, Nat))
    BY <1>1, WFMin, NatLessThanWellFounded
  <1>3. m # 0
    OBVIOUS
  <1>4. m - 1 \in Nat /\ m - 1 < m
    BY <1>3
  <1>5. m - 1 \in T
    BY <1>2, <1>4 DEF OpToRel
  <1>6. (m - 1) + 1 \in T
    BY <1>5
  <1> QED
    BY <1>6

LEMMA MaxIn ==
    ASSUME NEW n \in Nat, NEW K \in SUBSET (1 .. n), K # {}
    PROVE  Max(K) \in K /\ \A k \in K : k <= Max(K)
  <1> DEFINE T == {i \in Nat : \A S \in SUBSET (1 .. i) : S # {} => \E x \in S : \A y \in S : x >= y}
  <1>1. 0 \in T
    <2>1. 1 .. 0 = {}
      OBVIOUS
    <2> QED
      BY <2>1
  <1>2. ASSUME NEW i \in T PROVE i + 1 \in T
    <2>1. ASSUME NEW S \in SUBSET (1 .. i + 1), S # {}
          PROVE  \E x \in S : \A y \in S : x >= y
      <3>1. CASE i + 1 \in S
        BY <3>1
      <3>2. CASE i + 1 \notin S
        <4>1. S \in SUBSET (1 .. i)
          BY <3>2
        <4> QED
          BY <4>1, <2>1
      <3> QED
        BY <3>1, <3>2
    <2> QED
      BY <2>1
  <1>3. T = Nat
    <2> HIDE DEF T
    <2>1. T \in SUBSET Nat
      BY DEF T
    <2> QED
      BY <1>1, <1>2, <2>1, SetInduction
  <1>4. \E x \in K : \A y \in K : x >= y
    BY <1>3
  <1>5. Max(K) = CHOOSE x \in K : \A y \in K : x >= y
    BY DEF Max
  <1>6. Max(K) \in K /\ \A y \in K : Max(K) >= y
    BY <1>4, <1>5
  <1> QED
    BY <1>6

-----------------------------------------------------------------------------
(* Powers of the base                                                      *)

LEMMA Sizes ==
    /\ Base \in Nat /\ Base >= 2 /\ LenSz \in Nat /\ LenSz >= 1 /\ TypeSz \in Nat /\ TypeSz >= 1
    /\ MaxConns \in Nat /\ tot_sz \in Nat /\ tot_sz = LenSz + TypeSz
  BY LtAssumption DEF tot_sz

(* f has the powers up to the n-th.                                        *)
Powers(f, n) == \A k \in 0 .. n : f[k] = IF k = 0 THEN 1 ELSE Base * f[k - 1]

LEMMA PowersExist ==
    ASSUME NEW n \in Nat PROVE \E f \in [0 .. n -> Nat] : Powers(f, n)
  <1> DEFINE T == {i \in Nat : \E f \in [0 .. i -> Nat] : Powers(f, i)}
  <1>1. 0 \in T
    <2>1. PICK f : f = [k \in 0 .. 0 |-> 1]
      OBVIOUS
    <2>2. f \in [0 .. 0 -> Nat] /\ Powers(f, 0)
      BY <2>1 DEF Powers
    <2> QED
      BY <2>2
  <1>2. ASSUME NEW i \in T PROVE i + 1 \in T
    <2>1. PICK f \in [0 .. i -> Nat] : Powers(f, i)
      OBVIOUS
    <2>2. i \in Nat /\ Base \in Nat /\ f[i] \in Nat
      BY Sizes
    <2>3. PICK x \in Nat : x = Base * f[i]
      BY <2>2
    <2>4. PICK g : g = [k \in 0 .. i + 1 |-> IF k = i + 1 THEN x ELSE f[k]]
      OBVIOUS
    <2>5. g \in [0 .. i + 1 -> Nat]
      BY <2>2, <2>4
    <2>6. ASSUME NEW k \in 0 .. i + 1 PROVE g[k] = IF k = 0 THEN 1 ELSE Base * g[k - 1]
      <3>1. CASE k = i + 1
        BY <2>2, <2>3, <2>4, <3>1
      <3>2. CASE k # i + 1
        <4>1. k \in 0 .. i /\ g[k] = f[k] /\ (k # 0 => g[k - 1] = f[k - 1])
          BY <2>2, <2>4, <3>2
        <4>2. f[k] = IF k = 0 THEN 1 ELSE Base * f[k - 1]
          BY <2>1, <4>1 DEF Powers
        <4> QED
          BY <4>1, <4>2
      <3> QED
        BY <3>1, <3>2
    <2>7. Powers(g, i + 1)
      BY <2>6 DEF Powers
    <2>8. i + 1 \in Nat
      BY <2>2
    <2> QED
      BY <2>5, <2>7, <2>8
  <1> HIDE DEF T
  <1>3. T \in SUBSET Nat
    BY DEF T
  <1>4. T = Nat
    BY <1>1, <1>2, <1>3, SetInduction
  <1> QED
    BY <1>4 DEF T

LEMMA PowersUnique ==
    ASSUME NEW n \in Nat, NEW m \in Nat, NEW f, NEW g, Powers(f, n), Powers(g, m),
           NEW i \in Nat, i <= n, i <= m
    PROVE  f[i] = g[i]
  <1> DEFINE T == {k \in Nat : k <= n /\ k <= m => f[k] = g[k]}
  <1>1. 0 \in T
    BY DEF Powers
  <1>2. ASSUME NEW k \in T PROVE k + 1 \in T
    <2>1. SUFFICES ASSUME k + 1 <= n, k + 1 <= m PROVE f[k + 1] = g[k + 1]
      OBVIOUS
    <2>2. k \in Nat /\ f[k] = g[k] /\ (k + 1) - 1 = k /\ k + 1 # 0 /\ k + 1 \in 0 .. n /\ k + 1 \in 0 .. m
      BY <2>1
    <2>3. f[k + 1] = Base * f[(k + 1) - 1] /\ g[k + 1] = Base * g[(k + 1) - 1]
      BY <2>2 DEF Powers
    <2> QED
      BY <2>2, <2>3
  <1> HIDE DEF T
  <1>3. T \in SUBSET Nat
    BY DEF T
  <1>4. T = Nat
    BY <1>1, <1>2, <1>3, SetInduction
  <1> QED
    BY <1>4 DEF T

LEMMA PowerIs ==
    /\ Power[0] = 1
    /\ \A k \in Nat : Power[k + 1] = Base * Power[k]
  <1> DEFINE F(k) == CHOOSE f \in [0 .. k -> Nat] : Powers(f, k)
             g == [k \in Nat |-> F(k)[k]]
             IsPower(h) == h = [k \in Nat |-> IF k = 0 THEN 1 ELSE Base * h[k - 1]]
  <1>1. ASSUME NEW k \in Nat PROVE F(k) \in [0 .. k -> Nat] /\ Powers(F(k), k)
    BY PowersExist
  <1> HIDE DEF F
  <1>2. ASSUME NEW k \in Nat PROVE g[k] = IF k = 0 THEN 1 ELSE Base * g[k - 1]
    <2>1. F(k)[k] = IF k = 0 THEN 1 ELSE Base * F(k)[k - 1]
      BY <1>1 DEF Powers
    <2>2. ASSUME k # 0 PROVE F(k)[k - 1] = F(k - 1)[k - 1]
      <3>1. k - 1 \in Nat /\ k - 1 <= k /\ k - 1 <= k - 1
        BY <2>2
      <3> QED
        BY <1>1, <3>1, PowersUnique
    <2>3. k # 0 => g[k - 1] = F(k - 1)[k - 1]
      OBVIOUS
    <2> QED
      BY <2>1, <2>2, <2>3
  <1>3. IsPower(g)
    <2>1. g = [k \in Nat |-> g[k]]
      OBVIOUS
    <2> HIDE DEF g
    <2> QED
      BY <1>2, <2>1
  <1>4. Power = CHOOSE h : IsPower(h)
    BY DEF Power
  <1>5. \E h : IsPower(h)
    BY <1>3
  <1>6. IsPower(Power)
    <2> HIDE DEF IsPower
    <2> QED
      BY <1>4, <1>5
  <1>7. \A k \in Nat : Power[k] = IF k = 0 THEN 1 ELSE Base * Power[k - 1]
    BY <1>6
  <1>8. ASSUME NEW k \in Nat PROVE Power[k + 1] = Base * Power[k]
    <2>1. k + 1 \in Nat /\ k + 1 # 0 /\ (k + 1) - 1 = k
      OBVIOUS
    <2> QED
      BY <1>7, <2>1
  <1> QED
    BY <1>7, <1>8

LEMMA PowerType ==
    ASSUME NEW k \in Nat PROVE Power[k] \in Nat /\ Power[k] > 0
  <1> DEFINE T == {i \in Nat : Power[i] \in Nat /\ Power[i] > 0}
  <1>1. 0 \in T
    BY PowerIs
  <1>2. ASSUME NEW i \in T PROVE i + 1 \in T
    <2>1. PICK x \in Nat : x = Power[i] /\ x > 0
      OBVIOUS
    <2>2. Power[i + 1] = Base * x
      BY <2>1, PowerIs
    <2>3. Base * x \in Nat /\ Base * x > 0
      BY <2>1, Sizes
    <2> QED
      BY <2>2, <2>3
  <1> HIDE DEF T
  <1>3. T \in SUBSET Nat
    BY DEF T
  <1>4. T = Nat
    BY <1>1, <1>2, <1>3, SetInduction
  <1> QED
    BY <1>4 DEF T

-----------------------------------------------------------------------------
(* Packing and unpacking a number                                          *)

(* f[s] is the number of the bytes at the positions in s.                  *)
Unpacking(f, q, n) ==
    f = [s \in SUBSET (1 .. n) |-> IF s = {} THEN 0 ELSE f[s \ {Max(s)}] * Base + q[Max(s)]]

LEMMA UnpackingExists ==
    ASSUME NEW q, NEW n \in Nat
    PROVE  \E f : Unpacking(f, q, n)
  <1> DEFINE T == {i \in Nat : \E f : Unpacking(f, q, i)}
  <1>1. 0 \in T
    <2> DEFINE f == [s \in SUBSET (1 .. 0) |-> 0]
    <2>1. \A s \in SUBSET (1 .. 0) : s = {}
      OBVIOUS
    <2>2. Unpacking(f, q, 0)
      BY <2>1 DEF Unpacking
    <2> QED
      BY <2>2
  <1>2. ASSUME NEW i \in T PROVE i + 1 \in T
    <2>1. PICK f : Unpacking(f, q, i)
      OBVIOUS
    <2> DEFINE g == [s \in SUBSET (1 .. i + 1) |->
                       IF i + 1 \in s THEN f[s \ {i + 1}] * Base + q[i + 1] ELSE f[s]]
    <2>2. ASSUME NEW s \in SUBSET (1 .. i + 1)
          PROVE  g[s] = IF s = {} THEN 0 ELSE g[s \ {Max(s)}] * Base + q[Max(s)]
      <3>1. CASE i + 1 \in s
        <4>0. i + 1 \in Nat /\ s # {} /\ i \in Nat
          BY <3>1
        <4>1. Max(s) \in s /\ \A k \in s : k <= Max(s)
          BY <4>0, MaxIn
        <4>2. Max(s) = i + 1
          <5>1. Max(s) \in 1 .. i + 1 /\ i + 1 <= Max(s)
            BY <4>1, <3>1
          <5> QED
            BY <5>1, <4>0
        <4>3. s \ {i + 1} \in SUBSET (1 .. i + 1) /\ i + 1 \notin s \ {i + 1}
          OBVIOUS
        <4>4. g[s \ {i + 1}] = f[s \ {i + 1}]
          BY <4>3
        <4>5. g[s] = f[s \ {i + 1}] * Base + q[i + 1]
          BY <3>1
        <4> HIDE DEF g
        <4> QED
          BY <3>1, <4>2, <4>4, <4>5
      <3>2. CASE i + 1 \notin s /\ s # {}
        <4>1. s \in SUBSET (1 .. i)
          BY <3>2
        <4>2. Max(s) \in s
          BY <3>2, <4>1, MaxIn
        <4>3. /\ s \ {Max(s)} \in SUBSET (1 .. i) /\ s \ {Max(s)} \in SUBSET (1 .. i + 1)
              /\ i + 1 \notin s \ {Max(s)}
          BY <4>1, <3>2
        <4>4. g[s \ {Max(s)}] = f[s \ {Max(s)}] /\ g[s] = f[s]
          BY <4>3, <3>2
        <4>5. f[s] = f[s \ {Max(s)}] * Base + q[Max(s)]
          BY <2>1, <3>2, <4>1 DEF Unpacking
        <4> HIDE DEF g
        <4> QED
          BY <3>2, <4>4, <4>5
      <3>3. CASE s = {}
        <4>1. f[s] = 0
          BY <2>1, <3>3 DEF Unpacking
        <4> QED
          BY <3>3, <4>1
      <3> QED
        BY <3>1, <3>2, <3>3
    <2>3. Unpacking(g, q, i + 1)
      <3>1. g = [s \in SUBSET (1 .. i + 1) |-> g[s]]
        OBVIOUS
      <3> HIDE DEF g
      <3> QED
        BY <2>2, <3>1 DEF Unpacking
    <2> QED
      BY <2>3
  <1>3. T = Nat
    <2> HIDE DEF T
    <2>1. T \in SUBSET Nat
      BY DEF T
    <2> QED
      BY <1>1, <1>2, <2>1, SetInduction
  <1> QED
    BY <1>3

LEMMA UnpackingStep ==
    ASSUME NEW f, NEW q, NEW n \in Nat, Unpacking(f, q, n)
    PROVE  /\ f[1 .. 0] = 0
           /\ \A i \in 1 .. n : f[1 .. i] = f[1 .. i - 1] * Base + q[i]
  <1>1. 1 .. 0 = {} /\ 1 .. 0 \in SUBSET (1 .. n)
    OBVIOUS
  <1>2. f[1 .. 0] = 0
    BY <1>1 DEF Unpacking
  <1>3. ASSUME NEW i \in 1 .. n PROVE f[1 .. i] = f[1 .. i - 1] * Base + q[i]
    <2>1. 1 .. i \in SUBSET (1 .. n) /\ 1 .. i \in SUBSET (1 .. i) /\ i \in 1 .. i /\ 1 .. i # {} /\ i \in Nat
      OBVIOUS
    <2>2. Max(1 .. i) \in 1 .. i /\ i <= Max(1 .. i)
      BY <2>1, MaxIn
    <2>3. Max(1 .. i) = i
      BY <2>2
    <2>4. (1 .. i) \ {i} = 1 .. i - 1
      OBVIOUS
    <2>5. f[1 .. i] = f[(1 .. i) \ {Max(1 .. i)}] * Base + q[Max(1 .. i)]
      BY <2>1 DEF Unpacking
    <2> QED
      BY <2>3, <2>4, <2>5
  <1> QED
    BY <1>2, <1>3

(* Any h that adds byte after byte ends with the number.                   *)
LEMMA UnpackIs ==
    ASSUME NEW S, NEW q \in Seq(S), NEW h, h[0] = 0,
           \A i \in 1 .. Len(q) : h[i] = h[i - 1] * Base + q[i]
    PROVE  Unpack(q) = h[Len(q)]
  <1> DEFINE f == CHOOSE g : g = [s \in SUBSET (DOMAIN q) |->
                     IF s = {} THEN 0 ELSE g[s \ {Max(s)}] * Base + q[Max(s)]]
  <1>1. Unpack(q) = f[DOMAIN q]
    BY DEF Unpack, FoldLeft, MapThenFoldSet
  <1>2. DOMAIN q = 1 .. Len(q) /\ Len(q) \in Nat
    OBVIOUS
  <1>3. \E g : g = [s \in SUBSET (DOMAIN q) |->
                     IF s = {} THEN 0 ELSE g[s \ {Max(s)}] * Base + q[Max(s)]]
    <2>1. PICK g : Unpacking(g, q, Len(q))
      BY <1>2, UnpackingExists
    <2>2. g = [s \in SUBSET (DOMAIN q) |-> IF s = {} THEN 0 ELSE g[s \ {Max(s)}] * Base + q[Max(s)]]
      BY <1>2, <2>1 DEF Unpacking
    <2> QED
      BY <2>2
  <1>4. f = [s \in SUBSET (DOMAIN q) |-> IF s = {} THEN 0 ELSE f[s \ {Max(s)}] * Base + q[Max(s)]]
    BY <1>3
  <1> HIDE DEF f
  <1>5. Unpacking(f, q, Len(q))
    BY <1>2, <1>4 DEF Unpacking
  <1>6. /\ f[1 .. 0] = 0
        /\ \A i \in 1 .. Len(q) : f[1 .. i] = f[1 .. i - 1] * Base + q[i]
    BY <1>2, <1>5, UnpackingStep
  <1> DEFINE T == {i \in Nat : i <= Len(q) => f[1 .. i] = h[i]}
  <1>7. 0 \in T
    BY <1>6
  <1>8. ASSUME NEW i \in T PROVE i + 1 \in T
    <2>1. SUFFICES ASSUME i + 1 <= Len(q) PROVE f[1 .. i + 1] = h[i + 1]
      OBVIOUS
    <2>2. f[1 .. i] = h[i] /\ i + 1 \in 1 .. Len(q) /\ (i + 1) - 1 = i /\ i \in Nat
      BY <2>1, <1>2
    <2>3. f[1 .. i + 1] = f[1 .. (i + 1) - 1] * Base + q[i + 1] /\ h[i + 1] = h[(i + 1) - 1] * Base + q[i + 1]
      BY <2>2, <1>6
    <2> QED
      BY <2>2, <2>3
  <1>9. T = Nat
    <2> HIDE DEF T
    <2>1. T \in SUBSET Nat
      BY DEF T
    <2> QED
      BY <1>7, <1>8, <2>1, SetInduction
  <1>10. f[1 .. Len(q)] = h[Len(q)]
    BY <1>2, <1>9
  <1> QED
    BY <1>1, <1>2, <1>10

(* Numbers so far: h[i] for the first i bytes of q.                        *)
LEMMA NumbersExist ==
    ASSUME NEW q \in Seq(Byte), NEW n \in Nat, n <= Len(q)
    PROVE  \E h \in [0 .. n -> Nat] : h[0] = 0 /\ \A i \in 1 .. n : h[i] = h[i - 1] * Base + q[i]
  <1> DEFINE T == {k \in Nat : k <= Len(q) =>
                     \E h \in [0 .. k -> Nat] : h[0] = 0 /\ \A i \in 1 .. k : h[i] = h[i - 1] * Base + q[i]}
  <1>1. 0 \in T
    <2>1. PICK h : h = [k \in 0 .. 0 |-> 0]
      OBVIOUS
    <2>2. h \in [0 .. 0 -> Nat] /\ h[0] = 0 /\ 1 .. 0 = {}
      BY <2>1
    <2> QED
      BY <2>2
  <1>2. ASSUME NEW k \in T PROVE k + 1 \in T
    <2>1. SUFFICES ASSUME k + 1 <= Len(q)
                   PROVE  \E h \in [0 .. k + 1 -> Nat] : h[0] = 0 /\ \A i \in 1 .. k + 1 : h[i] = h[i - 1] * Base + q[i]
      OBVIOUS
    <2>2. k \in Nat /\ k <= Len(q) /\ Len(q) \in Nat /\ k + 1 \in 1 .. Len(q)
      BY <2>1
    <2>3. PICK h \in [0 .. k -> Nat] : h[0] = 0 /\ \A i \in 1 .. k : h[i] = h[i - 1] * Base + q[i]
      BY <2>2
    <2>4. q[k + 1] \in Nat /\ Base \in Nat /\ h[k] \in Nat
      BY <2>2, Sizes DEF Byte
    <2>5. PICK x \in Nat : x = h[k] * Base + q[k + 1]
      <3>1. PICK a \in Nat : a = h[k]
        BY <2>4
      <3>2. a * Base \in Nat
        BY <2>4
      <3>3. a * Base + q[k + 1] \in Nat
        BY <2>4, <3>2
      <3> QED
        BY <3>1, <3>3
    <2>6. PICK g : g = [i \in 0 .. k + 1 |-> IF i = k + 1 THEN x ELSE h[i]]
      OBVIOUS
    <2>7. g \in [0 .. k + 1 -> Nat] /\ g[0] = 0
      BY <2>2, <2>3, <2>6
    <2>8. ASSUME NEW i \in 1 .. k + 1 PROVE g[i] = g[i - 1] * Base + q[i]
      <3>1. CASE i = k + 1
        <4>1. g[i] = x /\ g[i - 1] = h[k]
          BY <2>2, <2>6, <3>1
        <4> QED
          BY <2>5, <3>1, <4>1
      <3>2. CASE i # k + 1
        <4>1. i \in 1 .. k /\ g[i] = h[i] /\ g[i - 1] = h[i - 1]
          BY <2>2, <2>6, <3>2
        <4> QED
          BY <2>3, <4>1
      <3> QED
        BY <3>1, <3>2
    <2> QED
      BY <2>7, <2>8
  <1>3. T = Nat
    <2> HIDE DEF T
    <2>1. T \in SUBSET Nat
      BY DEF T
    <2> QED
      BY <1>1, <1>2, <2>1, SetInduction
  <1> QED
    BY <1>3

LEMMA UnpackType ==
    ASSUME NEW q \in Seq(Byte) PROVE Unpack(q) \in Nat
  <1>1. Len(q) \in Nat
    OBVIOUS
  <1>2. PICK h \in [0 .. Len(q) -> Nat] : h[0] = 0 /\ \A i \in 1 .. Len(q) : h[i] = h[i - 1] * Base + q[i]
    <2>1. PICK n \in Nat : n = Len(q)
      OBVIOUS
    <2>2. n <= Len(q)
      BY <2>1
    <2>3. \E h \in [0 .. n -> Nat] : h[0] = 0 /\ \A i \in 1 .. n : h[i] = h[i - 1] * Base + q[i]
      BY <2>2, NumbersExist, Zenon
    <2> QED
      BY <2>1, <2>3, Zenon
  <1>3. Unpack(q) = h[Len(q)]
    BY <1>2, UnpackIs
  <1> QED
    BY <1>1, <1>2, <1>3

LEMMA DivMod ==
    ASSUME NEW b \in Nat, b > 0, NEW x \in Nat
    PROVE  x = (x \div b) * b + (x % b) /\ x % b \in 0 .. b - 1 /\ x \div b \in Nat
  OBVIOUS

LEMMA DivDiv ==
    ASSUME NEW b \in Nat, b > 0, NEW p \in Nat, p > 0, NEW n \in Nat
    PROVE  n \div (b * p) = (n \div p) \div b
  OBVIOUS

LEMMA DivSmall ==
    ASSUME NEW b \in Nat, b > 0, NEW x \in Nat, x < b PROVE x \div b = 0
  OBVIOUS

LEMMA PackFacts ==
    ASSUME NEW n \in Nat, NEW w \in Nat
    PROVE  Pack(n, w) \in Seq(Byte) /\ Len(Pack(n, w)) = w /\ \A k \in 1 .. w : Pack(n, w)[k] = Digit(n, w - k)
  <1>1. ASSUME NEW k \in Nat PROVE Digit(n, k) \in Byte
    <2>1. PICK p \in Nat : p = Power[k] /\ p > 0
      BY PowerType
    <2>2. n \div p \in Nat
      BY <2>1, DivMod
    <2>3. (n \div p) % Base \in 0 .. Base - 1
      BY <2>2, Sizes, DivMod
    <2> QED
      BY <2>1, <2>3 DEF Digit, Byte
  <1>2. \A k \in 1 .. w : Digit(n, w - k) \in Byte
    BY <1>1
  <1> QED
    BY <1>2 DEF Pack

LEMMA UnpackPack ==
    ASSUME NEW n \in Nat, NEW w \in Nat, n < Power[w]
    PROVE  Unpack(Pack(n, w)) = n
  <1>1. PICK q \in Seq(Byte) : q = Pack(n, w) /\ Len(q) = w /\ \A k \in 1 .. w : q[k] = Digit(n, w - k)
    BY PackFacts
  <1>2. PICK h : h = [i \in 0 .. w |-> n \div Power[w - i]]
    OBVIOUS
  <1>3. h[0] = 0
    <2>1. Power[w] \in Nat /\ Power[w] > 0
      BY PowerType
    <2>2. h[0] = n \div Power[w]
      BY <1>2
    <2> QED
      BY <2>1, <2>2, DivSmall
  <1>4. ASSUME NEW i \in 1 .. w PROVE h[i] = h[i - 1] * Base + q[i]
    <2>1. PICK k \in Nat : k = w - i
      OBVIOUS
    <2>2. w - (i - 1) = k + 1 /\ i \in 0 .. w /\ i - 1 \in 0 .. w
      BY <2>1
    <2>3. PICK p \in Nat : p = Power[k] /\ p > 0
      BY PowerType
    <2>4. Power[k + 1] = Base * p
      BY <2>3, PowerIs
    <2>5. PICK x \in Nat : x = n \div p
      BY <2>3, DivMod
    <2>6. n \div (Base * p) = x \div Base
      BY <2>3, <2>5, Sizes, DivDiv
    <2>7. x = (x \div Base) * Base + (x % Base)
      BY Sizes, DivMod
    <2>8. q[i] = x % Base
      BY <1>1, <2>1, <2>3, <2>5 DEF Digit
    <2>9. h[i] = x /\ h[i - 1] = x \div Base
      BY <1>2, <2>1, <2>2, <2>3, <2>4, <2>5, <2>6
    <2> QED
      BY <2>7, <2>8, <2>9
  <1>5. Unpack(q) = h[w]
    BY <1>1, <1>3, <1>4, UnpackIs
  <1>6. h[w] = n
    <2>1. h[w] = n \div Power[0]
      BY <1>2
    <2>2. n \div 1 = n
      OBVIOUS
    <2> QED
      BY <2>1, <2>2, PowerIs
  <1> QED
    BY <1>1, <1>5, <1>6

-----------------------------------------------------------------------------
(* Concatenation of sequences                                              *)

(* f[i] is the concatenation of the first i elements of q *)
Joined(f, q, n) ==
    \A i \in 1 .. n : f[i] = IF i = 1 THEN q[i] ELSE f[i - 1] \o q[i]

LEMMA JoinedExist ==
    ASSUME NEW S, NEW q \in Seq(Seq(S))
    PROVE  \E f \in [1 .. Len(q) -> Seq(S)] : Joined(f, q, Len(q))
  <1> DEFINE T == {n \in Nat : n <= Len(q) =>
                     \E f \in [1 .. n -> Seq(S)] : Joined(f, q, n)}
  <1>1. 0 \in T
    <2> DEFINE f == [i \in 1 .. 0 |-> <<>>]
    <2>1. f \in [1 .. 0 -> Seq(S)]
      OBVIOUS
    <2>2. Joined(f, q, 0)
      BY DEF Joined
    <2> HIDE DEF f
    <2>3. QED
      BY <2>1, <2>2
  <1>2. ASSUME NEW n \in T PROVE n + 1 \in T
    <2> SUFFICES ASSUME n + 1 <= Len(q)
                 PROVE  \E f \in [1 .. n + 1 -> Seq(S)] : Joined(f, q, n + 1)
      OBVIOUS
    <2>1. PICK f \in [1 .. n -> Seq(S)] : Joined(f, q, n)
      BY <1>2
    <2> DEFINE x == IF n = 0 THEN q[1] ELSE f[n] \o q[n + 1]
               g == [i \in 1 .. n + 1 |-> IF i = n + 1 THEN x ELSE f[i]]
    <2>2. x \in Seq(S)
      OBVIOUS
    <2>3. g \in [1 .. n + 1 -> Seq(S)]
      BY <2>2
    <2>4. Joined(g, q, n + 1)
      <3> SUFFICES ASSUME NEW i \in 1 .. n + 1
                   PROVE  g[i] = IF i = 1 THEN q[i] ELSE g[i - 1] \o q[i]
        BY DEF Joined
      <3>1. CASE i = n + 1
        <4>1. g[i] = x
          BY <3>1
        <4>2. n # 0 => g[i - 1] = f[n]
          BY <3>1
        <4>3. QED
          BY <3>1, <4>1, <4>2
      <3>2. CASE i # n + 1
        <4>1. i \in 1 .. n /\ g[i] = f[i] /\ (i # 1 => g[i - 1] = f[i - 1])
          BY <3>2
        <4>2. f[i] = IF i = 1 THEN q[i] ELSE f[i - 1] \o q[i]
          BY <2>1, <4>1 DEF Joined
        <4>3. QED
          BY <4>1, <4>2
      <3>3. QED
        BY <3>1, <3>2
    <2>5. QED
      BY <2>3, <2>4
  <1> HIDE DEF T
  <1>3. T \in SUBSET Nat
    BY DEF T
  <1>4. T = Nat
    BY <1>1, <1>2, <1>3, SetInduction
  <1>5. QED
    BY <1>4 DEF T

Agree(q, r, n) == \A i \in 1 .. n : q[i] = r[i]

LEMMA JoinedUnique ==
    ASSUME NEW q, NEW r, NEW n \in Nat, NEW f, NEW g,
           Joined(f, q, n), Joined(g, r, n), Agree(q, r, n)
    PROVE  Agree(f, g, n)
  <1> DEFINE T == {i \in Nat : i \in 1 .. n => f[i] = g[i]}
  <1>1. 0 \in T
    OBVIOUS
  <1>2. ASSUME NEW i \in T PROVE i + 1 \in T
    <2> SUFFICES ASSUME i + 1 \in 1 .. n PROVE f[i + 1] = g[i + 1]
      OBVIOUS
    <2>1. /\ f[i + 1] = IF i = 0 THEN q[i + 1] ELSE f[i] \o q[i + 1]
          /\ g[i + 1] = IF i = 0 THEN r[i + 1] ELSE g[i] \o r[i + 1]
      BY DEF Joined
    <2>2. i # 0 => f[i] = g[i]
      OBVIOUS
    <2>3. QED
      BY <2>1, <2>2 DEF Agree
  <1> HIDE DEF T
  <1>3. T = Nat
    BY <1>1, <1>2, SetInduction DEF T
  <1>4. QED
    BY <1>3 DEF T, Agree

(* What FlattenSeq computes *)
LEMMA FlattenIs ==
    ASSUME NEW S, NEW q \in Seq(Seq(S)), NEW f, Joined(f, q, Len(q))
    PROVE  FlattenSeq(q) = IF q = <<>> THEN <<>> ELSE f[Len(q)]
  <1>1. CASE q = <<>>
    BY <1>1 DEF FlattenSeq
  <1>2. CASE q # <<>>
    <2> DEFINE Cut(h) == [i \in 1 .. Len(q) |-> IF i = 1 THEN q[i] ELSE h[i - 1] \o q[i]]
               h == CHOOSE g : g = Cut(g)
    <2>1. PICK g \in [1 .. Len(q) -> Seq(S)] : Joined(g, q, Len(q))
      BY JoinedExist
    <2>2. g = Cut(g)
      BY <2>1 DEF Joined
    <2>3. h = Cut(h)
      BY <2>2
    <2>4. FlattenSeq(q) = h[Len(q)]
      BY <1>2 DEF FlattenSeq
    <2> HIDE DEF h
    <2>5. Joined(h, q, Len(q))
      BY <2>3 DEF Joined
    <2>6. Agree(f, h, Len(q))
      <3>1. Agree(q, q, Len(q)) /\ Len(q) \in Nat
        BY DEF Agree
      <3>2. QED
        BY <2>5, <3>1, JoinedUnique
    <2>7. Len(q) \in 1 .. Len(q)
      BY <1>2
    <2>8. QED
      BY <1>2, <2>4, <2>6, <2>7 DEF Agree
  <1>3. QED
    BY <1>1, <1>2

LEMMA FlattenType ==
    ASSUME NEW S, NEW q \in Seq(Seq(S))
    PROVE  FlattenSeq(q) \in Seq(S)
  <1>1. PICK f \in [1 .. Len(q) -> Seq(S)] : Joined(f, q, Len(q))
    BY JoinedExist
  <1>2. FlattenSeq(q) = IF q = <<>> THEN <<>> ELSE f[Len(q)]
    BY <1>1, FlattenIs
  <1>3. q # <<>> => Len(q) \in 1 .. Len(q)
    OBVIOUS
  <1>4. QED
    BY <1>1, <1>2, <1>3

LEMMA FlattenAppend ==
    ASSUME NEW S, NEW q \in Seq(Seq(S)), NEW x \in Seq(S)
    PROVE  FlattenSeq(Append(q, x)) = FlattenSeq(q) \o x
  <1> DEFINE r == Append(q, x)
             n == Len(q)
  <1>0. /\ r \in Seq(Seq(S)) /\ r # <<>> /\ Len(r) = n + 1 /\ n \in Nat /\ r[n + 1] = x
        /\ \A i \in 1 .. n : r[i] = q[i]
    BY AppendProperties, LenProperties
  <1> HIDE DEF r, n
  <1>1. PICK f : Joined(f, r, n + 1)
    BY <1>0, JoinedExist
  <1>2. PICK g : Joined(g, q, n)
    BY JoinedExist DEF n
  <1>3. Joined(f, r, n)
    BY <1>0, <1>1 DEF Joined
  <1>4. Agree(f, g, n)
    <2>1. n \in Nat /\ Agree(r, q, n)
      BY <1>0 DEF Agree
    <2>2. QED
      BY <2>1, <1>2, <1>3, JoinedUnique
  <1>5. FlattenSeq(r) = f[n + 1]
    BY <1>0, <1>1, FlattenIs
  <1>6. FlattenSeq(q) = IF q = <<>> THEN <<>> ELSE g[n]
    BY <1>2, FlattenIs DEF n
  <1>7. f[n + 1] = IF n = 0 THEN x ELSE f[n] \o x
    BY <1>0, <1>1 DEF Joined
  <1>8. CASE q = <<>>
    BY <1>5, <1>6, <1>7, <1>8, ConcatEmptySeq DEF n, r
  <1>9. CASE q # <<>>
    <2>1. n # 0 /\ n \in 1 .. n
      BY <1>9 DEF n
    <2>2. FlattenSeq(q) = f[n]
      BY <1>4, <1>6, <1>9, <2>1 DEF Agree
    <2>3. FlattenSeq(r) = f[n] \o x
      BY <1>5, <1>7, <2>1
    <2>4. QED
      BY <2>2, <2>3 DEF r
  <1>10. QED
    BY <1>8, <1>9

LEMMA FlattenEmpty == FlattenSeq(<<>>) = <<>>
  BY DEF FlattenSeq

LEMMA FlattenOne ==
    ASSUME NEW S, NEW x \in Seq(S)
    PROVE  FlattenSeq(<<x>>) = x
  <1>1. Append(<<>>, x) = <<x>> /\ <<>> \in Seq(Seq(S)) /\ <<>> \o x = x
    BY ConcatEmptySeq
  <1>2. FlattenSeq(Append(<<>>, x)) = FlattenSeq(<<>>) \o x
    BY <1>1, FlattenAppend
  <1>3. QED
    BY <1>1, <1>2, FlattenEmpty

LEMMA ConcatAppend ==
    ASSUME NEW S, NEW s \in Seq(S), NEW t \in Seq(S), NEW x \in S
    PROVE  s \o Append(t, x) = Append(s \o t, x) /\ s \o t \in Seq(S)
  <1>1. s \o t \in Seq(S) /\ <<x>> \in Seq(S)
    BY ConcatProperties
  <1>2. Append(t, x) = t \o <<x>> /\ Append(s \o t, x) = (s \o t) \o <<x>>
    BY <1>1, AppendIsConcat
  <1>3. QED
    BY <1>1, <1>2, ConcatAssociative

Regroups(s, t, u) == (s \o t) \o u = s \o (t \o u)

LEMMA Regroup ==
    ASSUME NEW S, NEW s \in Seq(S), NEW t \in Seq(S), NEW u \in Seq(S)
    PROVE  Regroups(s, t, u)
  BY ConcatAssociative DEF Regroups

LEMMA FlattenConcat ==
    ASSUME NEW S, NEW q \in Seq(Seq(S)), NEW r \in Seq(Seq(S))
    PROVE  FlattenSeq(q \o r) = FlattenSeq(q) \o FlattenSeq(r)
  <1> DEFINE R(n) == SubSeq(r, 1, n)
             T == {n \in Nat : n <= Len(r) =>
                     FlattenSeq(q \o R(n)) = FlattenSeq(q) \o FlattenSeq(R(n))}
  <1>1. 0 \in T
    <2>1. R(0) = <<>>
      BY SubSeqEmpty
    <2>2. FlattenSeq(q) \in Seq(S)
      BY FlattenType
    <2>3. q \o <<>> = q /\ FlattenSeq(q) \o <<>> = FlattenSeq(q)
      BY <2>2, ConcatEmptySeq
    <2>4. QED
      BY <2>1, <2>3, FlattenEmpty
  <1>2. ASSUME NEW n \in T PROVE n + 1 \in T
    <2> SUFFICES ASSUME n + 1 <= Len(r)
                 PROVE  FlattenSeq(q \o R(n + 1)) = FlattenSeq(q) \o FlattenSeq(R(n + 1))
      OBVIOUS
    <2>1. r[n + 1] \in Seq(S) /\ R(n) \in Seq(Seq(S))
      OBVIOUS
    <2>2. R(n + 1) = Append(R(n), r[n + 1])
      OBVIOUS
    <2>3. q \o Append(R(n), r[n + 1]) = Append(q \o R(n), r[n + 1]) /\ q \o R(n) \in Seq(Seq(S))
      BY <2>1, ConcatAppend
    <2>4. FlattenSeq(q \o R(n)) = FlattenSeq(q) \o FlattenSeq(R(n))
      BY <1>2
    <2> HIDE DEF R, T
    <2>5. FlattenSeq(q \o R(n + 1)) = FlattenSeq(q \o R(n)) \o r[n + 1]
      BY <2>1, <2>2, <2>3, FlattenAppend
    <2>6. FlattenSeq(R(n + 1)) = FlattenSeq(R(n)) \o r[n + 1]
      BY <2>1, <2>2, FlattenAppend
    <2>7. FlattenSeq(q) \in Seq(S) /\ FlattenSeq(R(n)) \in Seq(S)
      BY <2>1, FlattenType
    <2>8. (FlattenSeq(q) \o FlattenSeq(R(n))) \o r[n + 1]
            = FlattenSeq(q) \o (FlattenSeq(R(n)) \o r[n + 1])
      <3>1. PICK a \in Seq(S) : a = FlattenSeq(q)
        BY <2>7
      <3>2. PICK b \in Seq(S) : b = FlattenSeq(R(n))
        BY <2>7
      <3>3. PICK x \in Seq(S) : x = r[n + 1]
        BY <2>1
      <3>4. (a \o b) \o x = a \o (b \o x)
        <4>1. Regroups(a, b, x)
          BY Regroup
        <4> QED
          BY ONLY <4>1 DEF Regroups
      <3>5. QED
        BY <3>1, <3>2, <3>3, <3>4
    <2>9. QED
      BY <2>4, <2>5, <2>6, <2>8
  <1> HIDE DEF T
  <1>3. T = Nat
    BY <1>1, <1>2, SetInduction DEF T
  <1>4. R(Len(r)) = r /\ Len(r) \in Nat
    BY SubSeqFull
  <1>5. Len(r) \in T
    BY <1>3, <1>4
  <1>6. FlattenSeq(q \o R(Len(r))) = FlattenSeq(q) \o FlattenSeq(R(Len(r)))
    BY <1>4, <1>5 DEF T
  <1>7. QED
    BY <1>4, <1>6

LEMMA FlattenHead ==
    ASSUME NEW S, NEW q \in Seq(Seq(S)), q # <<>>
    PROVE  FlattenSeq(q) = Head(q) \o FlattenSeq(Tail(q))
  <1>1. Head(q) \in Seq(S) /\ Tail(q) \in Seq(Seq(S)) /\ <<Head(q)>> \in Seq(Seq(S))
    OBVIOUS
  <1>2. q = <<Head(q)>> \o Tail(q)
    OBVIOUS
  <1>3. FlattenSeq(<<Head(q)>> \o Tail(q)) = FlattenSeq(<<Head(q)>>) \o FlattenSeq(Tail(q))
    BY <1>1, FlattenConcat
  <1>4. FlattenSeq(<<Head(q)>>) = Head(q)
    BY <1>1, FlattenOne
  <1>5. QED
    BY <1>2, <1>3, <1>4

-----------------------------------------------------------------------------
(* Cuts                                                                    *)

LEMMA ConcatFacts ==
    ASSUME NEW S, NEW s \in Seq(S), NEW t \in Seq(S)
    PROVE  /\ s \o t \in Seq(S) /\ Len(s \o t) = Len(s) + Len(t) /\ Len(s) \in Nat /\ Len(t) \in Nat
           /\ \A i \in 1 .. Len(s) : (s \o t)[i] = s[i]
           /\ \A i \in 1 .. Len(t) : (s \o t)[Len(s) + i] = t[i]
  OBVIOUS

LEMMA FirstPart ==
    ASSUME NEW S, NEW s \in Seq(S), NEW n \in Nat, n <= Len(s), NEW a, a = SubSeq(s, 1, n)
    PROVE  a \in Seq(S) /\ Len(a) = n /\ \A i \in 1 .. n : a[i] = s[i]
  <1>2. a \in Seq(S)
    OBVIOUS
  <1>3. Len(a) = n
    OBVIOUS
  <1>4. \A i \in 1 .. n : a[i] = s[i]
    OBVIOUS
  <1> QED
    BY <1>2, <1>3, <1>4

LEMMA LastPart ==
    ASSUME NEW S, NEW s \in Seq(S), NEW n \in Nat, n <= Len(s), NEW b, b = SubSeq(s, n + 1, Len(s))
    PROVE  b \in Seq(S) /\ Len(b) = Len(s) - n /\ \A i \in 1 .. Len(s) - n : b[i] = s[n + i]
  <1>2. b \in Seq(S)
    OBVIOUS
  <1>3. Len(b) = Len(s) - n
    OBVIOUS
  <1>4. ASSUME NEW i \in 1 .. Len(s) - n PROVE b[i] = s[n + i]
    <2>1. b[i] = s[((n + 1) + i) - 1] /\ ((n + 1) + i) - 1 = n + i
      OBVIOUS
    <2> QED
      BY <2>1
  <1> QED
    BY <1>2, <1>3, <1>4

LEMMA SameSeq ==
    ASSUME NEW S, NEW s \in Seq(S), NEW t \in Seq(S), Len(s) = Len(t), \A i \in 1 .. Len(s) : s[i] = t[i]
    PROVE  s = t
  OBVIOUS

(* The first n elements and the others make the whole.                     *)
LEMMA CutAt ==
    ASSUME NEW S, NEW s \in Seq(S), NEW n \in Nat, n <= Len(s)
    PROVE  /\ SubSeq(s, 1, n) \in Seq(S) /\ SubSeq(s, n + 1, Len(s)) \in Seq(S)
           /\ Len(SubSeq(s, 1, n)) = n /\ Len(SubSeq(s, n + 1, Len(s))) = Len(s) - n
           /\ SubSeq(s, 1, n) \o SubSeq(s, n + 1, Len(s)) = s
  <1>0. Len(s) \in Nat /\ n + 1 \in Nat /\ 1 <= n + 1 /\ n + 1 <= Len(s) + 1
    OBVIOUS
  <1>1. PICK a : a = SubSeq(s, 1, n)
    OBVIOUS
  <1>2. PICK b : b = SubSeq(s, n + 1, Len(s))
    OBVIOUS
  <1>11. a \in Seq(S) /\ Len(a) = n /\ \A i \in 1 .. n : a[i] = s[i]
    BY <1>1, FirstPart
  <1>12. b \in Seq(S) /\ Len(b) = Len(s) - n /\ \A i \in 1 .. Len(s) - n : b[i] = s[n + i]
    BY <1>2, LastPart
  <1>3. a \o b \in Seq(S) /\ Len(a \o b) = Len(s)
    <2>1. a \o b \in Seq(S) /\ Len(a \o b) = Len(a) + Len(b)
      BY <1>11, <1>12, ConcatFacts
    <2>2. n + (Len(s) - n) = Len(s)
      BY <1>0
    <2> QED
      BY <1>11, <1>12, <2>1, <2>2
  <1>4. ASSUME NEW i \in 1 .. Len(s) PROVE (a \o b)[i] = s[i]
    <2>1. CASE i \in 1 .. n
      BY <1>11, <1>12, <2>1, ConcatFacts
    <2>2. CASE i \notin 1 .. n
      <3>1. i - n \in 1 .. Len(s) - n /\ n + (i - n) = i
        BY <1>0, <2>2
      <3>2. (a \o b)[Len(a) + (i - n)] = b[i - n]
        BY <1>11, <1>12, <3>1, ConcatFacts
      <3>3. b[i - n] = s[n + (i - n)]
        BY <1>12, <3>1
      <3> QED
        BY <1>11, <3>1, <3>2, <3>3
    <2> QED
      BY <2>1, <2>2
  <1>5. a \o b = s
    BY <1>3, <1>4, SameSeq
  <1> QED
    BY <1>1, <1>2, <1>5, <1>11, <1>12

(* Two ways to cut the same sequence, the first one later.                 *)
LEMMA SameCut ==
    ASSUME NEW S, NEW a \in Seq(S), NEW b \in Seq(S), NEW p \in Seq(S), NEW t \in Seq(S),
           a \o b = p \o t, Len(a) >= Len(p)
    PROVE  /\ SubSeq(a, 1, Len(p)) = p
           /\ SubSeq(a, Len(p) + 1, Len(a)) \o b = t
  <1>0. Len(a) \in Nat /\ Len(p) \in Nat /\ Len(b) \in Nat /\ Len(t) \in Nat
    OBVIOUS
  <1>1. PICK h \in Seq(S) : h = SubSeq(a, 1, Len(p)) /\ Len(h) = Len(p) /\ \A i \in 1 .. Len(p) : h[i] = a[i]
    <2>1. PICK h : h = SubSeq(a, 1, Len(p))
      OBVIOUS
    <2>2. h \in Seq(S) /\ Len(h) = Len(p) /\ \A i \in 1 .. Len(p) : h[i] = a[i]
      BY <1>0, <2>1, FirstPart
    <2> QED
      BY <2>1, <2>2
  <1>2. ASSUME NEW i \in 1 .. Len(p) PROVE h[i] = p[i]
    <2>1. (a \o b)[i] = a[i] /\ (p \o t)[i] = p[i]
      BY <1>0
    <2> QED
      BY <1>1, <2>1
  <1>3. h = p
    BY <1>1, <1>2, SameSeq
  <1>4. PICK r \in Seq(S) : r = SubSeq(a, Len(p) + 1, Len(a)) /\ h \o r = a
    <2>1. PICK n \in Nat : n = Len(p)
      BY <1>0
    <2>2. /\ SubSeq(a, n + 1, Len(a)) \in Seq(S)
          /\ SubSeq(a, 1, n) \o SubSeq(a, n + 1, Len(a)) = a
      BY <2>1, CutAt
    <2> QED
      BY <1>1, <2>1, <2>2
  <1>5. (p \o r) \o b = p \o (r \o b)
    <2>1. Regroups(p, r, b)
      BY Regroup
    <2> QED
      BY ONLY <2>1 DEF Regroups
  <1>6. r \o b \in Seq(S)
    OBVIOUS
  <1>7. PICK u \in Seq(S) : u = r \o b
    BY <1>6
  <1>8. p \o u = p \o t
    BY <1>3, <1>4, <1>5, <1>7
  <1>9. Len(u) = Len(t)
    <2>1. Len(p \o u) = Len(p) + Len(u) /\ Len(p \o t) = Len(p) + Len(t) /\ Len(u) \in Nat
      BY ConcatFacts
    <2> QED
      BY <1>0, <1>8, <2>1
  <1>10. ASSUME NEW i \in 1 .. Len(u) PROVE u[i] = t[i]
    <2>1. (p \o u)[Len(p) + i] = u[i]
      BY ConcatFacts
    <2>2. (p \o t)[Len(p) + i] = t[i]
      BY <1>9, ConcatFacts
    <2> QED
      BY <1>8, <2>1, <2>2
  <1>11. u = t
    BY <1>9, <1>10, SameSeq
  <1> QED
    BY <1>1, <1>3, <1>4, <1>7, <1>11

LEMMA SameStart ==
    ASSUME NEW S, NEW a \in Seq(S), NEW b \in Seq(S), NEW p \in Seq(S), NEW t \in Seq(S),
           a \o b = p \o t, NEW n \in Nat, Len(a) >= n, Len(p) >= n
    PROVE  SubSeq(a, 1, n) = SubSeq(p, 1, n)
  <1>0. PICK g, h : g = SubSeq(a, 1, n) /\ h = SubSeq(p, 1, n)
    OBVIOUS
  <1>1. g \in Seq(S) /\ Len(g) = n /\ \A i \in 1 .. n : g[i] = a[i]
    BY <1>0, FirstPart
  <1>2. h \in Seq(S) /\ Len(h) = n /\ \A i \in 1 .. n : h[i] = p[i]
    BY <1>0, FirstPart
  <1>3. ASSUME NEW i \in 1 .. n PROVE g[i] = h[i]
    <2>1. i \in 1 .. Len(a) /\ i \in 1 .. Len(p)
      OBVIOUS
    <2>2. (a \o b)[i] = a[i] /\ (p \o t)[i] = p[i]
      BY <2>1, ConcatFacts
    <2> QED
      BY <1>1, <1>2, <2>2
  <1>4. g = h
    BY <1>1, <1>2, <1>3, SameSeq
  <1> QED
    BY <1>0, <1>4

(* Taking the first n elements x of b over to a leaves y, and the whole    *)
(* the same.                                                               *)
Moved(S, a, b, n, x, y) == a \o x \in Seq(S) /\ Len(a \o x) = Len(a) + n /\ (a \o x) \o y = a \o b

LEMMA MoveOver ==
    ASSUME NEW S, NEW a \in Seq(S), NEW b \in Seq(S), NEW n \in Nat, n <= Len(b),
           NEW x \in Seq(S), x = SubSeq(b, 1, n), NEW y \in Seq(S), y = SubSeq(b, n + 1, Len(b))
    PROVE  Moved(S, a, b, n, x, y)
  <1>1. Len(SubSeq(b, 1, n)) = n /\ SubSeq(b, 1, n) \o SubSeq(b, n + 1, Len(b)) = b
    BY CutAt
  <1>2. Len(x) = n /\ x \o y = b
    BY ONLY <1>1, x = SubSeq(b, 1, n), y = SubSeq(b, n + 1, Len(b)), Zenon
  <1>3. (a \o x) \o y = a \o (x \o y)
    <2>1. Regroups(a, x, y)
      BY Regroup
    <2> QED
      BY ONLY <2>1 DEF Regroups
  <1>4. a \o x \in Seq(S) /\ Len(a \o x) = Len(a) + Len(x)
    BY ConcatFacts
  <1> QED
    BY ONLY <1>2, <1>3, <1>4, Zenon DEF Moved

-----------------------------------------------------------------------------
(* Commands as bytes                                                       *)

LEMMA MessageFacts ==
    ASSUME NEW m \in Message
    PROVE  /\ m.type \in Nat /\ m.type < Power[TypeSz] /\ m.body \in Seq(Byte) /\ Len(m.body) \in Nat
           /\ tot_sz + Len(m.body) \in Nat /\ tot_sz + Len(m.body) < Power[LenSz]
           /\ m = [type |-> m.type, body |-> m.body]
  <1>1. m \in [type : 0 .. Power[TypeSz] - 1, body : Seq(Byte)]
    BY LtAssumption
  <1>2. PICK p \in Nat : p = Power[TypeSz]
    BY Sizes, PowerType
  <1>3. m.type \in 0 .. p - 1 /\ m.body \in Seq(Byte) /\ m = [type |-> m.type, body |-> m.body]
    BY <1>1, <1>2
  <1>4. m.type \in Nat /\ m.type < p
    BY <1>3
  <1>5. Len(m.body) \in Nat
    BY <1>3
  <1>6. tot_sz + Len(m.body) < Power[LenSz]
    BY LtAssumption
  <1>7. tot_sz + Len(m.body) \in Nat
    <2>1. PICK x \in Nat : x = Len(m.body)
      BY <1>5
    <2>2. PICK z \in Nat : z = tot_sz
      BY Sizes
    <2>3. z + x \in Nat
      OBVIOUS
    <2> QED
      BY <2>1, <2>2, <2>3
  <1> QED
    BY <1>2, <1>3, <1>4, <1>5, <1>6, <1>7

(* A packed command says how long it is, and unpacks to what was packed.   *)
LEMMA PackedFacts ==
    ASSUME NEW m \in Message
    PROVE  /\ pack_with_header(m) \in Seq(Byte)
           /\ Len(pack_with_header(m)) \in Nat
           /\ Len(pack_with_header(m)) >= tot_sz
           /\ Unpack(SubSeq(pack_with_header(m), 1, LenSz)) = Len(pack_with_header(m))
           /\ Unpacked(pack_with_header(m)) = m
  <1>0. /\ m.type \in Nat /\ m.type < Power[TypeSz] /\ m.body \in Seq(Byte) /\ Len(m.body) \in Nat
        /\ tot_sz + Len(m.body) \in Nat /\ tot_sz + Len(m.body) < Power[LenSz]
        /\ m = [type |-> m.type, body |-> m.body]
    BY MessageFacts
  <1>1. LenSz \in Nat /\ TypeSz \in Nat /\ tot_sz \in Nat /\ tot_sz = LenSz + TypeSz
    BY Sizes
  <1>2. PICK l \in Seq(Byte) : l = Pack(tot_sz + Len(m.body), LenSz) /\ Len(l) = LenSz /\ Unpack(l) = tot_sz + Len(m.body)
    BY <1>0, <1>1, PackFacts, UnpackPack
  <1>3. PICK t \in Seq(Byte) : t = Pack(m.type, TypeSz) /\ Len(t) = TypeSz /\ Unpack(t) = m.type
    BY <1>0, <1>1, PackFacts, UnpackPack
  <1>4. PICK b \in Seq(Byte) : b = m.body
    BY <1>0
  <1>5. pack_with_header(m) = (l \o t) \o b
    BY <1>2, <1>3, <1>4 DEF pack_with_header
  <1>6. PICK h \in Seq(Byte) : h = l \o t /\ Len(h) = tot_sz
    <2>1. l \o t \in Seq(Byte) /\ Len(l \o t) = Len(l) + Len(t)
      BY ConcatFacts
    <2> QED
      BY <1>1, <1>2, <1>3, <2>1
  <1>7. PICK p \in Seq(Byte) : p = h \o b /\ Len(p) = tot_sz + Len(b)
    BY <1>6, ConcatFacts
  <1>8. PICK e \in Seq(Byte) : e = <<>>
    <2>1. <<>> \in Seq(Byte)
      OBVIOUS
    <2> QED
      BY <2>1
  <1>9. p \o e = p
    BY <1>8
  <1>10. (l \o t) \o b = l \o (t \o b)
    <2>1. Regroups(l, t, b)
      BY Regroup
    <2> QED
      BY ONLY <2>1 DEF Regroups
  <1>11. PICK u \in Seq(Byte) : u = t \o b
    BY ConcatFacts
  <1>12. p \o e = l \o u
    BY <1>6, <1>7, <1>9, <1>10, <1>11
  <1>13. Len(p) >= Len(l) /\ Len(b) \in Nat
    <2>1. Len(b) \in Nat
      OBVIOUS
    <2>2. Len(l) = LenSz /\ Len(p) = LenSz + TypeSz + Len(b)
      BY <1>1, <1>2, <1>7
    <2> QED
      BY <1>1, <2>1, <2>2
  <1>14. SubSeq(p, 1, Len(l)) = l
    BY <1>12, <1>13, SameCut
  <1>15. p \o e = h \o b /\ Len(p) >= Len(h)
    BY <1>1, <1>6, <1>7, <1>9, <1>13
  <1>16. SubSeq(p, Len(h) + 1, Len(p)) \o e = b
    BY <1>15, SameCut
  <1>17. SubSeq(p, tot_sz + 1, Len(p)) = b
    <2>1. PICK w : w = SubSeq(p, tot_sz + 1, Len(p))
      OBVIOUS
    <2>2. w \in Seq(Byte)
      BY <1>1, <1>7, <1>13, <2>1, LastPart
    <2>3. w \o <<>> = w
      BY <2>2
    <2> QED
      BY <1>6, <1>8, <1>16, <2>1, <2>3
  <1>18. SubSeq(p, LenSz + 1, tot_sz) = t
    <2>1. PICK s : s = SubSeq(p, LenSz + 1, tot_sz)
      OBVIOUS
    <2>2. Len(p) \in Nat /\ tot_sz <= Len(p) /\ (tot_sz - (LenSz + 1)) + 1 = TypeSz
      BY <1>1, <1>7, <1>13
    <2>3. s \in Seq(Byte)
      BY <1>1, <2>1, <2>2
    <2>4. Len(s) = TypeSz
      BY <1>1, <2>1, <2>2
    <2>5. ASSUME NEW i \in 1 .. TypeSz PROVE s[i] = t[i]
      <3>1. s[i] = p[((LenSz + 1) + i) - 1] /\ ((LenSz + 1) + i) - 1 = LenSz + i
        BY <1>1, <2>1, <2>2
      <3>2. LenSz + i \in 1 .. Len(h) /\ i \in 1 .. Len(t)
        BY <1>1, <1>3, <1>6
      <3>3. (h \o b)[LenSz + i] = h[LenSz + i]
        BY <3>2, ConcatFacts
      <3>4. (l \o t)[Len(l) + i] = t[i]
        BY <3>2, ConcatFacts
      <3> QED
        BY <1>2, <1>6, <1>7, <3>1, <3>3, <3>4
    <2>6. s = t
      BY <1>3, <2>3, <2>4, <2>5, SameSeq
    <2> QED
      BY <2>1, <2>6
  <1>19. p = pack_with_header(m) /\ Len(p) \in Nat /\ Len(p) >= tot_sz /\ Len(p) = tot_sz + Len(m.body)
    <2>1. p = pack_with_header(m)
      BY <1>5, <1>6, <1>7
    <2>2. PICK x \in Nat : x = Len(b)
      BY <1>13
    <2>3. tot_sz + x \in Nat /\ tot_sz + x >= tot_sz
      BY <1>1
    <2> QED
      BY <1>4, <1>7, <2>1, <2>2, <2>3
  <1>20. Unpack(SubSeq(p, 1, LenSz)) = Len(p)
    BY <1>2, <1>14, <1>19
  <1>21. Unpacked(p) = m
    BY <1>0, <1>3, <1>4, <1>17, <1>18 DEF Unpacked, TypeOf, Body
  <1> QED
    BY <1>19, <1>20, <1>21

Packed(q) == [k \in 1 .. Len(q) |-> pack_with_header(q[k])]
Bytes(q) == FlattenSeq(Packed(q))

LEMMA PackedType ==
    ASSUME NEW q \in Seq(Message)
    PROVE  Packed(q) \in Seq(Seq(Byte)) /\ Len(Packed(q)) = Len(q) /\ Bytes(q) \in Seq(Byte)
  <1>1. \A k \in 1 .. Len(q) : pack_with_header(q[k]) \in Seq(Byte)
    BY PackedFacts
  <1>2. Len(q) \in Nat
    OBVIOUS
  <1>3. PICK r : r = Packed(q)
    OBVIOUS
  <1>4. r \in Seq(Seq(Byte)) /\ Len(r) = Len(q)
    BY <1>1, <1>2, <1>3 DEF Packed
  <1>5. FlattenSeq(r) \in Seq(Byte)
    BY <1>4, FlattenType
  <1> QED
    BY <1>3, <1>4, <1>5 DEF Bytes

LEMMA BytesNone == Bytes(<<>>) = <<>>
  <1>1. Packed(<<>>) = <<>>
    BY DEF Packed
  <1> QED
    BY <1>1, FlattenEmpty DEF Bytes

LEMMA BytesAppend ==
    ASSUME NEW q \in Seq(Message), NEW m \in Message
    PROVE  Bytes(Append(q, m)) = Bytes(q) \o pack_with_header(m)
  <1>1. PICK n \in Nat : n = Len(q)
    OBVIOUS
  <1>2. PICK r \in Seq(Seq(Byte)) : r = Packed(q) /\ Len(r) = n /\ \A k \in 1 .. n : r[k] = pack_with_header(q[k])
    BY <1>1, PackedType DEF Packed
  <1>3. PICK p \in Seq(Byte) : p = pack_with_header(m)
    BY PackedFacts
  <1>4. /\ Append(q, m) \in Seq(Message) /\ Len(Append(q, m)) = n + 1
        /\ Append(q, m)[n + 1] = m /\ \A k \in 1 .. n : Append(q, m)[k] = q[k]
    BY <1>1
  <1>5. PICK s \in Seq(Seq(Byte)) : s = Packed(Append(q, m)) /\ Len(s) = n + 1
                                    /\ \A k \in 1 .. n + 1 : s[k] = pack_with_header(Append(q, m)[k])
    BY <1>4, PackedType DEF Packed
  <1>6. /\ Append(r, p) \in Seq(Seq(Byte)) /\ Len(Append(r, p)) = n + 1
        /\ Append(r, p)[n + 1] = p /\ \A k \in 1 .. n : Append(r, p)[k] = r[k]
    BY <1>2
  <1>7. ASSUME NEW k \in 1 .. n + 1 PROVE s[k] = Append(r, p)[k]
    <2>0. k = n + 1 \/ k \in 1 .. n
      OBVIOUS
    <2>1. CASE k = n + 1
      BY <1>3, <1>4, <1>5, <1>6, <2>1
    <2>2. CASE k \in 1 .. n
      BY <1>2, <1>4, <1>5, <1>6, <2>2
    <2> QED
      BY <2>0, <2>1, <2>2
  <1>8. s = Append(r, p)
    BY <1>5, <1>6, <1>7, SameSeq
  <1>9. FlattenSeq(Append(r, p)) = FlattenSeq(r) \o p
    BY FlattenAppend
  <1> QED
    BY <1>2, <1>3, <1>5, <1>8, <1>9 DEF Bytes

LEMMA BytesHead ==
    ASSUME NEW q \in Seq(Message), q # <<>>
    PROVE  Bytes(q) = pack_with_header(Head(q)) \o Bytes(Tail(q))
  <1>1. /\ Head(q) \in Message /\ Tail(q) \in Seq(Message) /\ Head(q) = q[1] /\ Len(q) \in Nat /\ Len(q) >= 1
        /\ Len(Tail(q)) = Len(q) - 1 /\ \A k \in 1 .. Len(q) - 1 : Tail(q)[k] = q[k + 1]
    OBVIOUS
  <1>2. PICK r \in Seq(Seq(Byte)) : r = Packed(q) /\ Len(r) = Len(q) /\ \A k \in 1 .. Len(q) : r[k] = pack_with_header(q[k])
    BY PackedType DEF Packed
  <1>3. PICK s \in Seq(Seq(Byte)) : s = Packed(Tail(q)) /\ Len(s) = Len(q) - 1
                                    /\ \A k \in 1 .. Len(q) - 1 : s[k] = pack_with_header(Tail(q)[k])
    BY <1>1, PackedType DEF Packed
  <1>4. /\ r # <<>> /\ Head(r) = r[1] /\ Tail(r) \in Seq(Seq(Byte)) /\ Len(Tail(r)) = Len(q) - 1
        /\ \A k \in 1 .. Len(q) - 1 : Tail(r)[k] = r[k + 1]
    BY <1>1, <1>2
  <1>5. ASSUME NEW k \in 1 .. Len(q) - 1 PROVE s[k] = Tail(r)[k]
    <2>1. k + 1 \in 1 .. Len(q)
      BY <1>1
    <2> QED
      BY <1>1, <1>2, <1>3, <1>4, <2>1
  <1>6. s = Tail(r)
    BY <1>3, <1>4, <1>5, SameSeq
  <1>7. r[1] = pack_with_header(Head(q))
    BY <1>1, <1>2
  <1>8. FlattenSeq(r) = Head(r) \o FlattenSeq(Tail(r))
    BY <1>4, FlattenHead
  <1> QED
    BY <1>2, <1>3, <1>4, <1>6, <1>7, <1>8 DEF Bytes

-----------------------------------------------------------------------------
(* The commands sent are the ones handled and the ones whose bytes are     *)
(* read or on their way.                                                   *)
Carries(s, g, b) == \E q \in Seq(Message) : s = g \o q /\ b = Bytes(q)

LEMMA CarriesNone == Carries(<<>>, <<>>, <<>>)
  <1>1. <<>> \in Seq(Message) /\ <<>> = <<>> \o <<>>
    OBVIOUS
  <1> QED
    BY <1>1, BytesNone DEF Carries

LEMMA CarriesSend ==
    ASSUME NEW s \in Seq(Message), NEW g \in Seq(Message), NEW b \in Seq(Byte), NEW m \in Message,
           Carries(s, g, b)
    PROVE  Carries(Append(s, m), g, b \o pack_with_header(m))
  <1>1. PICK q \in Seq(Message) : s = g \o q /\ b = Bytes(q)
    BY DEF Carries
  <1>2. g \o Append(q, m) = Append(s, m)
    BY <1>1, ConcatAppend
  <1>3. Bytes(Append(q, m)) = b \o pack_with_header(m)
    BY <1>1, BytesAppend
  <1>4. Append(q, m) \in Seq(Message)
    OBVIOUS
  <1> QED
    BY <1>2, <1>3, <1>4 DEF Carries

(* Once a buffer has a length and as many bytes as it says, it starts with *)
(* the first command that is not handled yet.                              *)
LEMMA CarriesTake ==
    ASSUME NEW s \in Seq(Message), NEW g \in Seq(Message), NEW a \in Seq(Byte), NEW b \in Seq(Byte),
           Carries(s, g, a \o b), Len(a) >= LenSz,
           NEW n, n = Unpack(SubSeq(a, 1, LenSz)), n <= Len(a),
           NEW m, m = Unpacked(SubSeq(a, 1, n))
    PROVE  /\ n >= tot_sz /\ m \in Message /\ Len(g) < Len(s) /\ m = s[Len(g) + 1]
           /\ Carries(s, Append(g, m), SubSeq(a, n + 1, Len(a)) \o b)
  <1>1. PICK q \in Seq(Message) : s = g \o q /\ a \o b = Bytes(q)
    BY DEF Carries
  <1>2. q # <<>>
    <2>1. SUFFICES ASSUME q = <<>> PROVE FALSE
      OBVIOUS
    <2>2. a \o b = <<>>
      BY <1>1, <2>1, BytesNone
    <2>3. Len(a \o b) = Len(a) + Len(b) /\ Len(a) \in Nat /\ Len(b) \in Nat
      BY ConcatFacts
    <2>4. Len(a \o b) = 0
      BY <2>2
    <2> QED
      BY <2>3, <2>4, Sizes
  <1>3. PICK h \in Message : h = Head(q)
    BY <1>2
  <1>4. PICK r \in Seq(Message) : r = Tail(q)
    <2>1. Tail(q) \in Seq(Message)
      BY <1>2
    <2> QED
      BY <2>1
  <1>5. PICK p \in Seq(Byte) : /\ p = pack_with_header(h) /\ Len(p) \in Nat /\ Len(p) >= tot_sz
                               /\ Unpack(SubSeq(p, 1, LenSz)) = Len(p) /\ Unpacked(p) = h
    BY PackedFacts
  <1>6. PICK t \in Seq(Byte) : t = Bytes(r)
    BY PackedType
  <1>7. a \o b = p \o t
    BY <1>1, <1>2, <1>3, <1>4, <1>5, <1>6, BytesHead
  <1>8. LenSz \in Nat /\ Len(p) >= LenSz
    BY <1>5, Sizes
  <1>9. SubSeq(a, 1, LenSz) = SubSeq(p, 1, LenSz)
    BY <1>7, <1>8, SameStart
  <1>10. n = Len(p)
    BY <1>5, <1>9
  <1>11. SubSeq(a, 1, n) = p /\ SubSeq(a, n + 1, Len(a)) \o b = t
    <2>1. Len(a) >= Len(p) /\ Len(a) \in Nat
      BY <1>5, <1>10
    <2>2. SubSeq(a, 1, Len(p)) = p /\ SubSeq(a, Len(p) + 1, Len(a)) \o b = t
      BY <1>7, <2>1, SameCut
    <2> QED
      BY <1>10, <2>2
  <1>12. m = h
    BY <1>5, <1>11
  <1>13. q = <<h>> \o r /\ <<h>> \in Seq(Message)
    BY <1>2, <1>3, <1>4
  <1>14. Append(g, h) = g \o <<h>>
    OBVIOUS
  <1>15. (g \o <<h>>) \o r = g \o (<<h>> \o r)
    <2>1. Regroups(g, <<h>>, r)
      BY <1>13, Regroup
    <2> QED
      BY ONLY <2>1 DEF Regroups
  <1>16. s = Append(g, h) \o r
    BY <1>1, <1>13, <1>14, <1>15
  <1>17. Len(g) < Len(s) /\ s[Len(g) + 1] = h
    <2>1. Len(q) \in Nat /\ Len(q) >= 1 /\ q[1] = h
      BY <1>2, <1>3
    <2>2. /\ Len(g \o q) = Len(g) + Len(q) /\ Len(g) \in Nat
          /\ \A i \in 1 .. Len(q) : (g \o q)[Len(g) + i] = q[i]
      BY ConcatFacts
    <2> QED
      BY <1>1, <2>1, <2>2
  <1>18. Carries(s, Append(g, h), t)
    BY <1>6, <1>16 DEF Carries
  <1> QED
    BY <1>5, <1>10, <1>11, <1>12, <1>17, <1>18

-----------------------------------------------------------------------------
(* The inductive invariant                                                 *)

ConnInv ==
    /\ conn \in {"none", "up", "dropped", "lost"} /\ conns \in 0 .. MaxConns
    /\ looping \in BOOLEAN /\ (looping => conn = "up")

UpTypes ==
    /\ wire \in Seq(Byte) /\ packet \in Seq(Byte) /\ received \in Seq(Byte) /\ frames \in Seq(Seq(Byte))
    /\ sent \in Seq(Message) /\ got \in Seq(Message)
    /\ short \in BOOLEAN /\ plen = Len(packet)

UpCarries == ~ short => Carries(sent, got, packet \o wire)

FramesWhole == \A k \in 1 .. Len(frames) : Unpack(SubSeq(frames[k], 1, LenSz)) = Len(frames[k])

Kept == conn = "up" => FlattenSeq(frames) \o packet = received

NoneLeft == conn = "up" /\ ~ looping => ~ HasPacket

DownTypes ==
    /\ dwire \in Seq(Byte) /\ buf \in Seq(Byte)
    /\ dsent \in Seq(Message) /\ dgot \in Seq(Message)

DownCarries == Carries(dsent, dgot, buf \o dwire)

UpInv == UpTypes /\ UpCarries /\ FramesWhole /\ Kept /\ NoneLeft
DownInv == DownTypes /\ DownCarries
LtInv == ConnInv /\ UpInv /\ DownInv

(* The parts a step does not touch stay as they are.                       *)
LEMMA UpFrame ==
    ASSUME UpInv, UNCHANGED <<wire, packet, plen, sent, got, received, frames, short>>,
           conn' = "up" => conn = "up" /\ looping' = looping
    PROVE  UpInv'
  <1>1. UpTypes' /\ UpCarries' /\ FramesWhole'
    BY DEF UpInv, UpTypes, UpCarries, FramesWhole
  <1>2. Kept' /\ NoneLeft'
    BY DEF UpInv, Kept, NoneLeft, HasPacket, lenNeeded
  <1> QED
    BY <1>1, <1>2 DEF UpInv

LEMMA DownFrame ==
    ASSUME DownInv, UNCHANGED down
    PROVE  DownInv'
  BY DEF DownInv, DownTypes, DownCarries, down

LEMMA NoPacketInNothing ==
    ASSUME plen = 0 PROVE ~ HasPacket
  BY Sizes DEF HasPacket

LEMMA Empties ==
    /\ <<>> \in Seq(Message) /\ <<>> \in Seq(Byte) /\ <<>> \in Seq(Seq(Byte))
    /\ Len(<<>>) = 0
  OBVIOUS

LEMMA EmptyUp ==
    ASSUME wire = <<>>, packet = <<>>, plen = 0, sent = <<>>, got = <<>>, received = <<>>, frames = <<>>,
           short = FALSE
    PROVE  UpInv
  <1>1. UpTypes
    BY Empties, Zenon DEF UpTypes
  <1>2. <<>> \o <<>> = <<>>
    OBVIOUS
  <1>3. UpCarries
    BY <1>2, CarriesNone DEF UpCarries
  <1>4. FramesWhole
    <2>1. Len(frames) = 0
      OBVIOUS
    <2> QED
      BY <2>1 DEF FramesWhole
  <1>5. Kept
    BY <1>2, FlattenEmpty DEF Kept
  <1>6. NoneLeft
    BY NoPacketInNothing DEF NoneLeft
  <1> QED
    BY <1>1, <1>3, <1>4, <1>5, <1>6 DEF UpInv

LEMMA EmptyDown ==
    ASSUME dwire = <<>>, buf = <<>>, dsent = <<>>, dgot = <<>>
    PROVE  DownInv
  <1>1. DownTypes
    BY DEF DownTypes
  <1>2. <<>> \o <<>> = <<>>
    OBVIOUS
  <1>3. DownCarries
    BY <1>2, CarriesNone DEF DownCarries
  <1> QED
    BY <1>1, <1>3 DEF DownInv

LEMMA LtInit == Init => LtInv
  <1> SUFFICES ASSUME Init PROVE LtInv
    OBVIOUS
  <1>1. ConnInv
    <2>1. 0 \in 0 .. MaxConns
      BY Sizes
    <2> QED
      BY <2>1, Zenon DEF Init, ConnInv
  <1>2. UpInv
    BY EmptyUp DEF Init
  <1>3. DownInv
    BY EmptyDown DEF Init
  <1> QED
    BY <1>1, <1>2, <1>3 DEF LtInv

LEMMA MadeKeeps ==
    ASSUME LtInv, connectionMade PROVE LtInv'
  <1>1. ConnInv'
    <2>1. looping = FALSE
      BY DEF LtInv, ConnInv, connectionMade
    <2>2. conns + 1 \in 0 .. MaxConns
      BY Sizes DEF LtInv, ConnInv, connectionMade
    <2> QED
      BY <2>1, <2>2 DEF ConnInv, connectionMade
  <1>2. UpInv'
    <2>1. UpTypes'
      BY Empties, Zenon DEF UpTypes, connectionMade
    <2>2. <<>> \o <<>> = <<>>
      OBVIOUS
    <2>3. UpCarries'
      BY <2>2, CarriesNone DEF UpCarries, connectionMade
    <2>4. FramesWhole'
      <3>1. Len(frames') = 0
        BY DEF connectionMade
      <3> QED
        BY <3>1 DEF FramesWhole
    <2>5. Kept'
      BY <2>2, FlattenEmpty DEF Kept, connectionMade
    <2>6. NoneLeft'
      BY Sizes DEF NoneLeft, HasPacket, connectionMade
    <2> QED
      BY <2>1, <2>3, <2>4, <2>5, <2>6 DEF UpInv
  <1>3. DownInv'
    <2>1. DownTypes'
      BY DEF DownTypes, connectionMade
    <2>2. <<>> \o <<>> = <<>>
      OBVIOUS
    <2>3. DownCarries'
      BY <2>2, CarriesNone DEF DownCarries, connectionMade
    <2> QED
      BY <2>1, <2>3 DEF DownInv
  <1> QED
    BY <1>1, <1>2, <1>3 DEF LtInv

LEMMA LostKeeps ==
    ASSUME LtInv, connectionLost \/ RouterGivesUp PROVE LtInv'
  <1>0. ~ looping /\ conn' = "lost" /\ UNCHANGED <<conns, up, down>>
    BY DEF connectionLost, RouterGivesUp
  <1>1. ConnInv'
    BY <1>0 DEF LtInv, ConnInv, up
  <1>2. UpInv'
    BY <1>0, UpFrame DEF LtInv, up
  <1>3. DownInv'
    BY <1>0, DownFrame DEF LtInv
  <1> QED
    BY <1>1, <1>2, <1>3 DEF LtInv

LEMMA SendUpKeeps ==
    ASSUME LtInv, NEW m \in Message, sr_send_packet(m) PROVE LtInv'
  <1>1. ConnInv'
    BY DEF LtInv, ConnInv, sr_send_packet
  <1>2. UpInv'
    <2>0. UpTypes /\ UpCarries
      BY DEF LtInv, UpInv
    <2>1. PICK p \in Seq(Byte) : p = pack_with_header(m)
      BY PackedFacts
    <2>2. wire' = wire \o p /\ sent' = Append(sent, m) /\ packet' = packet /\ got' = got /\ short' = short
      BY <2>1 DEF sr_send_packet
    <2>3. wire' \in Seq(Byte) /\ sent' \in Seq(Message)
      BY <2>0, <2>2 DEF UpTypes
    <2>4. UpTypes'
      BY <2>0, <2>3 DEF UpTypes, sr_send_packet
    <2>5. UpCarries'
      <3>1. wire \in Seq(Byte) /\ packet \in Seq(Byte)
        BY <2>0 DEF UpTypes
      <3>2. (packet \o wire) \o p = packet \o (wire \o p)
        <4>1. Regroups(packet, wire, p)
          BY <2>1, <3>1, Regroup
        <4> QED
          BY ONLY <4>1 DEF Regroups
      <3>3. packet \o wire \in Seq(Byte)
        BY <3>1
      <3>4. ASSUME ~ short PROVE Carries(Append(sent, m), got, (packet \o wire) \o p)
        BY <2>0, <2>1, <3>3, <3>4, CarriesSend DEF UpTypes, UpCarries
      <3> QED
        BY <2>2, <3>2, <3>4 DEF UpCarries
    <2>6. FramesWhole' /\ Kept' /\ NoneLeft'
      BY DEF LtInv, UpInv, FramesWhole, Kept, NoneLeft, HasPacket, lenNeeded, sr_send_packet
    <2> QED
      BY <2>4, <2>5, <2>6 DEF UpInv
  <1>3. DownInv'
    BY DownFrame DEF LtInv, sr_send_packet
  <1> QED
    BY <1>1, <1>2, <1>3 DEF LtInv

LEMMA ShortKeeps ==
    ASSUME LtInv, NEW m \in Message, NEW n \in 1 .. Len(pack_with_header(m)) - 1, ShortWrite(m, n)
    PROVE  LtInv'
  <1>1. ConnInv'
    BY DEF LtInv, ConnInv, ShortWrite
  <1>2. UpInv'
    <2>0. UpTypes
      BY DEF LtInv, UpInv
    <2>1. PICK p \in Seq(Byte) : p = pack_with_header(m) /\ Len(p) \in Nat
      BY PackedFacts
    <2>2. n \in Nat /\ n <= Len(p)
      BY <2>1
    <2>3. PICK x \in Seq(Byte) : x = SubSeq(p, 1, n)
      BY <2>2, CutAt
    <2>4. wire' = wire \o x /\ sent' = Append(sent, m)
      BY <2>1, <2>3 DEF ShortWrite
    <2>5. wire' \in Seq(Byte) /\ sent' \in Seq(Message)
      BY <2>0, <2>4 DEF UpTypes
    <2>6. UpTypes' /\ UpCarries'
      BY <2>0, <2>5 DEF UpTypes, UpCarries, ShortWrite
    <2>7. FramesWhole' /\ Kept' /\ NoneLeft'
      BY DEF LtInv, UpInv, FramesWhole, Kept, NoneLeft, HasPacket, lenNeeded, ShortWrite
    <2> QED
      BY <2>6, <2>7 DEF UpInv
  <1>3. DownInv'
    BY DownFrame DEF LtInv, ShortWrite
  <1> QED
    BY <1>1, <1>2, <1>3 DEF LtInv

LEMMA DataKeeps ==
    ASSUME LtInv, NEW n \in 1 .. Len(wire), dataReceived(n) PROVE LtInv'
  <1>1. ConnInv'
    BY DEF LtInv, ConnInv, dataReceived
  <1>2. UpInv'
    <2>0. UpTypes /\ UpCarries /\ Kept /\ conn = "up"
      BY DEF LtInv, UpInv, dataReceived
    <2>1. wire \in Seq(Byte) /\ packet \in Seq(Byte) /\ received \in Seq(Byte) /\ Len(wire) \in Nat
      BY <2>0 DEF UpTypes
    <2>2. n \in Nat /\ n <= Len(wire)
      BY <2>1
    <2>3. PICK x \in Seq(Byte) : x = SubSeq(wire, 1, n)
      BY <2>1, <2>2, CutAt
    <2>4. PICK y \in Seq(Byte) : y = SubSeq(wire, n + 1, Len(wire))
      BY <2>1, <2>2, CutAt
    <2>5. packet \o x \in Seq(Byte) /\ Len(packet \o x) = Len(packet) + n /\ (packet \o x) \o y = packet \o wire
      <3>1. PICK a \in Seq(Byte) : a = packet
        BY <2>1
      <3>2. PICK b \in Seq(Byte) : b = wire
        BY <2>1
      <3>3. n <= Len(b) /\ x = SubSeq(b, 1, n) /\ y = SubSeq(b, n + 1, Len(b))
        BY ONLY <2>2, <2>3, <2>4, <3>2, Zenon
      <3>4. Moved(Byte, a, b, n, x, y)
        BY <2>2, <3>3, MoveOver
      <3> QED
        BY ONLY <3>1, <3>2, <3>4, Zenon DEF Moved
    <2>6. /\ packet' = packet \o x /\ wire' = y /\ received' = received \o x /\ plen' = plen + n
          /\ looping' = TRUE /\ UNCHANGED <<conn, sent, got, frames, short>>
      BY <2>3, <2>4 DEF dataReceived
    <2>7. received \o x \in Seq(Byte)
      BY <2>1
    <2>8. UpTypes'
      BY <2>0, <2>5, <2>6, <2>7 DEF UpTypes
    <2>9. UpCarries'
      BY <2>0, <2>5, <2>6 DEF UpCarries
    <2>10. FramesWhole' /\ NoneLeft'
      BY <2>6 DEF LtInv, UpInv, FramesWhole, NoneLeft
    <2>11. Kept'
      <3>1. PICK f \in Seq(Byte) : f = FlattenSeq(frames)
        BY <2>0, FlattenType DEF UpTypes
      <3>2. (f \o packet) \o x = f \o (packet \o x)
        <4>1. PICK a \in Seq(Byte) : a = packet
          BY <2>1
        <4>2. (f \o a) \o x = f \o (a \o x)
          <5>1. Regroups(f, a, x)
            BY Regroup
          <5> QED
            BY ONLY <5>1 DEF Regroups
        <4> QED
          BY <4>1, <4>2
      <3>3. f \o packet = received
        BY <2>0, <3>1 DEF Kept
      <3> QED
        BY <2>6, <3>1, <3>2, <3>3 DEF Kept
    <2> QED
      BY <2>8, <2>9, <2>10, <2>11 DEF UpInv
  <1>3. DownInv'
    BY DownFrame DEF LtInv, dataReceived
  <1> QED
    BY <1>1, <1>2, <1>3 DEF LtInv

LEMMA NotEnoughKeeps ==
    ASSUME LtInv, NotEnough PROVE LtInv'
  <1>1. ConnInv'
    BY DEF LtInv, ConnInv, NotEnough
  <1>2. UpInv'
    <2>1. UpTypes' /\ UpCarries' /\ FramesWhole' /\ Kept'
      BY DEF LtInv, UpInv, UpTypes, UpCarries, FramesWhole, Kept, NotEnough
    <2>2. NoneLeft'
      BY DEF NoneLeft, HasPacket, lenNeeded, NotEnough
    <2> QED
      BY <2>1, <2>2 DEF UpInv
  <1>3. DownInv'
    BY DownFrame DEF LtInv, NotEnough
  <1> QED
    BY <1>1, <1>2, <1>3 DEF LtInv

(* What the loop cuts off is all of its buffer up to the length it read.   *)
LEMMA HeadOfPacket ==
    ASSUME UpTypes, HasPacket
    PROVE  /\ lenNeeded \in Nat /\ lenNeeded <= Len(packet) /\ Len(packet) >= LenSz /\ Len(packet) \in Nat
           /\ SubSeq(packet, 1, lenNeeded) \in Seq(Byte)
           /\ SubSeq(packet, lenNeeded + 1, Len(packet)) \in Seq(Byte)
           /\ Len(SubSeq(packet, 1, lenNeeded)) = lenNeeded
           /\ Len(SubSeq(packet, lenNeeded + 1, Len(packet))) = plen - lenNeeded
           /\ SubSeq(packet, 1, lenNeeded) \o SubSeq(packet, lenNeeded + 1, Len(packet)) = packet
  <1>1. packet \in Seq(Byte) /\ plen = Len(packet) /\ Len(packet) \in Nat
    BY DEF UpTypes
  <1>2. LenSz \in Nat /\ Len(packet) >= LenSz
    BY <1>1, Sizes DEF HasPacket
  <1>3. SubSeq(packet, 1, LenSz) \in Seq(Byte)
    BY <1>1, <1>2, CutAt
  <1>4. PICK n \in Nat : n = lenNeeded
    BY <1>3, UnpackType DEF lenNeeded
  <1>5. n <= Len(packet)
    BY <1>1, <1>4 DEF HasPacket
  <1>6. /\ SubSeq(packet, 1, n) \in Seq(Byte) /\ SubSeq(packet, n + 1, Len(packet)) \in Seq(Byte)
        /\ Len(SubSeq(packet, 1, n)) = n /\ Len(SubSeq(packet, n + 1, Len(packet))) = Len(packet) - n
        /\ SubSeq(packet, 1, n) \o SubSeq(packet, n + 1, Len(packet)) = packet
    BY <1>1, <1>5, CutAt
  <1> QED
    BY <1>1, <1>2, <1>4, <1>5, <1>6

(* In step, the loop delivers the next command that was sent.              *)
LEMMA TakenInStep ==
    ASSUME LtInv, TakePacket, ~ short
    PROVE  /\ Len(got) < Len(sent) /\ got' = Append(got, sent[Len(got) + 1])
           /\ Carries(sent, got', packet' \o wire)
  <1>0. UpTypes /\ UpCarries /\ HasPacket
    BY DEF LtInv, UpInv, TakePacket
  <1>1. PICK n \in Nat : n = lenNeeded /\ n <= Len(packet) /\ Len(packet) >= LenSz
    BY <1>0, HeadOfPacket
  <1>2. PICK m : m = Unpacked(SubSeq(packet, 1, n))
    OBVIOUS
  <1>3. /\ n >= tot_sz /\ m \in Message /\ Len(got) < Len(sent) /\ m = sent[Len(got) + 1]
        /\ Carries(sent, Append(got, m), SubSeq(packet, n + 1, Len(packet)) \o wire)
    <2>1. n = Unpack(SubSeq(packet, 1, LenSz))
      BY <1>1 DEF lenNeeded
    <2>2. Carries(sent, got, packet \o wire)
      BY <1>0 DEF UpCarries
    <2>3. packet \in Seq(Byte) /\ wire \in Seq(Byte) /\ sent \in Seq(Message) /\ got \in Seq(Message)
      BY <1>0 DEF UpTypes
    <2> QED
      BY <1>1, <1>2, <2>1, <2>2, <2>3, CarriesTake
  <1>4. packet' = SubSeq(packet, n + 1, Len(packet)) /\ got' = Append(got, m)
    BY <1>1, <1>2, <1>3 DEF TakePacket
  <1> QED
    BY <1>3, <1>4

LEMMA FramesWholeAppend ==
    ASSUME NEW fs \in Seq(Seq(Byte)), NEW h \in Seq(Byte), Unpack(SubSeq(h, 1, LenSz)) = Len(h),
           \A k \in 1 .. Len(fs) : Unpack(SubSeq(fs[k], 1, LenSz)) = Len(fs[k])
    PROVE  \A k \in 1 .. Len(Append(fs, h)) :
             Unpack(SubSeq(Append(fs, h)[k], 1, LenSz)) = Len(Append(fs, h)[k])
  <1>1. PICK n \in Nat : n = Len(fs)
    OBVIOUS
  <1>2. Len(Append(fs, h)) = n + 1 /\ Append(fs, h)[n + 1] = h /\ \A k \in 1 .. n : Append(fs, h)[k] = fs[k]
    BY <1>1
  <1>3. ASSUME NEW k \in 1 .. n + 1
        PROVE  Unpack(SubSeq(Append(fs, h)[k], 1, LenSz)) = Len(Append(fs, h)[k])
    <2>0. k = n + 1 \/ k \in 1 .. n
      OBVIOUS
    <2>1. CASE k = n + 1
      BY <1>2, <2>1
    <2>2. CASE k \in 1 .. n
      BY <1>1, <1>2, <2>2
    <2> QED
      BY <2>0, <2>1, <2>2
  <1> QED
    BY <1>2, <1>3

LEMMA TakeKeeps ==
    ASSUME LtInv, TakePacket PROVE LtInv'
  <1>0. UpTypes /\ UpCarries /\ FramesWhole /\ Kept /\ HasPacket /\ looping /\ conn = "up"
    BY DEF LtInv, UpInv, ConnInv, TakePacket
  <1>1. PICK n \in Nat : n = lenNeeded /\ n <= Len(packet) /\ Len(packet) >= LenSz /\ Len(packet) \in Nat
    BY <1>0, HeadOfPacket
  <1>2. PICK h \in Seq(Byte) : h = SubSeq(packet, 1, lenNeeded) /\ Len(h) = n
    BY <1>0, <1>1, HeadOfPacket
  <1>3. PICK r \in Seq(Byte) : r = SubSeq(packet, lenNeeded + 1, Len(packet)) /\ Len(r) = plen - n
    BY <1>0, <1>1, HeadOfPacket
  <1>4. h \o r = packet
    BY <1>0, <1>2, <1>3, HeadOfPacket
  <1>5. packet' = r /\ plen' = plen - n /\ UNCHANGED <<conns, wire, sent, received, short, down>>
    BY <1>1, <1>3 DEF TakePacket
  <1>6. \/ /\ n >= tot_sz /\ Unpacked(h) \in Message /\ got' = Append(got, Unpacked(h))
           /\ frames' = Append(frames, h) /\ UNCHANGED <<conn, looping>>
        \/ conn' = "dropped" /\ looping' = FALSE /\ UNCHANGED <<got, frames>>
    BY <1>1, <1>2 DEF TakePacket
  <1>7. ConnInv'
    BY <1>0, <1>5, <1>6 DEF LtInv, ConnInv
  <1>8. UpTypes'
    <2>1. got \in Seq(Message) /\ frames \in Seq(Seq(Byte))
      BY <1>0 DEF UpTypes
    <2>2. Append(frames, h) \in Seq(Seq(Byte))
      BY <2>1
    <2>3. Unpacked(h) \in Message => Append(got, Unpacked(h)) \in Seq(Message)
      BY <2>1
    <2>4. got' \in Seq(Message) /\ frames' \in Seq(Seq(Byte))
      BY <1>6, <2>1, <2>2, <2>3
    <2> QED
      BY <1>0, <1>3, <1>5, <2>4 DEF UpTypes
  <1>9. UpCarries'
    BY <1>5, TakenInStep DEF UpCarries
  <1>10. FramesWhole' /\ Kept' /\ NoneLeft'
    <2>1. CASE /\ n >= tot_sz /\ frames' = Append(frames, h) /\ UNCHANGED <<conn, looping>>
      <3>1. frames \in Seq(Seq(Byte)) /\ packet \in Seq(Byte)
        BY <1>0 DEF UpTypes
      <3>2. FramesWhole'
        <4>1. LenSz \in Nat /\ LenSz <= n
          BY <2>1, Sizes
        <4>2. PICK e \in Seq(Byte) : e = <<>>
          BY Empties
        <4>3. packet \o e = packet
          BY <3>1, <4>2
        <4>4. packet \o e = h \o r /\ Len(h) >= LenSz
          BY <1>2, <1>4, <4>1, <4>3
        <4>5. SubSeq(packet, 1, LenSz) = SubSeq(h, 1, LenSz)
          BY <1>1, <3>1, <4>1, <4>4, SameStart
        <4>6. Unpack(SubSeq(h, 1, LenSz)) = Len(h)
          BY <1>1, <1>2, <4>5 DEF lenNeeded
        <4> QED
          BY <1>0, <2>1, <3>1, <4>6, FramesWholeAppend DEF FramesWhole
      <3>3. Kept'
        <4>1. PICK f \in Seq(Byte) : f = FlattenSeq(frames)
          BY <3>1, FlattenType
        <4>2. FlattenSeq(frames') = f \o h
          BY <2>1, <3>1, <4>1, FlattenAppend
        <4>3. (f \o h) \o r = f \o (h \o r)
          <5>1. Regroups(f, h, r)
            BY Regroup
          <5> QED
            BY ONLY <5>1 DEF Regroups
        <4>4. f \o packet = received
          BY <1>0, <4>1 DEF Kept
        <4> QED
          BY <1>4, <1>5, <4>2, <4>3, <4>4 DEF Kept
      <3>4. NoneLeft'
        BY <1>0, <2>1 DEF NoneLeft
      <3> QED
        BY <3>2, <3>3, <3>4
    <2>2. CASE conn' = "dropped" /\ UNCHANGED frames
      BY <1>0, <2>2 DEF FramesWhole, Kept, NoneLeft
    <2> QED
      BY <1>6, <2>1, <2>2
  <1>11. DownInv'
    BY <1>5, DownFrame DEF LtInv
  <1> QED
    BY <1>7, <1>8, <1>9, <1>10, <1>11 DEF LtInv, UpInv

LEMMA SendDownKeeps ==
    ASSUME LtInv, NEW m \in Message, send(m) PROVE LtInv'
  <1>1. ConnInv'
    BY DEF LtInv, ConnInv, send, up
  <1>2. UpInv'
    BY UpFrame DEF LtInv, send, up
  <1>3. DownInv'
    <2>0. DownTypes /\ DownCarries
      BY DEF LtInv, DownInv
    <2>1. PICK p \in Seq(Byte) : p = pack_with_header(m)
      BY PackedFacts
    <2>2. dwire' = dwire \o p /\ dsent' = Append(dsent, m) /\ buf' = buf /\ dgot' = dgot
      BY <2>1 DEF send
    <2>3. dwire \in Seq(Byte) /\ buf \in Seq(Byte) /\ dsent \in Seq(Message) /\ dgot \in Seq(Message)
      BY <2>0 DEF DownTypes
    <2>4. DownTypes'
      BY <2>2, <2>3 DEF DownTypes
    <2>5. (buf \o dwire) \o p = buf \o (dwire \o p)
      <3>1. Regroups(buf, dwire, p)
        BY <2>1, <2>3, Regroup
      <3> QED
        BY ONLY <3>1 DEF Regroups
    <2>6. buf \o dwire \in Seq(Byte)
      BY <2>3
    <2>7. Carries(Append(dsent, m), dgot, (buf \o dwire) \o p)
      BY <2>0, <2>1, <2>3, <2>6, CarriesSend DEF DownCarries
    <2> QED
      BY <2>2, <2>4, <2>5, <2>7 DEF DownInv, DownCarries
  <1> QED
    BY <1>1, <1>2, <1>3 DEF LtInv

LEMMA RecvKeeps ==
    ASSUME LtInv, NEW n \in 1 .. Len(dwire), recv(n) PROVE LtInv'
  <1>1. ConnInv'
    BY DEF LtInv, ConnInv, recv, up
  <1>2. UpInv'
    BY UpFrame DEF LtInv, recv, up
  <1>3. DownInv'
    <2>0. DownTypes /\ DownCarries
      BY DEF LtInv, DownInv
    <2>1. PICK a \in Seq(Byte) : a = buf
      BY <2>0 DEF DownTypes
    <2>2. PICK b \in Seq(Byte) : b = dwire /\ Len(b) \in Nat
      BY <2>0 DEF DownTypes
    <2>3. n \in Nat /\ n <= Len(b)
      BY <2>2
    <2>4. PICK x \in Seq(Byte) : x = SubSeq(b, 1, n)
      BY <2>3, CutAt
    <2>4a. PICK y \in Seq(Byte) : y = SubSeq(b, n + 1, Len(b))
      BY <2>3, CutAt
    <2>5. a \o x \in Seq(Byte) /\ (a \o x) \o y = a \o b
      <3>1. Moved(Byte, a, b, n, x, y)
        BY <2>3, <2>4, <2>4a, MoveOver
      <3> QED
        BY ONLY <3>1, Zenon DEF Moved
    <2>6. buf' = a \o x /\ dwire' = y /\ UNCHANGED <<dsent, dgot>>
      BY <2>1, <2>2, <2>4, <2>4a DEF recv
    <2>7. DownTypes'
      BY <2>0, <2>5, <2>6 DEF DownTypes
    <2>8. DownCarries'
      BY <2>0, <2>1, <2>2, <2>5, <2>6 DEF DownCarries
    <2> QED
      BY <2>7, <2>8 DEF DownInv
  <1> QED
    BY <1>1, <1>2, <1>3 DEF LtInv

(* The recv loops deliver the next command that was sent.                  *)
LEMMA ReadInStep ==
    ASSUME LtInv, sr_read_from_server
    PROVE  /\ Len(dgot) < Len(dsent) /\ dgot' = Append(dgot, dsent[Len(dgot) + 1]) /\ dgot' \in Seq(Message)
           /\ Carries(dsent, dgot', buf' \o dwire)
  <1>0. DownTypes /\ DownCarries
    BY DEF LtInv, DownInv
  <1>1. dwire \in Seq(Byte) /\ buf \in Seq(Byte) /\ dsent \in Seq(Message) /\ dgot \in Seq(Message)
    BY <1>0 DEF DownTypes
  <1>2. PICK a \in Seq(Byte) : a = buf
    BY <1>1
  <1>3. PICK n \in Nat : n = Len(a)
    OBVIOUS
  <1>4. Len(a) >= LenSz /\ n = Unpack(SubSeq(a, 1, LenSz)) /\ n <= Len(a)
    BY <1>2, <1>3, Sizes DEF sr_read_from_server, Wanted
  <1>5. SubSeq(a, 1, n) = a
    BY <1>3, SubSeqFull
  <1>6. PICK m : m = Unpacked(SubSeq(a, 1, n))
    OBVIOUS
  <1>7. Carries(dsent, dgot, a \o dwire)
    BY <1>0, <1>2 DEF DownCarries
  <1>8. /\ m \in Message /\ Len(dgot) < Len(dsent) /\ m = dsent[Len(dgot) + 1]
        /\ Carries(dsent, Append(dgot, m), SubSeq(a, n + 1, Len(a)) \o dwire)
    BY <1>1, <1>4, <1>6, <1>7, CarriesTake
  <1>9. SubSeq(a, n + 1, Len(a)) = <<>>
    <2>1. n + 1 \in Nat /\ n + 1 > Len(a)
      BY <1>3
    <2> QED
      BY <1>3, <2>1
  <1>10. dgot' = Append(dgot, m) /\ buf' = <<>>
    BY <1>2, <1>5, <1>6 DEF sr_read_from_server
  <1>11. Append(dgot, m) \in Seq(Message)
    BY <1>1, <1>8
  <1> QED
    BY <1>8, <1>9, <1>10, <1>11

LEMMA ReadKeeps ==
    ASSUME LtInv, sr_read_from_server PROVE LtInv'
  <1>1. ConnInv'
    BY DEF LtInv, ConnInv, sr_read_from_server, up
  <1>2. UpInv'
    BY UpFrame DEF LtInv, sr_read_from_server, up
  <1>3. DownInv'
    <2>1. DownTypes'
      BY Empties, ReadInStep DEF LtInv, DownInv, DownTypes, sr_read_from_server
    <2>2. DownCarries'
      BY ReadInStep DEF DownCarries, sr_read_from_server
    <2> QED
      BY <2>1, <2>2 DEF DownInv
  <1> QED
    BY <1>1, <1>2, <1>3 DEF LtInv

LEMMA LtStep == LtInv /\ [Next]_vars => LtInv'
  <1> SUFFICES ASSUME LtInv, [Next]_vars PROVE LtInv'
    OBVIOUS
  <1>1. CASE connectionMade
    BY <1>1, MadeKeeps
  <1>2. CASE connectionLost
    BY <1>2, LostKeeps
  <1>3. ASSUME NEW m \in Message, sr_send_packet(m) PROVE LtInv'
    BY <1>3, SendUpKeeps
  <1>4. ASSUME NEW m \in Message, NEW n \in 1 .. Len(pack_with_header(m)) - 1, ShortWrite(m, n) PROVE LtInv'
    BY <1>4, ShortKeeps
  <1>5. ASSUME NEW m \in Message, send(m) PROVE LtInv'
    BY <1>5, SendDownKeeps
  <1>6. ASSUME NEW n \in 1 .. Len(wire), dataReceived(n) PROVE LtInv'
    BY <1>6, DataKeeps
  <1>7. CASE TakePacket
    BY <1>7, TakeKeeps
  <1>8. CASE NotEnough
    BY <1>8, NotEnoughKeeps
  <1>9. ASSUME NEW n \in 1 .. Len(dwire), recv(n) PROVE LtInv'
    BY <1>9, RecvKeeps
  <1>10. CASE sr_read_from_server
    BY <1>10, ReadKeeps
  <1>11. CASE RouterGivesUp
    BY <1>11, LostKeeps
  <1>12. CASE UNCHANGED vars
    <2>1. ConnInv'
      BY <1>12 DEF LtInv, ConnInv, vars, up
    <2>2. UpInv'
      BY <1>12, UpFrame DEF LtInv, vars, up
    <2>3. DownInv'
      BY <1>12, DownFrame DEF LtInv, vars
    <2> QED
      BY <2>1, <2>2, <2>3 DEF LtInv
  <1> QED
    BY <1>1, <1>2, <1>3, <1>4, <1>5, <1>6, <1>7, <1>8, <1>9, <1>10, <1>11, <1>12 DEF Next, UpReads, DownReads

(* Every reachable state satisfies the inductive invariant: what each end  *)
(* has read and what is on its way to it are the packed commands that it   *)
(* has not handled, upwards until a short write; dataReceived's buffer is  *)
(* what it was given less the packets it took out.                         *)
THEOREM LtInvariant == Spec => []LtInv
  <1> QED
    BY LtInit, LtStep, PTL DEF Spec

(* The state of both message layers keeps its types: a command that is     *)
(* handled is one of the commands, and dataReceived's plen is a length.    *)
THEOREM LtTypes == Spec => []TypeOK
  <1>1. LtInv => TypeOK
    <2> SUFFICES ASSUME LtInv PROVE TypeOK
      OBVIOUS
    <2>1. plen \in Nat
      BY DEF LtInv, UpInv, UpTypes
    <2> QED
      BY <2>1 DEF LtInv, ConnInv, UpInv, UpTypes, DownInv, DownTypes, TypeOK
  <1> QED
    BY <1>1, LtInvariant, PTL

(* dataReceived of ltprotocol.py, for every width of numbers, every        *)
(* command and every cut of the stream, in step or not: the packets it     *)
(* took out and the bytes it keeps are the bytes it was given, every       *)
(* packet is as long as it says, and between calls none is left in it.     *)
THEOREM LtReassembles == Spec => []Reassembles
  <1>1. LtInv => Reassembles
    BY DEF LtInv, UpInv, UpTypes, FramesWhole, Kept, NoneLeft, Reassembles
  <1> QED
    BY <1>1, LtInvariant, PTL

(* Both directions implement MessageChannel: dataReceived gives the        *)
(* controller's callback, and sr_read_from_server_expect the router, the   *)
(* commands that were sent, whole, in order and each once; upwards until a *)
(* write of the router is short.                                           *)
THEOREM LtAreChannels == Spec => AreChannels
  <1>1. Init => Up!Init /\ Down!Init
    BY DEF Init, Up!Init, Down!Init
  <1>2. LtInv /\ [Next]_vars => [Up!Next]_Up!cvars
    <2> SUFFICES ASSUME LtInv, [Next]_vars PROVE [Up!Next]_Up!cvars
      OBVIOUS
    <2> USE DEF Up!cvars, Up!Next
    <2>1. CASE connectionMade
      BY <2>1 DEF connectionMade, Up!Reconnect
    <2>2. CASE connectionLost
      BY <2>2 DEF connectionLost, up
    <2>3. ASSUME NEW m \in Message, sr_send_packet(m) PROVE [Up!Next]_Up!cvars
      BY <2>3 DEF sr_send_packet, Up!Send
    <2>4. ASSUME NEW m \in Message, NEW n \in 1 .. Len(pack_with_header(m)) - 1, ShortWrite(m, n)
          PROVE [Up!Next]_Up!cvars
      BY <2>4 DEF ShortWrite, Up!Break
    <2>5. ASSUME NEW m \in Message, send(m) PROVE [Up!Next]_Up!cvars
      BY <2>5 DEF send, up
    <2>6. ASSUME NEW n \in 1 .. Len(wire), dataReceived(n) PROVE [Up!Next]_Up!cvars
      BY <2>6 DEF dataReceived
    <2>7. CASE TakePacket
      <3>1. CASE short
        BY <2>7, <3>1 DEF TakePacket, Up!Anything
      <3>2. CASE ~ short
        BY <2>7, <3>2, TakenInStep DEF TakePacket, Up!Deliver
      <3> QED
        BY <3>1, <3>2
    <2>8. CASE NotEnough
      BY <2>8 DEF NotEnough
    <2>9. CASE DownReads
      BY <2>9 DEF DownReads, recv, sr_read_from_server, RouterGivesUp, up
    <2>10. CASE UNCHANGED vars
      BY <2>10 DEF vars, up
    <2> QED
      BY <2>1, <2>2, <2>3, <2>4, <2>5, <2>6, <2>7, <2>8, <2>9, <2>10 DEF Next, UpReads
  <1>3. LtInv /\ [Next]_vars => [Down!Next]_Down!cvars
    <2> SUFFICES ASSUME LtInv, [Next]_vars PROVE [Down!Next]_Down!cvars
      OBVIOUS
    <2> USE DEF Down!cvars, Down!Next
    <2>1. CASE connectionMade
      BY <2>1 DEF connectionMade, Down!Reconnect
    <2>2. CASE connectionLost
      BY <2>2 DEF connectionLost, down
    <2>3. ASSUME NEW m \in Message, sr_send_packet(m) PROVE [Down!Next]_Down!cvars
      BY <2>3 DEF sr_send_packet, down
    <2>4. ASSUME NEW m \in Message, NEW n \in 1 .. Len(pack_with_header(m)) - 1, ShortWrite(m, n)
          PROVE [Down!Next]_Down!cvars
      BY <2>4 DEF ShortWrite, down
    <2>5. ASSUME NEW m \in Message, send(m) PROVE [Down!Next]_Down!cvars
      BY <2>5 DEF send, Down!Send
    <2>6. CASE UpReads
      BY <2>6 DEF UpReads, dataReceived, TakePacket, NotEnough, down
    <2>7. ASSUME NEW n \in 1 .. Len(dwire), recv(n) PROVE [Down!Next]_Down!cvars
      BY <2>7 DEF recv
    <2>8. CASE sr_read_from_server
      BY <2>8, ReadInStep DEF sr_read_from_server, Down!Deliver
    <2>9. CASE RouterGivesUp
      BY <2>9 DEF RouterGivesUp, down
    <2>10. CASE UNCHANGED vars
      BY <2>10 DEF vars, down
    <2> QED
      BY <2>1, <2>2, <2>3, <2>4, <2>5, <2>6, <2>7, <2>8, <2>9, <2>10 DEF Next, DownReads
  <1> QED
    BY <1>1, <1>2, <1>3, LtInvariant, PTL DEF Spec, AreChannels, Up!Spec, Down!Spec

=============================================================================
