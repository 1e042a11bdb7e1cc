------------------------ MODULE DeferredSenderProofs ------------------------
(***************************************************************************)
(* Proofs for DeferredSender, for any number of threads and connections,   *)
(* any size of messages, slices and sockets: its types, that the flag      *)
(* covers the data, and that the streams stay intact.                      *)
(*                                                                         *)
(* The laws of concatenation (FlattenSeq) come first, by induction on the  *)
(* length; then SenderInv; then one lemma per step of Connection.send and  *)
(* of the sender's thread about the stream of a connection.                *)
(***************************************************************************)
EXTENDS DeferredSender, TLAPS, SequenceTheorems, WellFoundedInduction

(* Induction over the naturals, for a set in place of a predicate *)
LEMMA SetInduction ==
    ASSUME NEW T \in SUBSET Nat, 0 \in T, \A n \in T : n + 1 \in T
    PROVE  T = Nat
  <1> DEFINE U == Nat \ T
  <1>1. ASSUME U # {} PROVE FALSE
    <2>1. PICK x \in U : \A y \in U : ~ (<<y, x>> \in OpToRel(<, Nat))
      BY <1>1, NatLessThanWellFounded, WFMin
    <2>2. \A y \in U : ~ (y < x)
      BY <2>1 DEF OpToRel
    <2>3. x # 0 /\ x - 1 \in Nat
      OBVIOUS
    <2>4. x - 1 \in T
      BY <2>2, <2>3
    <2>5. QED
      BY <2>4
  <1>2. QED
    BY <1>1

(* f[i] is the concatenation of the first i elements of q *)
Joined(f, q, n) ==
    \A i \in 1 .. n : f[i] = IF i = 1 THEN q[i] ELSE f[i - 1] \o q[i]

LEMMA JoinedExist ==
    ASSUME NEW S, NEW q \in Seq(Seq(S))
    PROVE  \E f \in [1 .. Len(q) -> Seq(S)] : Joined(f, q, Len(q))
  <1> DEFINE T == {n \in Nat : n <= Len(q) =>
                     \E f \in [1 .. n -> Seq(S)] : Joined(f, q, n)}
  <1>1. 0 \in T
    <2> DEFINE f == [i \in 1 .. 0 |-> <<>>]
    <2>1. f \in [1 .. 0 -> Seq(S)]
      OBVIOUS
    <2>2. Joined(f, q, 0)
      BY DEF Joined
    <2> HIDE DEF f
    <2>3. QED
      BY <2>1, <2>2
  <1>2. ASSUME NEW n \in T PROVE n + 1 \in T
    <2> SUFFICES ASSUME n + 1 <= Len(q)
                 PROVE  \E f \in [1 .. n + 1 -> Seq(S)] : Joined(f, q, n + 1)
      OBVIOUS
    <2>1. PICK f \in [1 .. n -> Seq(S)] : Joined(f, q, n)
      BY <1>2
    <2> DEFINE x == IF n = 0 THEN q[1] ELSE f[n] \o q[n + 1]
               g == [i \in 1 .. n + 1 |-> IF i = n + 1 THEN x ELSE f[i]]
    <2>2. x \in Seq(S)
      OBVIOUS
    <2>3. g \in [1 .. n + 1 -> Seq(S)]
      BY <2>2
    <2>4. Joined(g, q, n + 1)
      <3> SUFFICES ASSUME NEW i \in 1 .. n + 1
                   PROVE  g[i] = IF i = 1 THEN q[i] ELSE g[i - 1] \o q[i]
        BY DEF Joined
      <3>1. CASE i = n + 1
        <4>1. g[i] = x
          BY <3>1
        <4>2. n # 0 => g[i - 1] = f[n]
          BY <3>1
        <4>3. QED
          BY <3>1, <4>1, <4>2
      <3>2. CASE i # n + 1
        <4>1. i \in 1 .. n /\ g[i] = f[i] /\ (i # 1 => g[i - 1] = f[i - 1])
          BY <3>2
        <4>2. f[i] = IF i = 1 THEN q[i] ELSE f[i - 1] \o q[i]
          BY <2>1, <4>1 DEF Joined
        <4>3. QED
          BY <4>1, <4>2
      <3>3. QED
        BY <3>1, <3>2
    <2>5. QED
      BY <2>3, <2>4
  <1> HIDE DEF T
  <1>3. T \in SUBSET Nat
    BY DEF T
  <1>4. T = Nat
    BY <1>1, <1>2, <1>3, SetInduction
  <1>5. QED
    BY <1>4 DEF T

Agree(q, r, n) == \A i \in 1 .. n : q[i] = r[i]

LEMMA JoinedUnique ==
    ASSUME NEW q, NEW r, NEW n \in Nat, NEW f, NEW g,
           Joined(f, q, n), Joined(g, r, n), Agree(q, r, n)
    PROVE  Agree(f, g, n)
  <1> DEFINE T == {i \in Nat : i \in 1 .. n => f[i] = g[i]}
  <1>1. 0 \in T
    OBVIOUS
  <1>2. ASSUME NEW i \in T PROVE i + 1 \in T
    <2> SUFFICES ASSUME i + 1 \in 1 .. n PROVE f[i + 1] = g[i + 1]
      OBVIOUS
    <2>1. /\ f[i + 1] = IF i = 0 THEN q[i + 1] ELSE f[i] \o q[i + 1]
          /\ g[i + 1] = IF i = 0 THEN r[i + 1] ELSE g[i] \o r[i + 1]
      BY DEF Joined
    <2>2. i # 0 => f[i] = g[i]
      OBVIOUS
    <2>3. QED
      BY <2>1, <2>2 DEF Agree
  <1> HIDE DEF T
  <1>3. T = Nat
    BY <1>1, <1>2, SetInduction DEF T
  <1>4. QED
    BY <1>3 DEF T, Agree

(* What FlattenSeq computes *)
LEMMA FlattenIs ==
    ASSUME NEW S, NEW q \in Seq(Seq(S)), NEW f, Joined(f, q, Len(q))
    PROVE  FlattenSeq(q) = IF q = <<>> THEN <<>> ELSE f[Len(q)]
  <1>1. CASE q = <<>>
    BY <1>1 DEF FlattenSeq
  <1>2. CASE q # <<>>
    <2> DEFINE Body(h) == [i \in 1 .. Len(q) |-> IF i = 1 THEN q[i] ELSE h[i - 1] \o q[i]]
               h == CHOOSE g : g = Body(g)
    <2>1. PICK g \in [1 .. Len(q) -> Seq(S)] : Joined(g, q, Len(q))
      BY JoinedExist
    <2>2. g = Body(g)
      BY <2>1 DEF Joined
    <2>3. h = Body(h)
      BY <2>2
    <2>4. FlattenSeq(q) = h[Len(q)]
      BY <1>2 DEF FlattenSeq
    <2> HIDE DEF h
    <2>5. Joined(h, q, Len(q))
      BY <2>3 DEF Joined
    <2>6. Agree(f, h, Len(q))
      <3>1. Agree(q, q, Len(q)) /\ Len(q) \in Nat
        BY DEF Agree
      <3>2. QED
        BY <2>5, <3>1, JoinedUnique
    <2>7. Len(q) \in 1 .. Len(q)
      BY <1>2
    <2>8. QED
      BY <1>2, <2>4, <2>6, <2>7 DEF Agree
  <1>3. QED
    BY <1>1, <1>2

LEMMA FlattenType ==
    ASSUME NEW S, NEW q \in Seq(Seq(S))
    PROVE  FlattenSeq(q) \in Seq(S)
  <1>1. PICK f \in [1 .. Len(q) -> Seq(S)] : Joined(f, q, Len(q))
    BY JoinedExist
  <1>2. FlattenSeq(q) = IF q = <<>> THEN <<>> ELSE f[Len(q)]
    BY <1>1, FlattenIs
  <1>3. q # <<>> => Len(q) \in 1 .. Len(q)
    OBVIOUS
  <1>4. QED
    BY <1>1, <1>2, <1>3

LEMMA FlattenAppend ==
    ASSUME NEW S, NEW q \in Seq(Seq(S)), NEW x \in Seq(S)
    PROVE  FlattenSeq(Append(q, x)) = FlattenSeq(q) \o x
  <1> DEFINE r == Append(q, x)
             n == Len(q)
  <1>0. /\ r \in Seq(Seq(S)) /\ r # <<>> /\ Len(r) = n + 1 /\ n \in Nat /\ r[n + 1] = x
        /\ \A i \in 1 .. n : r[i] = q[i]
    BY AppendProperties, LenProperties
  <1> HIDE DEF r, n
  <1>1. PICK f : Joined(f, r, n + 1)
    BY <1>0, JoinedExist
  <1>2. PICK g : Joined(g, q, n)
    BY JoinedExist DEF n
  <1>3. Joined(f, r, n)
    BY <1>0, <1>1 DEF Joined
  <1>4. Agree(f, g, n)
    <2>1. n \in Nat /\ Agree(r, q, n)
      BY <1>0 DEF Agree
    <2>2. QED
      BY <2>1, <1>2, <1>3, JoinedUnique
  <1>5. FlattenSeq(r) = f[n + 1]
    BY <1>0, <1>1, FlattenIs
  <1>6. FlattenSeq(q) = IF q = <<>> THEN <<>> ELSE g[n]
    BY <1>2, FlattenIs DEF n
  <1>7. f[n + 1] = IF n = 0 THEN x ELSE f[n] \o x
    BY <1>0, <1>1 DEF Joined
  <1>8. CASE q = <<>>
    BY <1>5, <1>6, <1>7, <1>8, ConcatEmptySeq DEF n, r
  <1>9. CASE q # <<>>
    <2>1. n # 0 /\ n \in 1 .. n
      BY <1>9 DEF n
    <2>2. FlattenSeq(q) = f[n]
      BY <1>4, <1>6, <1>9, <2>1 DEF Agree
    <2>3. FlattenSeq(r) = f[n] \o x
      BY <1>5, <1>7, <2>1
    <2>4. QED
      BY <2>2, <2>3 DEF r
  <1>10. QED
    BY <1>8, <1>9

LEMMA FlattenEmpty == FlattenSeq(<<>>) = <<>>
  BY DEF FlattenSeq

LEMMA FlattenOne ==
    ASSUME NEW S, NEW x \in Seq(S)
    PROVE  FlattenSeq(<<x>>) = x
  <1>1. Append(<<>>, x) = <<x>> /\ <<>> \in Seq(Seq(S)) /\ <<>> \o x = x
    BY ConcatEmptySeq
  <1>2. FlattenSeq(Append(<<>>, x)) = FlattenSeq(<<>>) \o x
    BY <1>1, FlattenAppend
  <1>3. QED
    BY <1>1, <1>2, FlattenEmpty

LEMMA ConcatAppend ==
    ASSUME NEW S, NEW s \in Seq(S), NEW t \in Seq(S), NEW x \in S
    PROVE  s \o Append(t, x) = Append(s \o t, x) /\ s \o t \in Seq(S)
  <1>1. s \o t \in Seq(S) /\ <<x>> \in Seq(S)
    BY ConcatProperties
  <1>2. Append(t, x) = t \o <<x>> /\ Append(s \o t, x) = (s \o t) \o <<x>>
    BY <1>1, AppendIsConcat
  <1>3. QED
    BY <1>1, <1>2, ConcatAssociative

Regroups(s, t, u) == (s \o t) \o u = s \o (t \o u)

LEMMA Regroup ==
    ASSUME NEW S, NEW s \in Seq(S), NEW t \in Seq(S), NEW u \in Seq(S)
    PROVE  Regroups(s, t, u)
  BY ConcatAssociative DEF Regroups

LEMMA FlattenConcat ==
    ASSUME NEW S, NEW q \in Seq(Seq(S)), NEW r \in Seq(Seq(S))
    PROVE  FlattenSeq(q \o r) = FlattenSeq(q) \o FlattenSeq(r)
  <1> DEFINE R(n) == SubSeq(r, 1, n)
             T == {n \in Nat : n <= Len(r) =>
                     FlattenSeq(q \o R(n)) = FlattenSeq(q) \o FlattenSeq(R(n))}
  <1>1. 0 \in T
    <2>1. R(0) = <<>>
      BY SubSeqEmpty
    <2>2. FlattenSeq(q) \in Seq(S)
      BY FlattenType
    <2>3. q \o <<>> = q /\ FlattenSeq(q) \o <<>> = FlattenSeq(q)
      BY <2>2, ConcatEmptySeq
    <2>4. QED
      BY <2>1, <2>3, FlattenEmpty
  <1>2. ASSUME NEW n \in T PROVE n + 1 \in T
    <2> SUFFICES ASSUME n + 1 <= Len(r)
                 PROVE  FlattenSeq(q \o R(n + 1)) = FlattenSeq(q) \o FlattenSeq(R(n + 1))
      OBVIOUS
    <2>1. r[n + 1] \in Seq(S) /\ R(n) \in Seq(Seq(S))
      OBVIOUS
    <2>2. R(n + 1) = Append(R(n), r[n + 1])
      OBVIOUS
    <2>3. q \o Append(R(n), r[n + 1]) = Append(q \o R(n), r[n + 1]) /\ q \o R(n) \in Seq(Seq(S))
      BY <2>1, ConcatAppend
    <2>4. FlattenSeq(q \o R(n)) = FlattenSeq(q) \o FlattenSeq(R(n))
      BY <1>2
    <2> HIDE DEF R, T
    <2>5. FlattenSeq(q \o R(n + 1)) = FlattenSeq(q \o R(n)) \o r[n + 1]
      BY <2>1, <2>2, <2>3, FlattenAppend
    <2>6. FlattenSeq(R(n + 1)) = FlattenSeq(R(n)) \o r[n + 1]
      BY <2>1, <2>2, FlattenAppend
    <2>7. FlattenSeq(q) \in Seq(S) /\ FlattenSeq(R(n)) \in Seq(S)
      BY <2>1, FlattenType
    <2>8. (FlattenSeq(q) \o FlattenSeq(R(n))) \o r[n + 1]
            = FlattenSeq(q) \o (FlattenSeq(R(n)) \o r[n + 1])
      <3>1. PICK a \in Seq(S) : a = FlattenSeq(q)
        BY <2>7
      <3>2. PICK b \in Seq(S) : b = FlattenSeq(R(n))
        BY <2>7
      <3>3. PICK x \in Seq(S) : x = r[n + 1]
        BY <2>1
      <3>4. (a \o b) \o x = a \o (b \o x)
        <4>1. Regroups(a, b, x)
          BY Regroup
        <4> QED
          BY ONLY <4>1 DEF Regroups
      <3>5. QED
        BY <3>1, <3>2, <3>3, <3>4
    <2>9. QED
      BY <2>4, <2>5, <2>6, <2>8
  <1> HIDE DEF T
  <1>3. T = Nat
    BY <1>1, <1>2, SetInduction DEF T
  <1>4. R(Len(r)) = r /\ Len(r) \in Nat
    BY SubSeqFull
  <1>5. Len(r) \in T
    BY <1>3, <1>4
  <1>6. FlattenSeq(q \o R(Len(r))) = FlattenSeq(q) \o FlattenSeq(R(Len(r)))
    BY <1>4, <1>5 DEF T
  <1>7. QED
    BY <1>4, <1>6

LEMMA LongTail ==
    ASSUME NEW S, NEW q \in Seq(S), Len(q) > 1
    PROVE  Tail(q) # <<>>
  <1>1. q # <<>> /\ Len(q) \in Nat
    OBVIOUS
  <1>2. Len(Tail(q)) = Len(q) - 1
    BY <1>1, HeadTailProperties
  <1>3. Len(Tail(q)) # 0
    BY <1>1, <1>2
  <1>4. Len(<<>>) = 0
    OBVIOUS
  <1>5. QED
    BY <1>3, <1>4, Zenon

LEMMA ShortTail ==
    ASSUME NEW S, NEW q \in Seq(S), q # <<>>, Len(q) = 1
    PROVE  Tail(q) = <<>>
  <1>1. Tail(q) \in Seq(S) /\ Len(Tail(q)) = 0
    BY HeadTailProperties
  <1>2. QED
    BY <1>1, EmptySeq

LEMMA FlattenHead ==
    ASSUME NEW S, NEW q \in Seq(Seq(S)), q # <<>>
    PROVE  FlattenSeq(q) = Head(q) \o FlattenSeq(Tail(q))
  <1>1. Head(q) \in Seq(S) /\ Tail(q) \in Seq(Seq(S)) /\ <<Head(q)>> \in Seq(Seq(S))
    OBVIOUS
  <1>2. q = <<Head(q)>> \o Tail(q)
    OBVIOUS
  <1>3. FlattenSeq(<<Head(q)>> \o Tail(q)) = FlattenSeq(<<Head(q)>>) \o FlattenSeq(Tail(q))
    BY <1>1, FlattenConcat
  <1>4. FlattenSeq(<<Head(q)>>) = Head(q)
    BY <1>1, FlattenOne
  <1>5. QED
    BY <1>2, <1>3, <1>4

LEMMA FlattenNewHead ==
    ASSUME NEW S, NEW q \in Seq(Seq(S)), q # <<>>, NEW x \in Seq(S)
    PROVE  FlattenSeq([q EXCEPT ![1] = x]) = x \o FlattenSeq(Tail(q))
  <1>1. PICK r \in Seq(Seq(S)) : r = [q EXCEPT ![1] = x] /\ r # <<>>
    <2>1. PICK r : r = [q EXCEPT ![1] = x]
      OBVIOUS
    <2>2. r \in Seq(Seq(S)) /\ r # <<>>
      BY <2>1
    <2>3. QED
      BY <2>1, <2>2
  <1>2. Head(r) = x /\ Tail(r) = Tail(q)
    BY <1>1
  <1>3. FlattenSeq(r) = Head(r) \o FlattenSeq(Tail(r))
    BY <1>1, FlattenHead
  <1>4. QED
    BY <1>1, <1>2, <1>3

-----------------------------------------------------------------------------
LEMMA ToSetConcat ==
    ASSUME NEW S, NEW s \in Seq(S), NEW t \in Seq(S)
    PROVE  ToSet(s \o t) = ToSet(s) \cup ToSet(t)
  <1>1. ASSUME NEW x \in ToSet(s) \cup ToSet(t) PROVE x \in ToSet(s \o t)
    <2>1. CASE x \in ToSet(s)
      BY <2>1, ConcatProperties DEF ToSet
    <2>2. CASE x \in ToSet(t)
      <3>1. PICK i \in 1 .. Len(t) : t[i] = x
        BY <2>2 DEF ToSet
      <3>2. (s \o t)[Len(s) + i] = x /\ Len(s) + i \in 1 .. Len(s \o t)
        BY <3>1, ConcatProperties
      <3>3. QED
        BY <3>2 DEF ToSet
    <2>3. QED
      BY <1>1, <2>1, <2>2
  <1>2. ASSUME NEW x \in ToSet(s \o t) PROVE x \in ToSet(s) \cup ToSet(t)
    BY ConcatProperties DEF ToSet
  <1>3. QED
    BY <1>1, <1>2

LEMMA InjectiveConcat ==
    ASSUME NEW S, NEW s \in Seq(S), NEW t \in Seq(S)
    PROVE  IsInjective(s \o t) <=> /\ IsInjective(s) /\ IsInjective(t)
                                   /\ ToSet(s) \cap ToSet(t) = {}
  <1>0. /\ s \o t \in Seq(S) /\ Len(s \o t) = Len(s) + Len(t)
        /\ Len(s) \in Nat /\ Len(t) \in Nat
        /\ \A i \in 1 .. Len(s) + Len(t) :
             (s \o t)[i] = IF i <= Len(s) THEN s[i] ELSE t[i - Len(s)]
    BY ConcatProperties
  <1>1. DOMAIN s = 1 .. Len(s) /\ DOMAIN t = 1 .. Len(t) /\ DOMAIN (s \o t) = 1 .. Len(s) + Len(t)
    BY <1>0, LenProperties
  <1>2. ASSUME IsInjective(s \o t)
        PROVE  IsInjective(s) /\ IsInjective(t) /\ ToSet(s) \cap ToSet(t) = {}
    <2>1. IsInjective(s)
      BY <1>0, <1>1, <1>2 DEF IsInjective
    <2>2. IsInjective(t)
      <3> SUFFICES ASSUME NEW i \in 1 .. Len(t), NEW j \in 1 .. Len(t), t[i] = t[j]
                   PROVE  i = j
        BY <1>1 DEF IsInjective
      <3>1. /\ Len(s) + i \in 1 .. Len(s) + Len(t) /\ Len(s) + j \in 1 .. Len(s) + Len(t)
            /\ (s \o t)[Len(s) + i] = t[i] /\ (s \o t)[Len(s) + j] = t[j]
        BY <1>0
      <3>2. Len(s) + i = Len(s) + j
        BY <1>1, <1>2, <3>1 DEF IsInjective
      <3>3. QED
        BY <1>0, <3>2
    <2>3. ASSUME NEW x \in ToSet(s) \cap ToSet(t) PROVE FALSE
      <3>1. PICK i \in 1 .. Len(s) : s[i] = x
        BY <2>3 DEF ToSet
      <3>2. PICK j \in 1 .. Len(t) : t[j] = x
        BY <2>3 DEF ToSet
      <3>3. /\ i \in 1 .. Len(s) + Len(t) /\ Len(s) + j \in 1 .. Len(s) + Len(t)
            /\ (s \o t)[i] = x /\ (s \o t)[Len(s) + j] = x /\ i # Len(s) + j
        BY <1>0, <3>1, <3>2
      <3>4. QED
        BY <1>1, <1>2, <3>3 DEF IsInjective
    <2>4. QED
      BY <2>1, <2>2, <2>3
  <1>3. ASSUME IsInjective(s), IsInjective(t), ToSet(s) \cap ToSet(t) = {}
        PROVE  IsInjective(s \o t)
    <2> SUFFICES ASSUME NEW i \in 1 .. Len(s) + Len(t), NEW j \in 1 .. Len(s) + Len(t),
                        (s \o t)[i] = (s \o t)[j]
                 PROVE  i = j
      BY <1>1 DEF IsInjective
    <2>1. \A k \in 1 .. Len(s) : s[k] \in ToSet(s)
      BY <1>1 DEF ToSet
    <2>2. \A k \in 1 .. Len(t) : t[k] \in ToSet(t)
      BY <1>1 DEF ToSet
    <2>3. CASE i <= Len(s) /\ j <= Len(s)
      BY <1>0, <1>1, <1>3, <2>3 DEF IsInjective
    <2>4. CASE i > Len(s) /\ j > Len(s)
      <3>1. i - Len(s) \in 1 .. Len(t) /\ j - Len(s) \in 1 .. Len(t) /\ t[i - Len(s)] = t[j - Len(s)]
        BY <1>0, <2>4
      <3>2. i - Len(s) = j - Len(s)
        BY <1>1, <1>3, <3>1 DEF IsInjective
      <3>3. QED
        BY <1>0, <3>2
    <2>5. CASE i <= Len(s) /\ j > Len(s)
      <3>1. s[i] = t[j - Len(s)] /\ i \in 1 .. Len(s) /\ j - Len(s) \in 1 .. Len(t)
        BY <1>0, <2>5
      <3>2. QED
        BY <1>3, <2>1, <2>2, <3>1
    <2>6. CASE i > Len(s) /\ j <= Len(s)
      <3>1. s[j] = t[i - Len(s)] /\ j \in 1 .. Len(s) /\ i - Len(s) \in 1 .. Len(t)
        BY <1>0, <2>6
      <3>2. QED
        BY <1>3, <2>1, <2>2, <3>1
    <2>7. QED
      BY <1>0, <2>3, <2>4, <2>5, <2>6
  <1>4. QED
    BY <1>2, <1>3

(* A sequence is its first n elements and the rest *)
LEMMA CutInTwo ==
    ASSUME NEW S, NEW s \in Seq(S), NEW n \in 0 .. Len(s)
    PROVE  /\ SubSeq(s, 1, n) \in Seq(S) /\ SubSeq(s, n + 1, Len(s)) \in Seq(S)
           /\ Len(SubSeq(s, 1, n)) = n /\ Len(SubSeq(s, n + 1, Len(s))) = Len(s) - n
           /\ s = SubSeq(s, 1, n) \o SubSeq(s, n + 1, Len(s))
  <1>1. Len(s) \in Nat /\ n \in Int /\ \A i \in 1 .. Len(s) : s[i] \in S
    BY LenProperties
  <1>2. SubSeq(s, 1, n) \in Seq(S) /\ Len(SubSeq(s, 1, n)) = n
    BY <1>1, SubSeqProperties
  <1>3. SubSeq(s, n + 1, Len(s)) \in Seq(S) /\ Len(SubSeq(s, n + 1, Len(s))) = Len(s) - n
    BY <1>1, SubSeqProperties
  <1>4. 1 \in 1 .. Len(s) + 1 /\ n \in 1 - 1 .. Len(s) /\ Len(s) \in n .. Len(s)
    BY <1>1
  <1>5. SubSeq(s, 1, n) \o SubSeq(s, n + 1, Len(s)) = SubSeq(s, 1, Len(s))
    BY <1>4, ConcatAdjacentSubSeq
  <1>6. QED
    BY <1>2, <1>3, <1>5, SubSeqFull

-----------------------------------------------------------------------------
LEMMA Sizes == MsgSz \in Nat \ {0} /\ Slice \in Nat \ {0} /\ Cap \in Nat \ {0}
  BY SenderAssumption

(* How many slices n bytes make: k slices are full before the last.        *)
LEMMA SliceCount ==
    ASSUME NEW n \in Nat, NEW k \in Nat, k = (n + Slice - 1) \div Slice
    PROVE  /\ k * Slice >= n
           /\ \A i \in 0 .. k - 1 : i * Slice < n
  <1>1. k * Slice <= n + Slice - 1 /\ n + Slice - 1 < (k + 1) * Slice
    BY Sizes
  <1>2. ASSUME NEW i \in 0 .. k - 1 PROVE i * Slice < n
    <2>1. i * Slice <= (k - 1) * Slice
      BY Sizes
    <2>2. (k - 1) * Slice = k * Slice - Slice
      BY Sizes
    <2>3. QED
      BY <1>1, <2>1, <2>2, Sizes
  <1>3. (k + 1) * Slice = k * Slice + Slice
    BY Sizes
  <1>4. QED
    BY <1>1, <1>2, <1>3, Sizes

(* The slices, one after the other, are the bytes.                         *)
LEMMA SlicesFlatten ==
    ASSUME NEW S, NEW b \in Seq(S)
    PROVE  /\ sliceup(b) \in Seq(Seq(S))
           /\ FlattenSeq(sliceup(b)) = b
           /\ b # <<>> => sliceup(b) # <<>>
  <1> DEFINE L == Len(b)
             least(a, n) == IF a < n THEN a ELSE n
             End(k) == least(k * Slice, L)
             piece(k) == SubSeq(b, (k - 1) * Slice + 1, End(k))
  <1>0. PICK K \in Nat : K = (L + Slice - 1) \div Slice
    BY Sizes
  <1>1. /\ L \in Nat /\ K * Slice >= L
        /\ \A i \in 0 .. K - 1 : i * Slice < L
    BY <1>0, SliceCount
  <1>2. \A k \in Nat : k * Slice \in Nat /\ (k + 1) * Slice = k * Slice + Slice
    BY Sizes
  <1>3. \A k \in Nat : End(k) \in 0 .. L
    BY <1>1, <1>2
  <1>4. ASSUME NEW k \in 1 .. K
        PROVE  /\ piece(k) \in Seq(S)
               /\ (k - 1) * Slice = End(k - 1) /\ End(k - 1) <= End(k)
    <2>1. k - 1 \in 0 .. K - 1 /\ k - 1 \in Nat /\ (k - 1) + 1 = k
      BY <1>0
    <2>2. (k - 1) * Slice < L /\ (k - 1) * Slice \in Nat /\ k * Slice = (k - 1) * Slice + Slice
      BY <1>1, <1>2, <2>1
    <2>3. (k - 1) * Slice = End(k - 1) /\ End(k - 1) <= End(k) /\ End(k) \in 0 .. L
      BY <1>3, <2>1, <2>2, Sizes
    <2>4. \A i \in 1 .. L : b[i] \in S
      OBVIOUS
    <2>5. \A i \in (k - 1) * Slice + 1 .. End(k) : b[i] \in S
      BY <2>2, <2>3, <2>4, <1>1
    <2>6. piece(k) \in Seq(S)
      <3>1. PICK m \in Nat, n \in Nat : m = (k - 1) * Slice + 1 /\ n = End(k)
        BY <2>2, <2>3, <1>1
      <3>2. \A i \in m .. n : b[i] \in S
        BY <2>5, <3>1
      <3>3. SubSeq(b, m, n) \in Seq(S)
        BY <3>2, SubSeqProperties
      <3>4. QED
        BY <3>1, <3>3
    <2>7. QED
      BY <2>3, <2>6
  <1>5. sliceup(b) = [k \in 1 .. K |-> piece(k)]
    BY <1>0 DEF sliceup
  <1> DEFINE P == [k \in 1 .. K |-> piece(k)]
  <1> HIDE DEF piece
  <1>6. P \in Seq(Seq(S)) /\ Len(P) = K
    BY <1>4
  <1> DEFINE T == {n \in Nat : n <= K => FlattenSeq(SubSeq(P, 1, n)) = SubSeq(b, 1, End(n))}
  <1>7. 0 \in T
    <2>1. End(0) = 0
      BY <1>1, Sizes
    <2>2. SubSeq(P, 1, 0) = <<>> /\ SubSeq(b, 1, 0) = <<>>
      BY <1>6, SubSeqEmpty
    <2>3. QED
      BY <2>1, <2>2, FlattenEmpty
  <1>8. ASSUME NEW n \in T PROVE n + 1 \in T
    <2> SUFFICES ASSUME n + 1 <= K
                 PROVE  FlattenSeq(SubSeq(P, 1, n + 1)) = SubSeq(b, 1, End(n + 1))
      OBVIOUS
    <2>1. n \in Nat /\ n + 1 \in 1 .. K /\ (n + 1) - 1 = n
      BY <1>0
    <2>2. SubSeq(P, 1, n + 1) = Append(SubSeq(P, 1, n), piece(n + 1)) /\ SubSeq(P, 1, n) \in Seq(Seq(S))
      <3>1. P[n + 1] = piece(n + 1)
        BY <2>1
      <3>2. PICK p \in Seq(Seq(S)) : p = P /\ Len(p) = K
        BY <1>6
      <3>3. SubSeq(p, 1, n + 1) = Append(SubSeq(p, 1, n), p[n + 1]) /\ SubSeq(p, 1, n) \in Seq(Seq(S))
        BY <2>1, <3>2
      <3>4. QED
        BY <3>1, <3>2, <3>3
    <2>3. FlattenSeq(SubSeq(P, 1, n)) = SubSeq(b, 1, End(n))
      BY <2>1, <1>8
    <2>4. /\ piece(n + 1) \in Seq(S) /\ n * Slice = End(n) /\ End(n) <= End(n + 1)
      BY <1>4, <2>1
    <2>5. piece(n + 1) = SubSeq(b, End(n) + 1, End(n + 1))
      BY <2>1, <2>4 DEF piece
    <2>6. End(n) \in 0 .. L /\ End(n + 1) \in 0 .. L
      BY <1>3, <2>1
    <2> HIDE DEF End, P, T
    <2>7. FlattenSeq(SubSeq(P, 1, n + 1)) = SubSeq(b, 1, End(n)) \o piece(n + 1)
      BY <2>2, <2>3, <2>4, FlattenAppend
    <2>8. SubSeq(b, 1, End(n)) \o SubSeq(b, End(n) + 1, End(n + 1)) = SubSeq(b, 1, End(n + 1))
      <3>1. PICK m \in 0 .. L, u \in 0 .. L : m = End(n) /\ u = End(n + 1) /\ m <= u
        BY <2>4, <2>6
      <3>2. 1 \in 1 .. L + 1 /\ m \in 1 - 1 .. L /\ u \in m .. L
        BY <3>1, <1>1
      <3>3. SubSeq(b, 1, m) \o SubSeq(b, m + 1, u) = SubSeq(b, 1, u)
        BY <3>2, ConcatAdjacentSubSeq
      <3>4. QED
        BY <3>1, <3>3
    <2>9. QED
      BY <2>5, <2>7, <2>8
  <1> HIDE DEF T, P, End
  <1>9. T = Nat
    BY <1>7, <1>8, SetInduction DEF T
  <1>10. FlattenSeq(SubSeq(P, 1, K)) = SubSeq(b, 1, End(K))
    BY <1>0, <1>9 DEF T
  <1>11. SubSeq(P, 1, K) = P
    BY <1>6, SubSeqFull
  <1>12. End(K) = L /\ SubSeq(b, 1, L) = b
    BY <1>1, <1>2, <1>3, SubSeqFull DEF End
  <1>13. b # <<>> => K # 0
    BY <1>1, <1>2, Sizes
  <1>14. sliceup(b) = P
    BY <1>5 DEF P
  <1>15. b # <<>> => P # <<>>
    BY <1>6, <1>13
  <1>16. FlattenSeq(P) = b
    BY <1>10, <1>11, <1>12
  <1>17. QED
    BY <1>6, <1>14, <1>15, <1>16

-----------------------------------------------------------------------------
(* What the state keeps to                                                 *)

(* A call of send that is not over holds bytes for a connection its thread *)
(* may use; an entry is never empty; wlist is a variable of the pass.      *)
WriterOK(t) ==
    IF writer[t].at = "idle" THEN writer[t] = Idle
    ELSE writer[t].con \in Uses[t] /\ writer[t].rest # <<>>

Shape ==
    /\ \A t \in Writers : WriterOK(t)
    /\ \A c \in Conns : c \in registered <=> data[c] # <<>>
    /\ run # "pass" => wlist = {}

(* A thread that is about to write to the socket itself, and is the only   *)
(* one that uses it, has nothing waiting there.                            *)
DirectFirst ==
    \A t \in Writers :
      writer[t].at = "direct" /\ OneWriter(writer[t].con) => writer[t].con \notin registered

SenderInv == TypeOK /\ Shape /\ FlagCoversData /\ DirectFirst

WriterType == [at : {"idle", "direct", "defer"}, con : Conns \cup {NoConn}, rest : Seq(Byte)]

LEMMA InitInv == Init => SenderInv
  <1> SUFFICES ASSUME Init PROVE SenderInv
    OBVIOUS
  <1> USE DEF Init
  <1>1. TypeOK
    <2>1. Idle \in [at : {"idle", "direct", "defer"}, con : Conns \cup {NoConn}, rest : Seq(Byte)]
      BY DEF Idle
    <2>2. <<>> \in Seq(Byte) /\ <<>> \in Seq(Seq(Byte))
      OBVIOUS
    <2>3. MaxMsgs \in Nat
      BY SenderAssumption
    <2>4. inflight \in [Conns -> 0 .. Cap] /\ accepted \in [Conns -> 0 .. msgs] /\ msgs \in 0 .. MaxMsgs
      BY <2>3, Sizes
    <2>5. writer \in [Writers -> WriterType]
      BY <2>1 DEF WriterType
    <2>6. QED
      BY <2>2, <2>4, <2>5 DEF TypeOK, WriterType
  <1>2. Shape
    BY DEF Shape, WriterOK, Idle
  <1>3. FlagCoversData
    BY DEF FlagCoversData
  <1>4. DirectFirst
    BY DEF DirectFirst, Idle
  <1>5. QED
    BY <1>1, <1>2, <1>3, <1>4 DEF SenderInv

LEMMA BytesType == ASSUME NEW m \in Nat PROVE Bytes(m) \in Seq(Byte) /\ Bytes(m) # <<>>
  <1>1. Bytes(m) \in [1 .. MsgSz -> Byte] /\ Len(Bytes(m)) = MsgSz
    BY Sizes DEF Bytes, Byte
  <1>2. QED
    BY <1>1, Sizes

LEMMA SendInv ==
    ASSUME SenderInv, NEW t \in Writers, NEW c \in Uses[t], send(t, c)
    PROVE  SenderInv'
  <1> USE DEF send
  <1>0. c \in Conns /\ accepted[c] \in Nat /\ accepted[c] + 1 \in Nat
    <2>1. c \in Conns
      BY SenderAssumption
    <2>2. accepted[c] \in 0 .. msgs /\ msgs \in Nat
      BY <2>1 DEF SenderInv, TypeOK
    <2>3. QED
      BY <2>1, <2>2
  <1> DEFINE w == [at |-> IF sending THEN "defer" ELSE "direct",
                   con |-> c, rest |-> Bytes(accepted[c] + 1)]
  <1>1. w \in WriterType
    BY <1>0, BytesType DEF WriterType
  <1>2. TypeOK'
    <2>1. writer' \in [Writers -> WriterType]
      BY <1>1 DEF SenderInv, TypeOK, WriterType
    <2>2. msgs' \in 0 .. MaxMsgs /\ accepted' \in [Conns -> 0 .. msgs']
      <3>1. MaxMsgs \in Nat /\ msgs \in 0 .. MaxMsgs /\ msgs' = msgs + 1
        BY SenderAssumption DEF SenderInv, TypeOK
      <3>2. accepted \in [Conns -> 0 .. msgs]
        BY DEF SenderInv, TypeOK
      <3>3. \A b \in Conns : accepted'[b] \in 0 .. msgs + 1
        BY <3>1, <3>2
      <3>4. accepted' \in [Conns -> 0 .. msgs + 1]
        BY <3>2, <3>3
      <3>5. msgs' \in 0 .. MaxMsgs
        BY <3>1
      <3>6. QED
        BY <3>1, <3>4, <3>5
    <2>3. QED
      BY <2>1, <2>2 DEF SenderInv, TypeOK, WriterType, conVars, runVars
  <1>3. Shape'
    <2>1. ASSUME NEW u \in Writers PROVE WriterOK(u)'
      BY <1>0, BytesType DEF SenderInv, TypeOK, Shape, WriterOK, Idle
    <2>2. QED
      BY <2>1 DEF SenderInv, Shape, runVars
  <1>4. FlagCoversData'
    BY DEF SenderInv, FlagCoversData
  <1>5. DirectFirst'
    <2> SUFFICES ASSUME NEW u \in Writers, writer'[u].at = "direct", OneWriter(writer'[u].con)
                 PROVE  writer'[u].con \notin registered
      BY DEF DirectFirst, OneWriter
    <2>1. CASE u = t
      BY <2>1 DEF SenderInv, TypeOK, FlagCoversData
    <2>2. CASE u # t
      BY <2>2 DEF SenderInv, TypeOK, DirectFirst
    <2>3. QED
      BY <2>1, <2>2
  <1>6. QED
    BY <1>2, <1>3, <1>4, <1>5 DEF SenderInv

(* The cut a socket makes: the n bytes it takes, and the rest              *)
LEMMA CutBytes ==
    ASSUME NEW b \in Seq(Byte), NEW n \in 0 .. Len(b)
    PROVE  /\ SubSeq(b, 1, n) \in Seq(Byte) /\ Rest(b, n) \in Seq(Byte)
           /\ b = SubSeq(b, 1, n) \o Rest(b, n)
           /\ n < Len(b) => Rest(b, n) # <<>>
           /\ n = Len(b) => SubSeq(b, 1, n) = b /\ Rest(b, n) = <<>>
  <1>1. /\ SubSeq(b, 1, n) \in Seq(Byte) /\ Rest(b, n) \in Seq(Byte)
        /\ Len(Rest(b, n)) = Len(b) - n
        /\ b = SubSeq(b, 1, n) \o Rest(b, n)
    BY CutInTwo DEF Rest
  <1>2. Len(b) \in Nat
    OBVIOUS
  <1>3. n < Len(b) => Rest(b, n) # <<>>
    BY <1>1, <1>2
  <1>4. n = Len(b) => Rest(b, n) = <<>>
    BY <1>1, <1>2
  <1>5. n = Len(b) => SubSeq(b, 1, n) = b
    BY SubSeqFull
  <1>6. QED
    BY <1>1, <1>3, <1>4, <1>5

(* What a socket takes keeps the types of wire and inflight.               *)
LEMMA TakenType ==
    ASSUME SenderInv, NEW c \in Conns, NEW b \in Seq(Byte), NEW n \in 0 .. Len(b),
           n <= Free(c), Taken(c, b, n)
    PROVE  wire' \in [Conns -> Seq(Byte)] /\ inflight' \in [Conns -> 0 .. Cap]
  <1>1. wire[c] \o SubSeq(b, 1, n) \in Seq(Byte)
    BY CutBytes, ConcatProperties DEF SenderInv, TypeOK
  <1>2. wire' \in [Conns -> Seq(Byte)]
    BY <1>1 DEF Taken, SenderInv, TypeOK
  <1>3. inflight \in [Conns -> 0 .. Cap] /\ Cap \in Nat /\ n \in Nat /\ inflight[c] + n <= Cap
    BY Sizes DEF Free, SenderInv, TypeOK
  <1>4. inflight[c] + n \in 0 .. Cap
    BY <1>3
  <1>5. inflight' \in [Conns -> 0 .. Cap]
    BY <1>3, <1>4 DEF Taken
  <1>6. QED
    BY <1>2, <1>5

LEMMA DirectInv ==
    ASSUME SenderInv, NEW t \in Writers, SendDirect(t)
    PROVE  SenderInv'
  <1> DEFINE c == writer[t].con
             rest == writer[t].rest
  <1>0. /\ writer[t].at = "direct" /\ c \in Uses[t] /\ c \in Conns
        /\ rest \in Seq(Byte) /\ rest # <<>>
        /\ writer \in [Writers -> WriterType]
    BY SenderAssumption DEF SendDirect, SenderInv, TypeOK, Shape, WriterOK, WriterType
  <1>1. PICK w : /\ writer' = [writer EXCEPT ![t] = w]
                 /\ w \in WriterType
                 /\ w = Idle \/ (w.at = "defer" /\ w.con = c /\ w.rest # <<>>)
    <2>1. CASE \E n \in 1 .. Len(rest) : writer' = [writer EXCEPT ![t] =
                       IF n = Len(rest) THEN Idle
                       ELSE [at |-> "defer", con |-> c, rest |-> Rest(rest, n)]]
      <3>1. PICK n \in 1 .. Len(rest) : writer' = [writer EXCEPT ![t] =
                       IF n = Len(rest) THEN Idle
                       ELSE [at |-> "defer", con |-> c, rest |-> Rest(rest, n)]]
        BY <2>1
      <3>2. n \in 0 .. Len(rest) /\ (n # Len(rest) => n < Len(rest))
        OBVIOUS
      <3>3. Rest(rest, n) \in Seq(Byte) /\ (n # Len(rest) => Rest(rest, n) # <<>>)
        BY <1>0, <3>2, CutBytes
      <3>4. Idle \in WriterType
        BY DEF Idle, WriterType
      <3> HIDE DEF rest, c
      <3>5. CASE n = Len(rest)
        BY <3>1, <3>4, <3>5
      <3>6. CASE n # Len(rest)
        <4>1. [at |-> "defer", con |-> c, rest |-> Rest(rest, n)] \in WriterType
          BY <1>0, <3>3 DEF WriterType
        <4>2. PICK w : w = [at |-> "defer", con |-> c, rest |-> Rest(rest, n)]
          OBVIOUS
        <4>3. w.at = "defer" /\ w.con = c /\ w.rest = Rest(rest, n)
          BY <4>2
        <4>4. writer' = [writer EXCEPT ![t] = w]
          BY <3>1, <3>6, <4>2
        <4>5. QED
          BY <3>3, <3>6, <4>1, <4>2, <4>3, <4>4
      <3>7. QED
        BY <3>5, <3>6
    <2>2. CASE writer' = [writer EXCEPT ![t].at = "defer"]
      <3>1. writer' = [writer EXCEPT ![t] = [writer[t] EXCEPT !.at = "defer"]]
        BY <2>2, <1>0
      <3>2. [writer[t] EXCEPT !.at = "defer"] \in WriterType
        BY <1>0 DEF WriterType
      <3>3. writer[t] \in WriterType
        BY <1>0
      <3>4. PICK w : w = [writer[t] EXCEPT !.at = "defer"]
        OBVIOUS
      <3>5. w.at = "defer" /\ w.con = c /\ w.rest = rest
        BY <3>3, <3>4 DEF WriterType
      <3>6. writer' = [writer EXCEPT ![t] = w] /\ w \in WriterType
        BY <3>1, <3>2, <3>4
      <3>7. rest # <<>>
        BY <1>0
      <3> HIDE DEF rest, c
      <3>8. w = Idle \/ (w.at = "defer" /\ w.con = c /\ w.rest # <<>>)
        BY <3>5, <3>7
      <3>9. QED
        BY <3>6, <3>8, Zenon
    <2>3. CASE writer' = [writer EXCEPT ![t] = Idle]
      <3>1. Idle \in WriterType
        BY DEF Idle, WriterType
      <3>2. QED
        BY <2>3, <3>1
    <2>4. QED
      BY <2>1, <2>2, <2>3 DEF SendDirect
  <1>2. TypeOK'
    <2>1. writer' \in [Writers -> WriterType]
      BY <1>0, <1>1
    <2>2. wire' \in [Conns -> Seq(Byte)] /\ inflight' \in [Conns -> 0 .. Cap]
      <3>1. CASE \E n \in 1 .. Len(rest) : n <= Free(c) /\ Taken(c, rest, n)
        <4>1. PICK n \in 1 .. Len(rest) : n <= Free(c) /\ Taken(c, rest, n)
          BY <3>1
        <4>2. n \in 0 .. Len(rest)
          OBVIOUS
        <4>3. QED
          BY <1>0, <4>1, <4>2, TakenType
      <3>2. CASE UNCHANGED <<wire, inflight>>
        BY <3>2 DEF SenderInv, TypeOK
      <3>3. QED
        BY <3>1, <3>2 DEF SendDirect
    <2>3. disconnected' = disconnected \/ (disconnected' = disconnected \cup {c} /\ c \in gone)
      BY DEF SendDirect, SenderInv, TypeOK
    <2>4. QED
      BY <2>1, <2>2, <2>3 DEF SendDirect, SenderInv, TypeOK, WriterType, runVars
  <1>3. UNCHANGED <<data, registered, run, wlist, sending>>
    BY DEF SendDirect, runVars
  <1>4. Shape'
    <2>1. ASSUME NEW u \in Writers PROVE WriterOK(u)'
      <3>1. WriterOK(u)
        BY DEF SenderInv, Shape
      <3>2. CASE u = t
        BY <1>0, <1>1, <3>2 DEF WriterOK, Idle
      <3>3. CASE u # t
        BY <1>0, <1>1, <3>1, <3>3 DEF WriterOK
      <3>4. QED
        BY <3>2, <3>3
    <2>2. QED
      BY <2>1, <1>3 DEF SenderInv, Shape
  <1>5. FlagCoversData'
    BY <1>3 DEF SenderInv, FlagCoversData
  <1>6. DirectFirst'
    <2> SUFFICES ASSUME NEW u \in Writers, writer'[u].at = "direct", OneWriter(writer'[u].con)
                 PROVE  writer'[u].con \notin registered
      BY <1>3 DEF DirectFirst, OneWriter
    <2>1. u # t /\ writer'[u] = writer[u]
      BY <1>0, <1>1 DEF Idle
    <2>2. QED
      BY <2>1 DEF SenderInv, DirectFirst
  <1>7. QED
    BY <1>2, <1>4, <1>5, <1>6 DEF SenderInv

LEMMA DeferInv ==
    ASSUME SenderInv, NEW t \in Writers, defer(t)
    PROVE  SenderInv'
  <1> DEFINE c == writer[t].con
             rest == writer[t].rest
  <1>0. /\ writer[t].at = "defer" /\ c \in Uses[t] /\ c \in Conns
        /\ rest \in Seq(Byte) /\ rest # <<>>
        /\ writer \in [Writers -> WriterType]
    BY SenderAssumption DEF defer, SenderInv, TypeOK, Shape, WriterOK, WriterType
  <1>1. sliceup(rest) \in Seq(Seq(Byte)) /\ sliceup(rest) # <<>>
    BY <1>0, SlicesFlatten
  <1>2. PICK d \in Seq(Seq(Byte)) : d # <<>> /\ data' = [data EXCEPT ![c] = d]
    <2>1. PICK e \in Seq(Seq(Byte)) : e = (IF c \in registered THEN data[c] ELSE <<>>)
      <3>1. data[c] \in Seq(Seq(Byte)) /\ <<>> \in Seq(Seq(Byte))
        BY <1>0 DEF SenderInv, TypeOK
      <3>2. QED
        BY <3>1
    <2>2. e \o sliceup(rest) \in Seq(Seq(Byte)) /\ Len(e \o sliceup(rest)) = Len(e) + Len(sliceup(rest))
      BY <1>1, ConcatProperties
    <2>3. Len(e) \in Nat /\ Len(sliceup(rest)) \in Nat /\ Len(sliceup(rest)) # 0
      BY <1>1
    <2>4. e \o sliceup(rest) # <<>>
      BY <2>2, <2>3
    <2>5. data' = [data EXCEPT ![c] = e \o sliceup(rest)]
      BY <2>1 DEF defer
    <2>6. QED
      BY <2>2, <2>4, <2>5
  <1>3. TypeOK'
    <2>1. writer' \in [Writers -> WriterType]
      BY <1>0 DEF defer, Idle, WriterType
    <2>2. data' \in [Conns -> Seq(Seq(Byte))]
      BY <1>0, <1>2 DEF SenderInv, TypeOK
    <2>3. registered' \subseteq Conns
      BY <1>0 DEF SenderInv, TypeOK, defer
    <2>4. QED
      BY <2>1, <2>2, <2>3 DEF defer, SenderInv, TypeOK, WriterType, conVars, runVars
  <1>4. Shape'
    <2>1. ASSUME NEW u \in Writers PROVE WriterOK(u)'
      BY <1>0 DEF defer, SenderInv, Shape, WriterOK, Idle
    <2>2. ASSUME NEW b \in Conns PROVE b \in registered' <=> data'[b] # <<>>
      BY <1>0, <1>2 DEF defer, SenderInv, TypeOK, Shape
    <2>3. run' # "pass" => wlist' = {}
      BY DEF defer, SenderInv, Shape, runVars
    <2>4. QED
      BY <2>1, <2>2, <2>3 DEF Shape
  <1>5. FlagCoversData'
    BY DEF defer, FlagCoversData
  <1>6. DirectFirst'
    <2> SUFFICES ASSUME NEW u \in Writers, writer'[u].at = "direct", OneWriter(writer'[u].con)
                 PROVE  writer'[u].con \notin registered'
      BY DEF DirectFirst, OneWriter
    <2>1. u # t /\ writer'[u] = writer[u]
      BY <1>0 DEF defer, Idle
    <2>2. writer[u].con \in Uses[u] /\ writer[u].con \notin registered
      BY <2>1 DEF SenderInv, DirectFirst, Shape, WriterOK
    <2>3. writer[u].con # c
      BY <1>0, <2>1, <2>2 DEF OneWriter
    <2>4. QED
      BY <2>1, <2>2, <2>3 DEF defer
  <1>7. QED
    BY <1>3, <1>4, <1>5, <1>6 DEF SenderInv

(* The step of the sender's thread for connection c: what it does to the   *)
(* socket and to the slices                                                *)
LEMMA SliceTypes ==
    ASSUME SenderInv, NEW c \in Conns, SendSlice(c)
    PROVE  /\ data[c] # <<>> /\ Head(data[c]) \in Seq(Byte) /\ Tail(data[c]) \in Seq(Seq(Byte))
           /\ Len(Head(data[c])) \in 0 .. Len(Head(data[c]))
  BY DEF SendSlice, SenderInv, TypeOK, Shape

LEMMA SliceInv ==
    ASSUME SenderInv, NEW c \in Conns, SendSlice(c)
    PROVE  SenderInv'
  <1> DEFINE first == Head(data[c])
             left == registered \ {c}
  <1>0. /\ run = "pass" /\ c \in registered /\ data[c] # <<>>
        /\ first \in Seq(Byte) /\ Tail(data[c]) \in Seq(Seq(Byte))
        /\ Len(first) \in 0 .. Len(first)
        /\ data \in [Conns -> Seq(Seq(Byte))] /\ data[c] \in Seq(Seq(Byte))
    BY SliceTypes DEF SendSlice, SenderInv, TypeOK
  <1>1. wire' \in [Conns -> Seq(Byte)] /\ inflight' \in [Conns -> 0 .. Cap]
    <2>1. CASE \E n \in 0 .. Len(first) : n <= Free(c) /\ Taken(c, first, n)
      BY <1>0, <2>1, TakenType
    <2>2. CASE UNCHANGED <<wire, inflight>>
      BY <2>2 DEF SenderInv, TypeOK
    <2>3. \A n \in 0 .. Len(first) - 1 : n \in 0 .. Len(first)
      BY <1>0
    <2>4. QED
      BY <1>0, <2>1, <2>2, <2>3 DEF SendSlice
  (* The slices that remain, and whether the entry stays                   *)
  <1>2. PICK d \in Seq(Seq(Byte)) :
          /\ data' = [data EXCEPT ![c] = d]
          /\ d # <<>> => registered' = registered /\ sending' = sending
          /\ d = <<>> => registered' = left /\ (sending' = sending \/ (left = {} /\ sending' = FALSE))
    <2>1. CASE data' = [data EXCEPT ![c] = Tail(@)] /\ Len(data[c]) > 1 /\ UNCHANGED <<registered, sending>>
      <3>1. Tail(data[c]) # <<>>
        BY <1>0, <2>1, LongTail
      <3>2. QED
        BY <1>0, <2>1, <3>1
    <2>2. CASE /\ data' = [data EXCEPT ![c] = <<>>] /\ registered' = left
               /\ sending' = Reset(left, c) \/ sending' = sending
      <3>1. <<>> \in Seq(Seq(Byte))
        OBVIOUS
      <3>2. QED
        BY <2>2, <3>1 DEF Reset
    <2>3. CASE (\E n \in 0 .. Len(first) - 1 : data' = [data EXCEPT ![c][1] = Rest(first, n)])
               /\ UNCHANGED <<registered, sending>>
      <3>1. PICK n \in 0 .. Len(first) - 1 : data' = [data EXCEPT ![c][1] = Rest(first, n)]
        BY <2>3
      <3>2. n \in 0 .. Len(first)
        BY <1>0
      <3>3. Rest(first, n) \in Seq(Byte)
        BY <1>0, <3>2, CutBytes
      <3>4. PICK d : d = [data[c] EXCEPT ![1] = Rest(first, n)]
        OBVIOUS
      <3>5. d \in Seq(Seq(Byte)) /\ d # <<>>
        BY <1>0, <3>3, <3>4
      <3>6. data' = [data EXCEPT ![c] = d]
        BY <1>0, <3>1, <3>4
      <3>7. QED
        BY <2>3, <3>5, <3>6
    <2>4. QED
      BY <2>1, <2>2, <2>3 DEF SendSlice
  <1>3. /\ UNCHANGED <<gone, closed, run, cons, writer, msgs, accepted>>
        /\ wlist' \subseteq wlist
        /\ disconnected' = disconnected \/ (disconnected' = disconnected \cup {c} /\ c \in gone)
    BY DEF SendSlice, SenderInv, TypeOK
  <1>4. sending' \in BOOLEAN /\ registered' \subseteq registered
    BY <1>2 DEF SenderInv, TypeOK
  <1>5. TypeOK'
    <2>1. data' \in [Conns -> Seq(Seq(Byte))]
      BY <1>0, <1>2
    <2>2. QED
      BY <1>1, <1>3, <1>4, <2>1 DEF SenderInv, TypeOK
  <1>6. Shape'
    <2>1. ASSUME NEW u \in Writers PROVE WriterOK(u)'
      BY <1>3 DEF SenderInv, Shape, WriterOK
    <2>2. ASSUME NEW b \in Conns PROVE b \in registered' <=> data'[b] # <<>>
      BY <1>0, <1>2 DEF SenderInv, TypeOK, Shape
    <2>3. run' = "pass"
      BY <1>0, <1>3
    <2>4. QED
      BY <2>1, <2>2, <2>3 DEF Shape
  <1>7. FlagCoversData'
    BY <1>0, <1>2 DEF SenderInv, FlagCoversData
  <1>8. DirectFirst'
    BY <1>3, <1>4 DEF SenderInv, DirectFirst, OneWriter
  <1>9. QED
    BY <1>5, <1>6, <1>7, <1>8 DEF SenderInv

(* The other steps leave the data, the writers and the sockets alone.      *)
LEMMA OtherInv ==
    ASSUME SenderInv,
           \/ CopyKeys \/ CallSelect \/ SelectReturns \/ PassDone
           \/ (\E c \in Conns : close(c) \/ Drain(c) \/ Leave(c))
           \/ UNCHANGED vars
    PROVE  SenderInv' /\ UNCHANGED <<data, wire, writer, accepted>>
                      /\ disconnected \subseteq disconnected'
  <1> USE DEF conVars, runVars
  <1>1. UNCHANGED <<data, registered, sending, writer, msgs, accepted, wire>>
    BY DEF CopyKeys, CallSelect, SelectReturns, PassDone, close, Drain, Leave, vars
  <1>2. /\ closed' \subseteq disconnected' /\ disconnected' \subseteq gone'
        /\ gone' \subseteq Conns /\ disconnected \subseteq disconnected'
    BY DEF CopyKeys, CallSelect, SelectReturns, PassDone, close, Drain, Leave, vars, SenderInv, TypeOK
  <1>3. inflight' \in [Conns -> 0 .. Cap]
    <2>1. CASE inflight' = inflight
      BY <2>1 DEF SenderInv, TypeOK
    <2>2. ASSUME NEW c \in Conns, Drain(c) PROVE inflight' \in [Conns -> 0 .. Cap]
      <3>1. inflight \in [Conns -> 0 .. Cap] /\ Cap \in Nat /\ inflight[c] > 0
        BY <2>2, Sizes DEF Drain, SenderInv, TypeOK
      <3>2. inflight[c] - 1 \in 0 .. Cap
        BY <3>1
      <3>3. QED
        BY <2>2, <3>1, <3>2 DEF Drain
    <2>3. QED
      BY <2>1, <2>2 DEF CopyKeys, CallSelect, SelectReturns, PassDone, close, Leave, vars
  <1>4. /\ cons' \subseteq Conns /\ wlist' \subseteq cons'
        /\ run' \in {"top", "call", "select", "pass", "dead"}
        /\ run' # "pass" => wlist' = {}
    BY DEF CopyKeys, CallSelect, SelectReturns, PassDone, close, Drain, Leave, vars, SenderInv, TypeOK, Shape
  <1>5. TypeOK'
    BY <1>1, <1>2, <1>3, <1>4 DEF SenderInv, TypeOK
  <1>6. Shape' /\ FlagCoversData' /\ DirectFirst'
    BY <1>1, <1>4 DEF SenderInv, Shape, WriterOK, FlagCoversData, DirectFirst, OneWriter
  <1>7. QED
    BY <1>1, <1>2, <1>5, <1>6 DEF SenderInv

LEMMA NextInv == SenderInv /\ [Next]_vars => SenderInv'
  BY SendInv, DirectInv, DeferInv, SliceInv, OtherInv DEF Next, Run

(* In every state of Connection.send and DeferredSender.run the flag       *)
(* sending covers _dataForConnection, and a thread that writes directly to *)
(* a connection of its own finds nothing waiting there (of_01.py:869).     *)
THEOREM SenderInvariant == Spec => []SenderInv
  <1>1. QED
    BY InitInv, NextInv, PTL DEF Spec

(* The types of of_01.py's DeferredSender and Connection.send.             *)
THEOREM SenderTypes == Spec => []TypeOK
  <1>1. SenderInv => TypeOK
    BY DEF SenderInv
  <1>2. QED
    BY <1>1, SenderInvariant, PTL

(* The flag sending that Connection.send reads without the lock is never   *)
(* FALSE while something waits in _dataForConnection.                      *)
THEOREM SenderFlagCoversData == Spec => []FlagCoversData
  <1>1. SenderInv => FlagCoversData
    BY DEF SenderInv
  <1>2. QED
    BY <1>1, SenderInvariant, PTL

-----------------------------------------------------------------------------
(* The streams                                                             *)

(* The bytes of the first n messages for a connection                      *)
Messages(n) == FlattenSeq([m \in 1 .. n |-> Bytes(m)])

LEMMA MessagesNext ==
    ASSUME NEW n \in Nat
    PROVE  /\ Messages(n) \in Seq(Byte)
           /\ Messages(n + 1) = Messages(n) \o Bytes(n + 1)
  <1> DEFINE M(k) == [m \in 1 .. k |-> Bytes(m)]
  <1>1. \A k \in Nat : M(k) \in Seq(Seq(Byte)) /\ Len(M(k)) = k
    <2> SUFFICES ASSUME NEW k \in Nat PROVE M(k) \in Seq(Seq(Byte)) /\ Len(M(k)) = k
      OBVIOUS
    <2>1. \A m \in 1 .. k : Bytes(m) \in Seq(Byte)
      BY BytesType
    <2>2. QED
      BY <2>1
  <1>2. Bytes(n + 1) \in Seq(Byte)
    BY BytesType
  <1>3. M(n + 1) = Append(M(n), Bytes(n + 1))
    BY <1>1, <1>2
  <1>4. Messages(n) = FlattenSeq(M(n)) /\ Messages(n + 1) = FlattenSeq(M(n + 1))
    BY DEF Messages
  <1> HIDE DEF M
  <1>5. M(n) \in Seq(Seq(Byte))
    BY <1>1
  <1>6. FlattenSeq(M(n)) \in Seq(Byte)
    BY <1>5, FlattenType
  <1>7. FlattenSeq(Append(M(n), Bytes(n + 1))) = FlattenSeq(M(n)) \o Bytes(n + 1)
    BY <1>2, <1>5, FlattenAppend
  <1>8. QED
    BY <1>3, <1>4, <1>6, <1>7

LEMMA BytesOfOne ==
    ASSUME NEW m \in Nat
    PROVE  IsInjective(Bytes(m)) /\ \A b \in ToSet(Bytes(m)) : b[1] = m
  <1>1. Len(Bytes(m)) = MsgSz /\ DOMAIN Bytes(m) = 1 .. MsgSz
    BY Sizes DEF Bytes
  <1>2. IsInjective(Bytes(m))
    BY <1>1 DEF IsInjective, Bytes
  <1>3. \A b \in ToSet(Bytes(m)) : b[1] = m
    BY <1>1 DEF ToSet, Bytes
  <1>4. QED
    BY <1>2, <1>3

(* The bytes of the next message are new.                                  *)
LEMMA MessagesBelow ==
    ASSUME NEW n \in Nat
    PROVE  \A b \in ToSet(Messages(n)) : b[1] <= n
  <1> DEFINE T == {k \in Nat : \A b \in ToSet(Messages(k)) : b[1] <= k}
  <1>1. 0 \in T
    <2>1. [m \in 1 .. 0 |-> Bytes(m)] = <<>>
      OBVIOUS
    <2>2. Messages(0) = <<>>
      BY <2>1, FlattenEmpty DEF Messages
    <2>3. QED
      BY <2>2 DEF ToSet
  <1>2. ASSUME NEW k \in T PROVE k + 1 \in T
    <2>1. k \in Nat /\ \A b \in ToSet(Messages(k)) : b[1] <= k
      OBVIOUS
    <2>2. Messages(k) \in Seq(Byte) /\ Bytes(k + 1) \in Seq(Byte)
      BY <2>1, MessagesNext, BytesType
    <2>3. ToSet(Messages(k + 1)) = ToSet(Messages(k)) \cup ToSet(Bytes(k + 1))
      <3>1. PICK a \in Seq(Byte), b \in Seq(Byte) : a = Messages(k) /\ b = Bytes(k + 1)
        BY <2>2
      <3>2. ToSet(a \o b) = ToSet(a) \cup ToSet(b)
        BY ToSetConcat
      <3>3. Messages(k + 1) = a \o b
        BY <2>1, <3>1, MessagesNext
      <3>4. QED
        BY <3>1, <3>2, <3>3
    <2>4. \A b \in ToSet(Bytes(k + 1)) : b[1] = k + 1
      BY <2>1, BytesOfOne
    <2>5. \A b \in ToSet(Messages(k)) : b[1] \in Nat
      BY <2>2 DEF ToSet, Byte
    <2>6. \A b \in ToSet(Messages(k + 1)) : b[1] <= k + 1
      BY <2>1, <2>3, <2>4, <2>5
    <2>7. QED
      BY <2>1, <2>6
  <1> HIDE DEF T
  <1>3. T = Nat
    BY <1>1, <1>2, SetInduction DEF T
  <1>4. QED
    BY <1>3 DEF T

(* What Intact says, of constants: out is the stream so far, the calls C   *)
(* hold R[t] of it each, due is what it shall be.                          *)
Whole(out, C, R, due) ==
    /\ ToSet(out) \cup UNION {ToSet(R[t]) : t \in C} = ToSet(due)
    /\ IsInjective(out)
    /\ \A t \in C :
         /\ IsInjective(R[t])
         /\ ToSet(R[t]) \cap ToSet(out) = {}
         /\ \A u \in C \ {t} : ToSet(R[t]) \cap ToSet(R[u]) = {}

InOrder(out, C, R, due) ==
    /\ \A t \in C : out \o R[t] = due
    /\ C = {} => out = due

(* A call begins, with new bytes.                                          *)
LEMMA CallBegins ==
    ASSUME NEW S, NEW out \in Seq(S), NEW due \in Seq(S), NEW b \in Seq(S),
           NEW D, NEW C \in SUBSET D, NEW R \in [D -> Seq(S)], NEW t \in D, t \notin C,
           Whole(out, C, R, due), IsInjective(b), ToSet(b) \cap ToSet(due) = {}
    PROVE  /\ Whole(out, C \cup {t}, [R EXCEPT ![t] = b], due \o b)
           /\ InOrder(out, C, R, due) /\ C = {}
                => InOrder(out, C \cup {t}, [R EXCEPT ![t] = b], due \o b)
  <1> DEFINE R2 == [R EXCEPT ![t] = b]
  <1>1. R2[t] = b /\ \A u \in C : R2[u] = R[u]
    OBVIOUS
  <1>2. ToSet(due \o b) = ToSet(due) \cup ToSet(b)
    BY ToSetConcat
  <1> HIDE DEF R2
  <1>3. UNION {ToSet(R2[u]) : u \in C \cup {t}} = ToSet(b) \cup UNION {ToSet(R[u]) : u \in C}
    BY <1>1
  <1>4. ToSet(out) \subseteq ToSet(due) /\ \A u \in C : ToSet(R[u]) \subseteq ToSet(due)
    BY DEF Whole
  <1>5. ToSet(out) \cup UNION {ToSet(R2[u]) : u \in C \cup {t}} = ToSet(due \o b)
    BY <1>2, <1>3 DEF Whole
  <1>6. \A u \in C \cup {t} :
           /\ IsInjective(R2[u])
           /\ ToSet(R2[u]) \cap ToSet(out) = {}
           /\ \A v \in (C \cup {t}) \ {u} : ToSet(R2[u]) \cap ToSet(R2[v]) = {}
    BY <1>1, <1>4 DEF Whole
  <1>7. Whole(out, C \cup {t}, R2, due \o b)
    BY <1>5, <1>6 DEF Whole
  <1>8. InOrder(out, C, R, due) /\ C = {} => InOrder(out, C \cup {t}, R2, due \o b)
    BY <1>1 DEF InOrder
  <1>9. QED
    BY <1>7, <1>8 DEF R2

(* The socket or the sender's thread gets the first part x of what a call  *)
(* holds; f is what waited before.                                         *)
LEMMA CallGives ==
    ASSUME NEW S, NEW w \in Seq(S), NEW f \in Seq(S), NEW due \in Seq(S),
           NEW x \in Seq(S), NEW y \in Seq(S),
           NEW D, NEW C \in SUBSET D, NEW R \in [D -> Seq(S)], NEW t \in C,
           Whole(w \o f, C, R, due), R[t] = x \o y
    PROVE  /\ Whole((w \o x) \o f, C, [R EXCEPT ![t] = y], due)
           /\ InOrder(w \o f, C, R, due) /\ f = <<>> /\ C = {t}
                => InOrder((w \o x) \o f, C, [R EXCEPT ![t] = y], due)
  <1> DEFINE R2 == [R EXCEPT ![t] = y]
  <1>1. R2[t] = y /\ \A u \in C \ {t} : R2[u] = R[u]
    OBVIOUS
  <1> HIDE DEF R2
  <1>2. /\ w \o f \in Seq(S) /\ w \o x \in Seq(S) /\ (w \o x) \o f \in Seq(S)
    BY ConcatProperties
  <1>3. /\ ToSet(R[t]) = ToSet(x) \cup ToSet(y)
        /\ ToSet(w \o f) = ToSet(w) \cup ToSet(f)
        /\ ToSet((w \o x) \o f) = ToSet(w) \cup ToSet(x) \cup ToSet(f)
    <2>1. ToSet(x \o y) = ToSet(x) \cup ToSet(y) /\ ToSet(w \o x) = ToSet(w) \cup ToSet(x)
      BY ToSetConcat
    <2>2. ToSet(w \o f) = ToSet(w) \cup ToSet(f)
      BY ToSetConcat
    <2>3. PICK v \in Seq(S) : v = w \o x
      BY <1>2
    <2>4. ToSet(v \o f) = ToSet(v) \cup ToSet(f)
      BY ToSetConcat
    <2>5. QED
      BY <2>1, <2>2, <2>3, <2>4
  <1>4. /\ IsInjective(x) /\ IsInjective(y) /\ ToSet(x) \cap ToSet(y) = {}
    <2>1. IsInjective(x \o y)
      BY DEF Whole
    <2>2. QED
      BY <2>1, InjectiveConcat
  <1>5. IsInjective(w) /\ IsInjective(f) /\ ToSet(w) \cap ToSet(f) = {}
    <2>1. IsInjective(w \o f)
      BY DEF Whole
    <2>2. QED
      BY <2>1, InjectiveConcat
  <1>6. ToSet(R[t]) \cap ToSet(w \o f) = {}
    BY DEF Whole
  <1>7. IsInjective(w \o x)
    BY <1>3, <1>4, <1>5, <1>6, InjectiveConcat
  <1>8. ToSet(w \o x) \cap ToSet(f) = {}
    BY <1>3, <1>5, <1>6, ToSetConcat
  <1>9. IsInjective((w \o x) \o f)
    BY <1>2, <1>5, <1>7, <1>8, InjectiveConcat
  <1>10. UNION {ToSet(R[u]) : u \in C} = ToSet(R[t]) \cup UNION {ToSet(R[u]) : u \in C \ {t}}
    OBVIOUS
  <1>11. UNION {ToSet(R2[u]) : u \in C} = ToSet(y) \cup UNION {ToSet(R[u]) : u \in C \ {t}}
    BY <1>1
  <1>12. ToSet((w \o x) \o f) \cup UNION {ToSet(R2[u]) : u \in C} = ToSet(due)
    BY <1>3, <1>10, <1>11 DEF Whole
  <1>13. \A u \in C :
           /\ IsInjective(R2[u])
           /\ ToSet(R2[u]) \cap ToSet((w \o x) \o f) = {}
           /\ \A v \in C \ {u} : ToSet(R2[u]) \cap ToSet(R2[v]) = {}
    BY <1>1, <1>3, <1>4 DEF Whole
  <1>14. ASSUME InOrder(w \o f, C, R, due), f = <<>>, C = {t}
         PROVE  InOrder((w \o x) \o f, C, R2, due)
    <2>1. (w \o f) \o (x \o y) = due
      BY <1>14 DEF InOrder
    <2>2. w \o f = w /\ (w \o x) \o f = w \o x
      BY <1>2, <1>14, ConcatEmptySeq
    <2>3. (w \o x) \o y = w \o (x \o y)
      <3>1. Regroups(w, x, y)
        BY Regroup
      <3> QED
        BY ONLY <3>1 DEF Regroups
    <2>4. QED
      BY <1>1, <1>14, <2>1, <2>2, <2>3 DEF InOrder
  <1>15. Whole((w \o x) \o f, C, R2, due)
    BY <1>9, <1>12, <1>13 DEF Whole
  <1>16. QED
    BY <1>14, <1>15 DEF R2

(* A call that holds nothing any more is over.                             *)
LEMMA CallEnds ==
    ASSUME NEW S, NEW out \in Seq(S), NEW C, NEW R, NEW due,
           Whole(out, C, R, due), NEW t \in C, R[t] = <<>>
    PROVE  /\ Whole(out, C \ {t}, R, due)
           /\ InOrder(out, C, R, due) /\ C = {t} => InOrder(out, C \ {t}, R, due)
  <1>1. ToSet(<<>>) = {}
    BY DEF ToSet
  <1>2. UNION {ToSet(R[u]) : u \in C} = UNION {ToSet(R[u]) : u \in C \ {t}}
    BY <1>1
  <1>3. InOrder(out, C, R, due) => out = due
    BY ConcatEmptySeq DEF InOrder
  <1>4. QED
    BY <1>2, <1>3 DEF Whole, InOrder

LEMMA WholeSame ==
    ASSUME NEW out, NEW C, NEW R, NEW R2, NEW due,
           Whole(out, C, R, due), \A t \in C : R2[t] = R[t]
    PROVE  /\ Whole(out, C, R2, due)
           /\ InOrder(out, C, R, due) => InOrder(out, C, R2, due)
  <1>1. UNION {ToSet(R2[t]) : t \in C} = UNION {ToSet(R[t]) : t \in C}
    OBVIOUS
  <1>2. QED
    BY <1>1 DEF Whole, InOrder

Rests == [t \in Writers |-> writer[t].rest]

LEMMA IntactIsWhole ==
    ASSUME NEW c
    PROVE  /\ Intact(c) <=> /\ Whole(Out(c), Calls(c), Rests, Due(c))
                            /\ OneWriter(c) => InOrder(Out(c), Calls(c), Rests, Due(c))
           /\ Intact(c)' <=> /\ Whole(Out(c)', Calls(c)', Rests', Due(c)')
                             /\ OneWriter(c) => InOrder(Out(c)', Calls(c)', Rests', Due(c)')
  <1>1. /\ \A t \in Calls(c) : Rests[t] = writer[t].rest
        /\ \A t \in Calls(c)' : Rests'[t] = writer'[t].rest
    BY DEF Calls, Rests
  <1>2. /\ UNION {ToSet(writer[t].rest) : t \in Calls(c)} = UNION {ToSet(Rests[t]) : t \in Calls(c)}
        /\ UNION {ToSet(writer'[t].rest) : t \in Calls(c)'} = UNION {ToSet(Rests'[t]) : t \in Calls(c)'}
    BY <1>1
  <1>3. Intact(c) <=> /\ Whole(Out(c), Calls(c), Rests, Due(c))
                      /\ OneWriter(c) => InOrder(Out(c), Calls(c), Rests, Due(c))
    BY <1>1, <1>2 DEF Intact, Whole, InOrder
  <1>4. Intact(c)' <=> /\ Whole(Out(c)', Calls(c)', Rests', Due(c)')
                       /\ OneWriter(c) => InOrder(Out(c)', Calls(c)', Rests', Due(c)')
    BY <1>1, <1>2 DEF Intact, Whole, InOrder, OneWriter
  <1>5. QED
    BY <1>3, <1>4

LEMMA StreamTypes ==
    ASSUME SenderInv, NEW c \in Conns
    PROVE  /\ Out(c) \in Seq(Byte) /\ wire[c] \in Seq(Byte) /\ FlattenSeq(data[c]) \in Seq(Byte)
           /\ data[c] \in Seq(Seq(Byte))
           /\ accepted[c] \in Nat /\ Due(c) = Messages(accepted[c]) /\ Due(c) \in Seq(Byte)
           /\ Rests \in [Writers -> Seq(Byte)] /\ Calls(c) \subseteq Writers
           /\ \A t \in Calls(c) : writer[t].at # "idle" /\ c \in Uses[t]
  <1>1. wire[c] \in Seq(Byte) /\ data[c] \in Seq(Seq(Byte))
    BY DEF SenderInv, TypeOK
  <1>2. FlattenSeq(data[c]) \in Seq(Byte)
    BY <1>1, FlattenType
  <1>3. Out(c) \in Seq(Byte)
    BY <1>1, <1>2, ConcatProperties DEF Out
  <1>4. accepted[c] \in Nat
    <2>1. accepted[c] \in 0 .. msgs /\ msgs \in Nat
      BY DEF SenderInv, TypeOK
    <2>2. QED
      BY <2>1
  <1>5. Due(c) = Messages(accepted[c])
    BY DEF Due, Messages
  <1>6. Due(c) \in Seq(Byte)
    BY <1>4, <1>5, MessagesNext
  <1>7. Rests \in [Writers -> Seq(Byte)]
    BY DEF Rests, SenderInv, TypeOK
  <1>8. \A t \in Calls(c) : writer[t].at # "idle" /\ c \in Uses[t]
    <2> SUFFICES ASSUME NEW t \in Writers, writer[t].con = c
                 PROVE  writer[t].at # "idle" /\ c \in Uses[t]
      BY DEF Calls
    <2>1. WriterOK(t)
      BY DEF SenderInv, Shape
    <2>2. QED
      BY <2>1, SenderAssumption DEF WriterOK, Idle
  <1>9. QED
    BY <1>1, <1>2, <1>3, <1>4, <1>5, <1>6, <1>7, <1>8 DEF Calls

(* A stream nothing of which changes                                       *)
LEMMA StreamKept ==
    ASSUME NEW c, Intact(c), Out(c)' = Out(c), Calls(c)' = Calls(c), accepted'[c] = accepted[c],
           \A t \in Calls(c) : writer'[t].rest = writer[t].rest
    PROVE  Intact(c)'
  <1>1. Due(c)' = Due(c)
    BY DEF Due
  <1>2. \A t \in Calls(c) : Rests'[t] = Rests[t]
    BY DEF Rests, Calls
  <1>3. Whole(Out(c), Calls(c), Rests, Due(c))
    BY IntactIsWhole
  <1>4. /\ Whole(Out(c), Calls(c), Rests', Due(c))
        /\ InOrder(Out(c), Calls(c), Rests, Due(c)) => InOrder(Out(c), Calls(c), Rests', Due(c))
    BY <1>2, <1>3, WholeSame
  <1>5. QED
    BY <1>1, <1>4, IntactIsWhole

LEMMA SendStream ==
    ASSUME SenderInv, SenderInv', NEW t \in Writers, NEW b \in Uses[t], send(t, b),
           NEW c \in Conns, Intact(c)
    PROVE  Intact(c)'
  <1>0. /\ writer[t] = Idle /\ writer \in [Writers -> WriterType] /\ b \in Conns
        /\ UNCHANGED <<wire, data>>
    BY SenderAssumption DEF send, SenderInv, TypeOK, Shape, WriterOK, WriterType
  <1>1. Out(c)' = Out(c)
    BY <1>0 DEF Out
  <1>2. t \notin Calls(c)
    BY <1>0, SenderAssumption DEF Calls, Idle
  <1>3. PICK w : w = [at |-> IF sending THEN "defer" ELSE "direct", con |-> b, rest |-> Bytes(accepted[b] + 1)]
    OBVIOUS
  <1>4. writer' = [writer EXCEPT ![t] = w] /\ w.con = b /\ w.rest = Bytes(accepted[b] + 1)
    BY <1>3 DEF send
  <1>5. CASE c # b
    <2>1. Calls(c)' = Calls(c) /\ \A u \in Calls(c) : writer'[u].rest = writer[u].rest
      BY <1>0, <1>2, <1>4, <1>5 DEF Calls
    <2>2. accepted'[c] = accepted[c]
      BY <1>5 DEF send, SenderInv, TypeOK
    <2>3. QED
      BY <1>1, <2>1, <2>2, StreamKept
  <1>6. CASE c = b
    <2>1. PICK m \in Nat : m = accepted[c]
      BY StreamTypes
    <2>2. Bytes(m + 1) \in Seq(Byte) /\ IsInjective(Bytes(m + 1))
      BY BytesType, BytesOfOne
    <2>3. accepted'[c] = m + 1
      BY <1>6, <2>1 DEF send, SenderInv, TypeOK
    <2>4. Due(c) = Messages(m) /\ Due(c)' = Messages(m + 1) /\ Messages(m + 1) = Messages(m) \o Bytes(m + 1)
      BY <2>1, <2>3, MessagesNext DEF Due, Messages
    <2>5. ToSet(Bytes(m + 1)) \cap ToSet(Messages(m)) = {}
      BY BytesOfOne, MessagesBelow
    <2>6. Calls(c)' = Calls(c) \cup {t}
      BY <1>0, <1>4, <1>6 DEF Calls
    <2>7. Rests' = [Rests EXCEPT ![t] = Bytes(m + 1)]
      BY <1>0, <1>4, <1>6, <2>1 DEF Rests
    <2>8. OneWriter(c) => Calls(c) = {}
      <3>1. \A u \in Calls(c) : c \in Uses[u] /\ u \in Writers
        BY StreamTypes DEF Calls
      <3>2. QED
        BY <1>2, <1>6, <3>1 DEF OneWriter
    <2>9. PICK o \in Seq(Byte), d \in Seq(Byte), x \in Seq(Byte), R \in [Writers -> Seq(Byte)], C \in SUBSET Writers :
             o = Out(c) /\ d = Due(c) /\ x = Bytes(m + 1) /\ R = Rests /\ C = Calls(c)
      BY <2>2, StreamTypes
    <2>10. Whole(o, C, R, d) /\ t \notin C /\ IsInjective(x) /\ ToSet(x) \cap ToSet(d) = {}
      BY <1>2, <2>2, <2>4, <2>5, <2>9, IntactIsWhole
    <2>11. /\ Whole(o, C \cup {t}, [R EXCEPT ![t] = x], d \o x)
           /\ InOrder(o, C, R, d) /\ C = {} => InOrder(o, C \cup {t}, [R EXCEPT ![t] = x], d \o x)
      BY <2>10, CallBegins
    <2>12. Due(c)' = d \o x /\ Calls(c)' = C \cup {t} /\ Rests' = [R EXCEPT ![t] = x] /\ Out(c)' = o
      BY <1>1, <2>4, <2>6, <2>7, <2>9
    <2>13. OneWriter(c) => InOrder(o, C, R, d) /\ C = {}
      BY <2>8, <2>9, IntactIsWhole
    <2>14. QED
      BY <2>11, <2>12, <2>13, IntactIsWhole
  <1>7. QED
    BY <1>5, <1>6

(* A call of thread t gives x of the bytes it holds to connection c, where *)
(* f waits behind w, and keeps y; with nothing left the call is over.      *)
LEMMA GiveStream ==
    ASSUME SenderInv, NEW t \in Writers, NEW c \in Conns, writer[t].con = c, Intact(c),
           NEW w \in Seq(Byte), NEW f \in Seq(Byte), Out(c) = w \o f,
           NEW x \in Seq(Byte), NEW y \in Seq(Byte), writer[t].rest = x \o y,
           OneWriter(c) => f = <<>>,
           Out(c)' = (w \o x) \o f, accepted' = accepted,
           NEW v, writer' = [writer EXCEPT ![t] = v], v.rest = y,
           IF y = <<>> THEN v.con = NoConn ELSE v.con = c
    PROVE  Intact(c)'
  <1>1. t \in Calls(c)
    BY DEF Calls
  <1>2. OneWriter(c) => Calls(c) = {t}
    <2>1. \A u \in Calls(c) : c \in Uses[u] /\ u \in Writers
      BY StreamTypes DEF Calls
    <2>2. QED
      BY <1>1, <2>1 DEF OneWriter
  <1>3. PICK d \in Seq(Byte), R \in [Writers -> Seq(Byte)], C \in SUBSET Writers :
          d = Due(c) /\ R = Rests /\ C = Calls(c)
    BY StreamTypes
  <1>4. t \in C /\ R[t] = x \o y /\ Whole(w \o f, C, R, d) /\ (OneWriter(c) => InOrder(w \o f, C, R, d))
    BY <1>1, <1>3, IntactIsWhole DEF Rests
  <1>5. PICK o \in Seq(Byte) : o = (w \o x) \o f
    BY ConcatProperties
  <1>6. /\ Whole(o, C, [R EXCEPT ![t] = y], d)
        /\ InOrder(w \o f, C, R, d) /\ f = <<>> /\ C = {t} => InOrder(o, C, [R EXCEPT ![t] = y], d)
    BY <1>4, <1>5, CallGives
  <1>7. OneWriter(c) => InOrder(o, C, [R EXCEPT ![t] = y], d) /\ C = {t}
    BY <1>2, <1>3, <1>4, <1>6
  <1>8. writer \in [Writers -> WriterType]
    BY DEF SenderInv, TypeOK, WriterType
  <1>9. Due(c)' = d /\ Out(c)' = o /\ Rests' = [R EXCEPT ![t] = y]
    BY <1>3, <1>5, <1>8 DEF Due, Rests
  <1>10. CASE y # <<>>
    <2>1. Calls(c)' = C
      BY <1>3, <1>8, <1>10 DEF Calls
    <2>2. QED
      BY <1>6, <1>7, <1>9, <2>1, IntactIsWhole
  <1>11. CASE y = <<>>
    <2>1. Calls(c)' = C \ {t}
      BY <1>3, <1>8, <1>11, SenderAssumption DEF Calls
    <2>2. PICK R2 : R2 = [R EXCEPT ![t] = y]
      OBVIOUS
    <2>3. R2[t] = <<>>
      BY <1>11, <2>2
    <2>4. /\ Whole(o, C \ {t}, R2, d)
          /\ InOrder(o, C, R2, d) /\ C = {t} => InOrder(o, C \ {t}, R2, d)
      BY <1>4, <1>6, <2>2, <2>3, CallEnds
    <2>5. QED
      BY <1>7, <1>9, <2>1, <2>2, <2>4, IntactIsWhole
  <1>12. QED
    BY <1>10, <1>11

LEMMA DirectStream ==
    ASSUME SenderInv, NEW t \in Writers, SendDirect(t), NEW c \in Conns \ disconnected', Intact(c)
    PROVE  Intact(c)'
  <1> DEFINE b == writer[t].con
             rest == writer[t].rest
  <1>0. /\ writer[t].at = "direct" /\ b \in Uses[t] /\ b \in Conns
        /\ rest \in Seq(Byte) /\ UNCHANGED <<data, accepted>>
        /\ writer \in [Writers -> WriterType] /\ wire \in [Conns -> Seq(Byte)]
    BY SenderAssumption DEF SendDirect, SenderInv, TypeOK, Shape, WriterOK, WriterType
  <1>1. CASE \E n \in 1 .. Len(rest) :
                  /\ Taken(b, rest, n)
                  /\ writer' = [writer EXCEPT ![t] =
                       IF n = Len(rest) THEN Idle
                       ELSE [at |-> "defer", con |-> b, rest |-> Rest(rest, n)]]
    <2>1. PICK n \in 1 .. Len(rest) :
                  /\ Taken(b, rest, n)
                  /\ writer' = [writer EXCEPT ![t] =
                       IF n = Len(rest) THEN Idle
                       ELSE [at |-> "defer", con |-> b, rest |-> Rest(rest, n)]]
      BY <1>1
    <2>2. n \in 0 .. Len(rest) /\ (n # Len(rest) => n < Len(rest))
      OBVIOUS
    <2>3. PICK x \in Seq(Byte), y \in Seq(Byte) :
            /\ x = SubSeq(rest, 1, n) /\ y = Rest(rest, n) /\ rest = x \o y
            /\ (n # Len(rest) => y # <<>>) /\ (n = Len(rest) => y = <<>>)
      <3>1. /\ SubSeq(rest, 1, n) \in Seq(Byte) /\ Rest(rest, n) \in Seq(Byte)
            /\ rest = SubSeq(rest, 1, n) \o Rest(rest, n)
            /\ n < Len(rest) => Rest(rest, n) # <<>>
            /\ n = Len(rest) => Rest(rest, n) = <<>>
        <4>1. PICK s \in Seq(Byte) : s = rest
          BY <1>0
        <4>2. /\ SubSeq(s, 1, n) \in Seq(Byte) /\ Rest(s, n) \in Seq(Byte)
              /\ s = SubSeq(s, 1, n) \o Rest(s, n)
              /\ n < Len(s) => Rest(s, n) # <<>>
              /\ n = Len(s) => Rest(s, n) = <<>>
          BY <2>2, <4>1, CutBytes
        <4> QED
          BY ONLY <4>1, <4>2, Zenon
      <3> QED
        BY ONLY <2>2, <3>1, Zenon
    <2>4. PICK v : v = IF n = Len(rest) THEN Idle ELSE [at |-> "defer", con |-> b, rest |-> Rest(rest, n)]
      OBVIOUS
    <2>5. writer' = [writer EXCEPT ![t] = v] /\ v.rest = y /\ (IF y = <<>> THEN v.con = NoConn ELSE v.con = b)
      <3>1. writer' = [writer EXCEPT ![t] = v]
        BY <2>1, <2>4
      <3>2. CASE n = Len(rest)
        BY <2>3, <2>4, <3>1, <3>2 DEF Idle
      <3>3. CASE n # Len(rest)
        <4>1. v = [at |-> "defer", con |-> b, rest |-> y]
          BY <2>3, <2>4, <3>3
        <4>2. v.rest = y /\ v.con = b
          BY <4>1
        <4>3. QED
          BY <2>3, <3>1, <3>3, <4>2
      <3>4. QED
        BY <3>2, <3>3
    <2>6. wire' = [wire EXCEPT ![b] = @ \o x]
      BY <2>1, <2>3 DEF Taken
    <2>7. CASE c # b
      <3>1. Out(c)' = Out(c)
        BY <1>0, <2>6, <2>7 DEF Out
      <3>2. Calls(c)' = Calls(c) /\ \A u \in Calls(c) : writer'[u].rest = writer[u].rest
        BY <1>0, <2>5, <2>7, SenderAssumption DEF Calls
      <3>3. QED
        BY <1>0, <3>1, <3>2, StreamKept
    <2>8. CASE c = b
      <3>1. PICK w \in Seq(Byte), f \in Seq(Byte) : w = wire[c] /\ f = FlattenSeq(data[c])
        BY StreamTypes
      <3>2. Out(c) = w \o f /\ Out(c)' = (w \o x) \o f
        BY <1>0, <2>6, <2>8, <3>1 DEF Out
      <3>3. OneWriter(c) => f = <<>>
        <4>1. OneWriter(c) => data[c] = <<>>
          BY <1>0, <2>8 DEF SenderInv, DirectFirst, Shape
        <4>2. QED
          BY <3>1, <4>1, FlattenEmpty
      <3>4. writer[t].con = c /\ writer[t].rest = x \o y
        BY <2>3, <2>8
      <3>5. (IF y = <<>> THEN v.con = NoConn ELSE v.con = c)
        BY <2>5, <2>8
      <3>6. QED
        BY <1>0, <2>5, <3>2, <3>3, <3>4, <3>5, GiveStream
    <2>9. QED
      BY <2>7, <2>8
  <1>2. CASE writer' = [writer EXCEPT ![t].at = "defer"] /\ UNCHANGED wire
    <2>1. writer' = [writer EXCEPT ![t] = [writer[t] EXCEPT !.at = "defer"]]
      BY <1>2, <1>0
    <2>2. \A u \in Writers : writer'[u].rest = writer[u].rest /\ writer'[u].con = writer[u].con
      BY <1>0, <2>1 DEF WriterType
    <2>3. QED
      BY <1>0, <1>2, <2>2, StreamKept DEF Out, Calls
  <1>3. CASE disconnected' = disconnected \cup {b} /\ writer' = [writer EXCEPT ![t] = Idle] /\ UNCHANGED wire
    <2>1. c # b
      BY <1>3
    <2>2. Calls(c)' = Calls(c) /\ \A u \in Calls(c) : writer'[u].rest = writer[u].rest
      BY <1>0, <1>3, <2>1, SenderAssumption DEF Calls, Idle
    <2>3. QED
      BY <1>0, <1>3, <2>2, StreamKept DEF Out
  <1>4. QED
    BY <1>1, <1>2, <1>3 DEF SendDirect

LEMMA DeferStream ==
    ASSUME SenderInv, NEW t \in Writers, defer(t), NEW c \in Conns, Intact(c)
    PROVE  Intact(c)'
  <1> DEFINE b == writer[t].con
             rest == writer[t].rest
  <1>0. /\ writer[t].at = "defer" /\ b \in Uses[t] /\ b \in Conns
        /\ rest \in Seq(Byte) /\ UNCHANGED <<wire, accepted>>
        /\ writer \in [Writers -> WriterType] /\ data \in [Conns -> Seq(Seq(Byte))]
        /\ writer' = [writer EXCEPT ![t] = Idle]
    BY SenderAssumption DEF defer, SenderInv, TypeOK, Shape, WriterOK, WriterType
  <1>1. PICK z \in Seq(Seq(Byte)) : z = sliceup(rest) /\ FlattenSeq(z) = rest
    BY <1>0, SlicesFlatten
  <1>2. data' = [data EXCEPT ![b] = @ \o z]
    <2>1. (IF b \in registered THEN data[b] ELSE <<>>) = data[b]
      BY <1>0 DEF SenderInv, Shape
    <2>2. QED
      BY <1>0, <1>1, <2>1 DEF defer
  <1>3. CASE c # b
    <2>1. Out(c)' = Out(c)
      BY <1>0, <1>2, <1>3 DEF Out
    <2>2. Calls(c)' = Calls(c) /\ \A u \in Calls(c) : writer'[u].rest = writer[u].rest
      BY <1>0, <1>3, SenderAssumption DEF Calls, Idle
    <2>3. QED
      BY <1>0, <2>1, <2>2, StreamKept
  <1>4. CASE c = b
    <2>1. PICK o \in Seq(Byte), w \in Seq(Byte), f \in Seq(Byte), x \in Seq(Byte), q \in Seq(Seq(Byte)) :
             o = Out(c) /\ w = wire[c] /\ q = data[c] /\ f = FlattenSeq(q) /\ x = rest
      BY <1>0, StreamTypes
    <2>2. FlattenSeq(q \o z) = f \o x
      BY <1>1, <2>1, FlattenConcat
    <2>3. data'[c] = q \o z
      BY <1>0, <1>2, <1>4, <2>1
    <2>4. Out(c)' = w \o (f \o x) /\ o = w \o f
      BY <1>0, <2>1, <2>2, <2>3 DEF Out
    <2>5. (w \o f) \o x = w \o (f \o x)
      <3>1. Regroups(w, f, x)
        BY Regroup
      <3> QED
        BY ONLY <3>1 DEF Regroups
    <2>6. PICK e \in Seq(Byte) : e = <<>>
      <3>1. <<>> \in Seq(Byte)
        OBVIOUS
      <3>2. QED
        BY <3>1, Zenon
    <2>7. o \o e = o /\ x \o e = x
      BY <2>6, ConcatEmptySeq
    <2>8. o \o x \in Seq(Byte)
      BY ConcatProperties
    <2>9. (o \o x) \o e = o \o x
      BY <2>6, <2>8, ConcatEmptySeq
    <2>10. Out(c) = o \o e /\ Out(c)' = (o \o x) \o e /\ writer[t].rest = x \o e /\ writer[t].con = c
      BY <1>4, <2>1, <2>4, <2>5, <2>7, <2>9
    <2>11. Idle.rest = e /\ (IF e = <<>> THEN Idle.con = NoConn ELSE Idle.con = c)
      BY <2>6 DEF Idle
    <2>12. OneWriter(c) => e = <<>>
      BY <2>6
    <2>13. PICK v : v = Idle
      OBVIOUS
    <2>14. v.rest = e /\ (IF e = <<>> THEN v.con = NoConn ELSE v.con = c) /\ writer' = [writer EXCEPT ![t] = v]
      BY <1>0, <2>11, <2>13
    <2>15. accepted' = accepted
      BY <1>0
    <2> HIDE DEF rest, b
    <2>16. QED
      BY <2>10, <2>12, <2>14, <2>15, GiveStream
  <1>5. QED
    BY <1>3, <1>4

(* The first slice, or a part of it, moves from the data to the socket.    *)
LEMMA SliceStream ==
    ASSUME SenderInv, NEW b \in Conns, SendSlice(b), NEW c \in Conns \ disconnected', Intact(c)
    PROVE  Intact(c)'
  <1> DEFINE first == Head(data[b])
  <1>0. /\ data[b] # <<>> /\ first \in Seq(Byte) /\ Tail(data[b]) \in Seq(Seq(Byte))
        /\ Len(first) \in 0 .. Len(first)
        /\ data \in [Conns -> Seq(Seq(Byte))] /\ wire \in [Conns -> Seq(Byte)]
        /\ UNCHANGED <<writer, accepted>>
    BY SliceTypes DEF SendSlice, SenderInv, TypeOK
  <1>1. SUFFICES Out(c)' = Out(c)
    BY <1>0, StreamKept DEF Calls
  <1>2. CASE c # b
    <2>1. data'[c] = data[c] /\ wire'[c] = wire[c]
      BY <1>0, <1>2 DEF SendSlice, Taken
    <2>2. QED
      BY <2>1 DEF Out
  <1>3. CASE c = b
    <2>1. c \notin disconnected'
      OBVIOUS
    (* x goes to the socket, y and the tail q stay.                        *)
    <2>2. PICK x \in Seq(Byte), y \in Seq(Byte) :
            /\ first = x \o y
            /\ wire'[c] = wire[c] \o x
            /\ FlattenSeq(data'[c]) = y \o FlattenSeq(Tail(data[c]))
      <3>1. ASSUME Taken(b, first, Len(first)), data' = [data EXCEPT ![b] = Tail(data[b])]
            PROVE  \E x \in Seq(Byte), y \in Seq(Byte) :
                      /\ first = x \o y
                      /\ wire'[c] = wire[c] \o x
                      /\ FlattenSeq(data'[c]) = y \o FlattenSeq(Tail(data[c]))
        <4>1. SubSeq(first, 1, Len(first)) = first
          BY <1>0, SubSeqFull
        <4>2. <<>> \in Seq(Byte) /\ first \o <<>> = first
          BY <1>0, ConcatEmptySeq
        <4>3. wire'[c] = wire[c] \o first
          BY <1>0, <1>3, <3>1, <4>1 DEF Taken
        <4>4. FlattenSeq(Tail(data[c])) \in Seq(Byte)
          BY <1>0, <1>3, FlattenType
        <4>5. data'[c] = Tail(data[c])
          BY <1>0, <1>3, <3>1
        <4>6. FlattenSeq(data'[c]) = <<>> \o FlattenSeq(Tail(data[c]))
          BY <4>4, <4>5, ConcatEmptySeq
        <4> HIDE DEF first
        <4>7. PICK e \in Seq(Byte) : e = <<>>
          BY <4>2, Zenon
        <4>8. QED
          BY <1>0, <4>2, <4>3, <4>6, <4>7
      <3>2. CASE Len(data[b]) = 1 /\ data' = [data EXCEPT ![b] = <<>>] /\ Taken(b, first, Len(first))
        <4>1. Tail(data[b]) = <<>>
          BY <1>0, <3>2, ShortTail
        <4>2. QED
          BY <3>1, <3>2, <4>1
      <3>3. CASE data' = [data EXCEPT ![b] = Tail(@)] /\ Taken(b, first, Len(first))
        BY <3>1, <3>3
      <3>4. CASE \E n \in 0 .. Len(first) - 1 :
                   Taken(b, first, n) /\ data' = [data EXCEPT ![b][1] = Rest(first, n)]
        <4>1. PICK n \in 0 .. Len(first) - 1 :
                Taken(b, first, n) /\ data' = [data EXCEPT ![b][1] = Rest(first, n)]
          BY <3>4
        <4>2. n \in 0 .. Len(first)
          BY <1>0
        <4>3. PICK x \in Seq(Byte), y \in Seq(Byte) :
                x = SubSeq(first, 1, n) /\ y = Rest(first, n) /\ first = x \o y
          <5>1. PICK p \in Seq(Byte) : p = first
            BY <1>0
          <5>2. SubSeq(p, 1, n) \in Seq(Byte) /\ Rest(p, n) \in Seq(Byte) /\ p = SubSeq(p, 1, n) \o Rest(p, n)
            BY <4>2, <5>1, CutBytes
          <5>3. QED
            BY <5>1, <5>2
        <4>4. wire'[c] = wire[c] \o x
          BY <1>0, <1>3, <4>1, <4>3 DEF Taken
        <4>5. PICK q \in Seq(Seq(Byte)) : q = data[c] /\ q # <<>>
          BY <1>0, <1>3
        <4>6. data'[c] = [q EXCEPT ![1] = y]
          BY <1>0, <1>3, <4>1, <4>3, <4>5
        <4>7. FlattenSeq([q EXCEPT ![1] = y]) = y \o FlattenSeq(Tail(q))
          BY <4>5, FlattenNewHead
        <4>8. FlattenSeq(data'[c]) = y \o FlattenSeq(Tail(data[c]))
          BY <4>5, <4>6, <4>7
        <4>9. QED
          BY <4>3, <4>4, <4>8
      <3>5. QED
        BY <1>3, <2>1, <3>2, <3>3, <3>4 DEF SendSlice
    <2>3. PICK w \in Seq(Byte), q \in Seq(Seq(Byte)), g \in Seq(Byte) :
            w = wire[c] /\ q = data[c] /\ q # <<>> /\ g = FlattenSeq(Tail(q)) /\ Head(q) = x \o y
      <3>1. FlattenSeq(Tail(data[c])) \in Seq(Byte)
        BY <1>0, <1>3, FlattenType
      <3>2. QED
        BY <1>0, <1>3, <2>2, <3>1
    <2>4. FlattenSeq(q) = (x \o y) \o g
      BY <2>3, FlattenHead
    <2>5. (x \o y) \o g = x \o (y \o g)
      <3>1. Regroups(x, y, g)
        BY Regroup
      <3> QED
        BY ONLY <3>1 DEF Regroups
    <2>6. PICK r \in Seq(Byte) : r = y \o g
      BY ConcatProperties
    <2>7. (w \o x) \o r = w \o (x \o r)
      <3>1. Regroups(w, x, r)
        BY Regroup
      <3> QED
        BY ONLY <3>1 DEF Regroups
    <2>8. Out(c)' = (w \o x) \o r
      BY <2>2, <2>3, <2>6 DEF Out
    <2>9. Out(c) = w \o (x \o r)
      BY <2>3, <2>4, <2>5, <2>6 DEF Out
    <2>10. QED
      BY <2>7, <2>8, <2>9
  <1>4. QED
    BY <1>2, <1>3

LEMMA InitStream == Init => StreamIntact
  <1> SUFFICES ASSUME Init, NEW c \in Conns PROVE Intact(c)
    BY DEF StreamIntact
  <1>1. SenderInv
    BY InitInv
  <1>2. wire[c] = <<>> /\ data[c] = <<>> /\ accepted[c] = 0
    BY DEF Init
  <1>3. [m \in 1 .. 0 |-> Bytes(m)] = <<>>
    OBVIOUS
  <1>4. <<>> \o <<>> = <<>>
    OBVIOUS
  <1>5. Out(c) = <<>> /\ Due(c) = <<>>
    BY <1>2, <1>3, <1>4, FlattenEmpty DEF Out, Due
  <1>6. Calls(c) = {}
    BY SenderAssumption DEF Init, Calls, Idle
  <1>7. ToSet(<<>>) = {} /\ IsInjective(<<>>)
    BY DEF ToSet, IsInjective
  <1>8. QED
    BY <1>5, <1>6, <1>7 DEF Intact

LEMMA StreamNext ==
    ASSUME SenderInv, SenderInv', [Next]_vars, StreamIntact
    PROVE  StreamIntact'
  <1> SUFFICES ASSUME NEW c \in Conns \ disconnected' PROVE Intact(c)'
    BY DEF StreamIntact
  <1>1. ASSUME NEW t \in Writers, NEW b \in Uses[t], send(t, b) PROVE Intact(c)'
    <2>1. disconnected' = disconnected
      BY <1>1 DEF send, conVars
    <2>2. QED
      BY <1>1, <2>1, SendStream DEF StreamIntact
  <1>2. ASSUME NEW t \in Writers, SendDirect(t) PROVE Intact(c)'
    <2>1. disconnected \subseteq disconnected'
      BY <1>2 DEF SendDirect
    <2>2. QED
      BY <1>2, <2>1, DirectStream DEF StreamIntact
  <1>3. ASSUME NEW t \in Writers, defer(t) PROVE Intact(c)'
    <2>1. disconnected' = disconnected
      BY <1>3 DEF defer, conVars
    <2>2. QED
      BY <1>3, <2>1, DeferStream DEF StreamIntact
  <1>4. ASSUME NEW b \in Conns, SendSlice(b) PROVE Intact(c)'
    <2>1. disconnected \subseteq disconnected'
      BY <1>4 DEF SendSlice
    <2>2. QED
      BY <1>4, <2>1, SliceStream DEF StreamIntact
  <1>5. CASE \/ CopyKeys \/ CallSelect \/ SelectReturns \/ PassDone
             \/ (\E b \in Conns : close(b) \/ Drain(b) \/ Leave(b))
             \/ UNCHANGED vars
    <2>1. UNCHANGED <<data, wire, writer, accepted>> /\ disconnected \subseteq disconnected'
      BY <1>5, OtherInv
    <2>2. Out(c)' = Out(c) /\ Calls(c)' = Calls(c) /\ Intact(c)
      BY <2>1 DEF Out, Calls, StreamIntact
    <2>3. QED
      BY <2>1, <2>2, StreamKept
  <1>6. QED
    BY <1>1, <1>2, <1>3, <1>4, <1>5 DEF Next, Run

(* No byte given to Connection.send for an open connection is lost or      *)
(* doubled between the writing threads, _dataForConnection and the socket, *)
(* and with one writing thread the messages stay in order.                 *)
THEOREM SenderStreamIntact == Spec => []StreamIntact
  <1>1. SenderInv /\ SenderInv' /\ StreamIntact /\ [Next]_vars => StreamIntact'
    BY StreamNext
  <1>2. QED
    BY <1>1, InitStream, SenderInvariant, PTL DEF Spec
=============================================================================
