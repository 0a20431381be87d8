----------------------------- MODULE RemuxerProofs ------------------------------
(***************************************************************************)
(* The remuxer, for packets, rings and blocks of any size and any script   *)
(* of the server.  What a whole transport stream is made of is proved here *)
(* in numbers: where packets begin, and what room they need.               *)
(***************************************************************************)
EXTENDS Remuxer, SequenceTheorems, WellFoundedInduction, TLAPS

Byte == 0 .. 255

\* What is left of s after some first bytes.
Tails(s) == {SubSeq(s, n + 1, Len(s)) : n \in 0 .. Len(s)}

\* remux takes s for a packet that it has to carry, or to drop as a whole.
Seems(s) ==
  Len(s) >= 6 /\ IsPrefix(<<0, 0, 1>>, s) /\ (IsAudio(s[4]) \/ IsVideo(s[4]) \/ s[4] = PaddingId)

\* Nothing in the stream looks like a packet of more than MinIn bytes.
Tame ==
  \A script \in Scripts : \A t \in Tails(FlattenSeq(script)) :
    Seems(t) => PesLength(t) <= MinIn

--------------------------------------------------------------------------------
(***************************************************************************)
(* Numbers and sequences.                                                  *)
(***************************************************************************)
\* Quotient and remainder.
LEMMA DivMod ==
  ASSUME NEW a \in Nat, NEW b \in Nat \ {0}
  PROVE  a = b * (a \div b) + (a % b) /\ a % b \in 0 .. b - 1 /\ a \div b \in Nat
OBVIOUS

\* Products grow with their first factor.
LEMMA Times ==
  ASSUME NEW a \in Nat, NEW b \in Nat, NEW p \in Nat
  PROVE  /\ a * p \in Nat /\ (a + 1) * p = a * p + p
         /\ a <= b => a * p <= b * p
         /\ a < b => a * p + p <= b * p
<1>1. a <= b => a * p <= b * p
  OBVIOUS
<1>2. a < b => (a + 1) * p <= b * p
  OBVIOUS
<1>3. (a + 1) * p = a * p + p /\ a * p \in Nat
  OBVIOUS
<1> QED
  BY <1>1, <1>2, <1>3

\* The packets are enough for the bytes, and no more for fewer bytes.
LEMMA Counted ==
  ASSUME NEW m \in Nat, NEW n \in Nat
  PROVE  /\ PacketCount(n) \in Nat
         /\ n <= PacketCount(n) * PayloadSize
         /\ n <= m => PacketCount(n) <= PacketCount(m)
<1> USE SizeAssumption
<1> DEFINE p == PayloadSize
           q == n \div p
           u == m \div p
<1>1. p \in Nat \ {0}
  OBVIOUS
<1>2. /\ n = p * q + (n % p) /\ n % p \in 0 .. p - 1 /\ q \in Nat
      /\ m = p * u + (m % p) /\ m % p \in 0 .. p - 1 /\ u \in Nat
  BY <1>1, DivMod
<1>3. PacketCount(n) = q + (IF n % p > 0 THEN 1 ELSE 0)
      /\ PacketCount(m) = u + (IF m % p > 0 THEN 1 ELSE 0)
  BY DEF PacketCount
<1> HIDE DEF p, q, u
<1>4. n <= PacketCount(n) * p
  <2>1. (q + 1) * p = q * p + p /\ p * q = q * p
    BY <1>1, <1>2, Times
  <2> QED
    BY <1>1, <1>2, <1>3, <2>1
<1>5. ASSUME n <= m PROVE PacketCount(n) <= PacketCount(m)
  <2>1. q <= u
    <3>1. u < q => u * p + p <= q * p
      BY <1>1, <1>2, Times
    <3> QED
      BY <1>1, <1>2, <1>5, <3>1
  <2>2. CASE q < u
    BY <1>2, <1>3, <2>2
  <2>3. CASE q = u
    BY <1>1, <1>2, <1>3, <1>5, <2>3
  <2> QED
    BY <1>2, <2>1, <2>2, <2>3
<1> QED
  BY <1>2, <1>3, <1>4, <1>5 DEF p

\* The elements of a part of s.
LEMMA Part ==
  ASSUME NEW S, NEW s \in Seq(S), NEW m \in Nat \ {0}, NEW n \in Nat, n <= Len(s), m <= n + 1
  PROVE  /\ SubSeq(s, m, n) \in Seq(S) /\ Len(SubSeq(s, m, n)) = n - m + 1
         /\ \A k \in 1 .. n - m + 1 : SubSeq(s, m, n)[k] = s[m + k - 1]
OBVIOUS

\* Values by number are a sequence.
LEMMA Listed ==
  ASSUME NEW S, NEW n \in Nat, NEW f \in [1 .. n -> S]
  PROVE  f \in Seq(S)
OBVIOUS

\* What was cut fits together.
LEMMA Split ==
  ASSUME NEW S, NEW s \in Seq(S), NEW t \in Seq(S), NEW n \in 0 .. Len(t)
  PROVE  /\ SubSeq(t, 1, n) \in Seq(S) /\ SubSeq(t, n + 1, Len(t)) \in Seq(S)
         /\ (s \o SubSeq(t, 1, n)) \o SubSeq(t, n + 1, Len(t)) = s \o t
<1> DEFINE a == SubSeq(t, 1, n)
           b == SubSeq(t, n + 1, Len(t))
<1>1. a \in Seq(S) /\ b \in Seq(S)
  BY Part
<1>2. a \o b = t
  <2>1. 1 \in 1 .. Len(t) + 1 /\ n \in 1 - 1 .. Len(t) /\ Len(t) \in n .. Len(t)
    OBVIOUS
  <2>2. a \o b = SubSeq(t, 1, Len(t))
    BY <2>1, ConcatAdjacentSubSeq, Zenon
  <2> QED
    BY <2>2, SubSeqFull, Zenon
<1> HIDE DEF a, b
<1>3. (s \o a) \o b = s \o (a \o b)
  BY <1>1, ConcatAssociative
<1> QED
  BY <1>1, <1>2, <1>3 DEF a, b

\* A sequence after another one.
LEMMA Cat ==
  ASSUME NEW S, NEW a \in Seq(S), NEW b \in Seq(S)
  PROVE  /\ a \o b \in Seq(S) /\ Len(a \o b) = Len(a) + Len(b)
         /\ \A k \in 1 .. Len(a) : (a \o b)[k] = a[k]
         /\ \A k \in 1 .. Len(b) : (a \o b)[Len(a) + k] = b[k]
BY ConcatProperties

\* The smaller one of two numbers.
LEMMA Smaller ==
  ASSUME NEW a \in Int, NEW b \in Int
  PROVE  Min({a, b}) = IF a <= b THEN a ELSE b
BY DEF Min

\* ringbuffer_write stores what there is room for.
LEMMA PutKeeps ==
  ASSUME NEW bytes \in Seq(Int), out \in Seq(Int), Len(out) <= OutCap
  PROVE  /\ Put(bytes) \in Seq(Int) /\ Len(Put(bytes)) <= OutCap
         /\ Len(bytes) <= OutCap - Len(out) => Put(bytes) = out \o bytes
<1> DEFINE r == OutCap - Len(out)
           n == Min({Len(bytes), r})
           p == SubSeq(bytes, 1, n)
<1>1. Len(bytes) \in Nat /\ r \in Nat
  BY SizeAssumption
<1>2. n = IF Len(bytes) <= r THEN Len(bytes) ELSE r
  <2> DEFINE l == Len(bytes)
  <2>1. l \in Int /\ r \in Int
    BY <1>1
  <2> HIDE DEF l, r
  <2>2. Min({l, r}) = IF l <= r THEN l ELSE r
    BY <2>1, Smaller
  <2> QED
    BY <2>2 DEF l
<1>3. n \in 0 .. Len(bytes) /\ n <= r
  <2> HIDE DEF n, r
  <2> QED
    BY <1>1, <1>2
<1>4. n = Len(bytes) => p = bytes
  BY SubSeqFull
<1>5. Put(bytes) = out \o p
  BY DEF Put
<1> HIDE DEF n
<1>6. p \in Seq(Int) /\ Len(p) = n
  BY <1>3, Part
<1> HIDE DEF p
<1>7. out \o p \in Seq(Int) /\ Len(out \o p) = Len(out) + n
  BY <1>6, ConcatProperties
<1> QED
  BY <1>1, <1>2, <1>3, <1>4, <1>5, <1>7, SizeAssumption, SMTT(30)
--------------------------------------------------------------------------------
(***************************************************************************)
(* Sequences put together, by induction on their number.                   *)
(***************************************************************************)
\* The least of some numbers.
LEMMA Least ==
  ASSUME NEW T, T \subseteq Nat, T # {}
  PROVE  \E m \in T : \A n \in T : m <= n
<1> DEFINE R == OpToRel(<, Nat)
<1>1. IsWellFoundedOn(R, Nat)
  BY NatLessThanWellFounded
<1>2. \A a \in Nat, b \in Nat : a < b => <<a, b>> \in R
  BY DEF OpToRel
<1> HIDE DEF R
<1>3. PICK x \in T : \A y \in T : ~ (<<y, x>> \in R)
  BY <1>1, WFMin
<1>4. ASSUME NEW y \in T PROVE x <= y
  <2>1. x \in Nat /\ y \in Nat
    OBVIOUS
  <2>2. ~ (y < x)
    BY <1>2, <1>3, <2>1
  <2> QED
    BY <2>1, <2>2
<1> QED
  BY <1>4

\* What holds of 0 and goes from each number to the next holds of all.
LEMMA Induction ==
  ASSUME NEW S, 0 \in S, \A n \in Nat : n \in S => n + 1 \in S
  PROVE  Nat \subseteq S
<1> DEFINE T == Nat \ S
<1>1. SUFFICES ASSUME T # {} PROVE FALSE
  OBVIOUS
<1>2. PICK m \in T : \A n \in T : m <= n
  BY <1>1, Least
<1>3. m # 0 /\ m - 1 \in Nat
  OBVIOUS
<1>4. m - 1 \notin T
  BY <1>2, <1>3
<1> QED
  BY <1>3, <1>4

\* f puts the first pieces of ss together, up to the n-th.
Joins(f, ss, n) ==
  f = [k \in 1 .. n |-> IF k = 1 THEN ss[k] ELSE f[k - 1] \o ss[k]]

\* There is one.
LEMMA JoinExists ==
  ASSUME NEW ss, NEW n \in Nat
  PROVE  \E f : Joins(f, ss, n)
<1> DEFINE S == {m \in Nat : \E f : Joins(f, ss, m)}
<1>1. 0 \in S
  <2>1. Joins([k \in 1 .. 0 |-> ss[k]], ss, 0)
    BY DEF Joins
  <2> QED
    BY <2>1
<1>2. ASSUME NEW m \in Nat, m \in S PROVE m + 1 \in S
  <2>1. PICK f : Joins(f, ss, m)
    BY <1>2
  <2> DEFINE g == [k \in 1 .. m + 1 |-> IF k = m + 1
                                       THEN IF m = 0 THEN ss[k] ELSE f[m] \o ss[k] ELSE f[k]]
             h == [k \in 1 .. m + 1 |-> IF k = 1 THEN ss[k] ELSE g[k - 1] \o ss[k]]
  <2>2. ASSUME NEW k \in 1 .. m + 1
        PROVE  g[k] = IF k = 1 THEN ss[k] ELSE g[k - 1] \o ss[k]
    <3>1. CASE k = m + 1
      <4>1. CASE m = 0
        BY <3>1, <4>1
      <4>2. CASE m # 0
        <5>1. k - 1 = m /\ k # 1 /\ m \in 1 .. m + 1 /\ m # m + 1
          BY <3>1, <4>2
        <5>2. g[k] = f[m] \o ss[k]
          BY <3>1, <4>2
        <5>3. g[m] = f[m]
          BY <5>1
        <5> QED
          BY <5>1, <5>2, <5>3
      <4> QED
        BY <4>1, <4>2
    <3>2. CASE k < m + 1
      <4>1. k \in 1 .. m
        BY <3>2
      <4>2. f[k] = IF k = 1 THEN ss[k] ELSE f[k - 1] \o ss[k]
        BY <2>1, <4>1 DEF Joins
      <4>3. g[k] = f[k] /\ (k # 1 => g[k - 1] = f[k - 1])
        BY <4>1
      <4> QED
        BY <4>2, <4>3
    <3> QED
      BY <3>1, <3>2
  <2>3. g = h
    <3>1. DOMAIN g = 1 .. m + 1 /\ DOMAIN h = 1 .. m + 1
      OBVIOUS
    <3>2. \A k \in 1 .. m + 1 : g[k] = h[k]
      BY <2>2
    <3> QED
      BY <3>1, <3>2
  <2>4. Joins(g, ss, m + 1)
    BY <2>3 DEF Joins
  <2> QED
    BY <2>4
<1>3. Nat \subseteq S
  <2> HIDE DEF S
  <2> QED
    BY <1>1, <1>2, Induction
<1> QED
  BY <1>3

\* FlattenSeq is what such an f ends with.
LEMMA FlattenJoins ==
  ASSUME NEW A, NEW ss \in Seq(Seq(A)), Len(ss) > 0
  PROVE  \E f : Joins(f, ss, Len(ss)) /\ FlattenSeq(ss) = f[Len(ss)]
<1> DEFINE Is(f) == Joins(f, ss, Len(ss))
<1>1. \E f : Is(f)
  <2> DEFINE n == Len(ss)
  <2>1. n \in Nat
    OBVIOUS
  <2> HIDE DEF n
  <2>2. \E f : Joins(f, ss, n)
    BY <2>1, JoinExists
  <2> QED
    BY <2>2 DEF n
<1>2. FlattenSeq(ss) = (CHOOSE f : Is(f))[Len(ss)]
  BY DEF FlattenSeq, Joins
<1> HIDE DEF Is
<1>3. Is(CHOOSE f : Is(f))
  BY <1>1
<1> QED
  BY <1>2, <1>3 DEF Is

\* Two that put the same pieces together agree.
LEMMA JoinUnique ==
  ASSUME NEW A, NEW ss \in Seq(Seq(A)), NEW tt \in Seq(Seq(A)), NEW f, NEW g,
         NEW n \in 0 .. Len(ss), n <= Len(tt), Joins(f, ss, Len(ss)), Joins(g, tt, Len(tt)),
         \A k \in 1 .. n : ss[k] = tt[k]
  PROVE  \A k \in 1 .. n : f[k] = g[k] /\ f[k] \in Seq(A)
<1> DEFINE S == {m \in Nat : m \in 1 .. n => f[m] = g[m] /\ f[m] \in Seq(A)}
<1>0. \A k \in 1 .. Len(ss) : f[k] = IF k = 1 THEN ss[k] ELSE f[k - 1] \o ss[k]
  BY DEF Joins
<1>1. \A k \in 1 .. Len(tt) : g[k] = IF k = 1 THEN tt[k] ELSE g[k - 1] \o tt[k]
  BY DEF Joins
<1>2. 0 \in S
  OBVIOUS
<1>3. ASSUME NEW m \in Nat, m \in S PROVE m + 1 \in S
  <2> SUFFICES ASSUME m + 1 \in 1 .. n
               PROVE  f[m + 1] = g[m + 1] /\ f[m + 1] \in Seq(A)
    OBVIOUS
  <2>1. m + 1 \in 1 .. Len(ss) /\ m + 1 \in 1 .. Len(tt) /\ ss[m + 1] = tt[m + 1]
        /\ ss[m + 1] \in Seq(A)
    OBVIOUS
  <2>2. CASE m = 0
    BY <1>0, <1>1, <2>1, <2>2
  <2>3. CASE m # 0
    <3>0. (m + 1) - 1 = m /\ m + 1 # 1
      BY <2>3
    <3>1. f[m + 1] = f[m] \o ss[m + 1] /\ g[m + 1] = g[m] \o tt[m + 1]
      BY <1>0, <1>1, <2>1, <3>0
    <3>2. f[m] = g[m] /\ f[m] \in Seq(A)
      BY <1>3, <2>3
    <3> QED
      BY <2>1, <3>1, <3>2
  <2> QED
    BY <2>2, <2>3
<1>4. Nat \subseteq S
  <2> HIDE DEF S
  <2> QED
    BY <1>2, <1>3, Induction
<1> QED
  BY <1>4

\* No pieces, or one more.
LEMMA FlattenAppend ==
  ASSUME NEW A, NEW ss \in Seq(Seq(A)), NEW x \in Seq(A)
  PROVE  /\ FlattenSeq(<< >>) = << >>
         /\ FlattenSeq(ss) \in Seq(A)
         /\ FlattenSeq(Append(ss, x)) = FlattenSeq(ss) \o x
<1>1. FlattenSeq(<< >>) = << >>
  BY DEF FlattenSeq
<1> DEFINE tt == Append(ss, x)
           n == Len(ss)
<1>2. tt \in Seq(Seq(A)) /\ Len(tt) = n + 1 /\ n \in Nat /\ tt[n + 1] = x
      /\ \A k \in 1 .. n : tt[k] = ss[k]
  OBVIOUS
<1>3. PICK g : Joins(g, tt, n + 1) /\ FlattenSeq(tt) = g[n + 1]
  <2> HIDE DEF tt
  <2>1. Len(tt) > 0
    BY <1>2
  <2> QED
    BY <1>2, <2>1, FlattenJoins
<1>4. \A k \in 1 .. n + 1 : g[k] = IF k = 1 THEN tt[k] ELSE g[k - 1] \o tt[k]
  BY <1>3 DEF Joins
<1> HIDE DEF tt
<1>5. CASE n = 0
  <2>1. g[1] = x
    BY <1>2, <1>4, <1>5
  <2>2. ss = << >> /\ << >> \o x = x
    BY <1>5
  <2>3. FlattenSeq(tt) = x /\ FlattenSeq(ss) = << >>
    BY <1>1, <1>3, <1>5, <2>1, <2>2
  <2>4. FlattenSeq(ss) \in Seq(A)
    BY <2>3
  <2>5. FlattenSeq(tt) = FlattenSeq(ss) \o x
    BY <2>2, <2>3
  <2> QED
    BY <1>1, <2>4, <2>5 DEF tt
<1>6. CASE n > 0
  <2>1. PICK f : Joins(f, ss, n) /\ FlattenSeq(ss) = f[n]
    BY <1>6, FlattenJoins
  <2>2. \A k \in 1 .. n : f[k] = g[k] /\ f[k] \in Seq(A)
    <3>1. n \in 0 .. Len(ss) /\ n <= Len(tt) /\ \A k \in 1 .. n : ss[k] = tt[k]
      BY <1>2
    <3>2. Joins(f, ss, Len(ss)) /\ Joins(g, tt, Len(tt))
      BY <1>2, <1>3, <2>1
    <3> HIDE DEF n
    <3> QED
      BY <1>2, <3>1, <3>2, JoinUnique
  <2>3. g[n + 1] = g[n] \o x
    <3>1. (n + 1) - 1 = n /\ n + 1 # 1 /\ n + 1 \in 1 .. n + 1
      BY <1>2, <1>6
    <3> HIDE DEF n
    <3> QED
      BY <1>2, <1>4, <3>1
  <2>4. f[n] = g[n] /\ f[n] \in Seq(A)
    <3>1. n \in 1 .. n
      BY <1>2, <1>6
    <3> HIDE DEF n
    <3> QED
      BY <2>2, <3>1
  <2>5. FlattenSeq(tt) = FlattenSeq(ss) \o x /\ FlattenSeq(ss) \in Seq(A)
    BY <1>3, <2>1, <2>3, <2>4
  <2> QED
    BY <1>1, <2>5 DEF tt
<1> QED
  BY <1>2, <1>5, <1>6

\* A sequence with a last element.
LEMMA LastOne ==
  ASSUME NEW B, NEW s \in Seq(B), NEW n \in Nat, Len(s) = n + 1
  PROVE  /\ SubSeq(s, 1, n) \in Seq(B) /\ Len(SubSeq(s, 1, n)) = n /\ s[n + 1] \in B
         /\ s = Append(SubSeq(s, 1, n), s[n + 1])
OBVIOUS

\* Pieces after pieces.
LEMMA FlattenCat ==
  ASSUME NEW A, NEW ss \in Seq(Seq(A)), NEW tt \in Seq(Seq(A))
  PROVE  /\ FlattenSeq(ss) \in Seq(A) /\ FlattenSeq(tt) \in Seq(A)
         /\ FlattenSeq(ss \o tt) = FlattenSeq(ss) \o FlattenSeq(tt)
<1> DEFINE P(uu) == FlattenSeq(ss \o uu) = FlattenSeq(ss) \o FlattenSeq(uu)
           S == {n \in Nat : \A uu \in Seq(Seq(A)) : Len(uu) = n => P(uu)}
<1>0. << >> \in Seq(A) /\ \A uu \in Seq(Seq(A)) : FlattenSeq(uu) \in Seq(A)
  BY FlattenAppend
<1>1. 0 \in S
  <2>1. ASSUME NEW uu \in Seq(Seq(A)), Len(uu) = 0 PROVE P(uu)
    <3>1. uu = << >> /\ ss \o uu = ss /\ FlattenSeq(uu) = << >>
      BY <1>0, <2>1, FlattenAppend
    <3> QED
      BY <1>0, <3>1
  <2> QED
    BY <2>1
<1>2. ASSUME NEW n \in Nat, n \in S PROVE n + 1 \in S
  <2>1. ASSUME NEW uu \in Seq(Seq(A)), Len(uu) = n + 1 PROVE P(uu)
    <3> DEFINE vv == SubSeq(uu, 1, n)
               x == uu[n + 1]
    <3>1. vv \in Seq(Seq(A)) /\ Len(vv) = n /\ x \in Seq(A) /\ uu = Append(vv, x)
      BY <2>1, LastOne
    <3> HIDE DEF vv, x
    <3>2. ss \o uu = Append(ss \o vv, x) /\ ss \o vv \in Seq(Seq(A))
      BY <3>1
    <3>3. /\ FlattenSeq(ss \o uu) = FlattenSeq(ss \o vv) \o x
          /\ FlattenSeq(uu) = FlattenSeq(vv) \o x
      BY <3>1, <3>2, FlattenAppend
    <3>4. FlattenSeq(ss \o vv) = FlattenSeq(ss) \o FlattenSeq(vv)
      BY <1>2, <3>1
    <3>5. FlattenSeq(ss) \in Seq(A) /\ FlattenSeq(vv) \in Seq(A)
      BY <1>0, <3>1
    <3>6. (FlattenSeq(ss) \o FlattenSeq(vv)) \o x = FlattenSeq(ss) \o (FlattenSeq(vv) \o x)
      BY <3>1, <3>5, ConcatAssociative, SMTT(30)
    <3> QED
      BY <3>3, <3>4, <3>6
  <2> QED
    BY <2>1
<1>3. Nat \subseteq S
  <2> HIDE DEF S
  <2> QED
    BY <1>1, <1>2, Induction
<1>4. Len(tt) \in Nat
  OBVIOUS
<1> QED
  BY <1>0, <1>3, <1>4

\* A script is made of bytes.
LEMMA ScriptBytes ==
  ASSUME NEW script \in Scripts
  PROVE  script \in Seq(Seq(Byte)) /\ FlattenSeq(script) \in Seq(Byte)
<1>1. script \in Seq(Seq(Byte) \ {<< >>}) /\ Seq(Byte) \ {<< >>} \subseteq Seq(Byte)
  BY ScriptAssumption DEF Byte
<1>2. script \in Seq(Seq(Byte))
  BY <1>1, SeqMonotonic, Zenon
<1>3. << >> \in Seq(Byte)
  OBVIOUS
<1> QED
  BY <1>2, <1>3, FlattenAppend
--------------------------------------------------------------------------------
(***************************************************************************)
(* Types.                                                                  *)
(***************************************************************************)
Typed ==
  /\ sent \in Scripts
  /\ in \in Seq(Byte) /\ pending \in Seq(Byte)
  /\ out \in Seq(Int) /\ Len(out) <= OutCap /\ played \in Seq(Int)
  /\ pc \in {"top", "scan", "head", "data"} /\ i \in Nat
  /\ pc \in {"head", "data"} => Len(in) >= 6 /\ PesLength(in) <= Len(in)
  /\ pc = "data" => Rest > 0
  /\ counters \in [Pids -> 0 .. CounterSize - 1]
  /\ isAC3 \in BOOLEAN

\* The two pieces of a TS packet.
HeaderBytes == IF Rest >= PayloadSize THEN FullHeader ELSE LastHeader
HeaderLength == IF Rest >= PayloadSize THEN HeaderSize ELSE HeaderSize + PayloadSize - Rest
DataBytes ==
  SubSeq(in, i * PayloadSize + 1,
         i * PayloadSize + IF Rest >= PayloadSize THEN PayloadSize ELSE Rest)

\* The length of the packet in front.
LEMMA Measured ==
  ASSUME Typed, Len(in) >= 6
  PROVE  PesLength(in) \in Nat /\ PesLength(in) >= 6 /\ Rest \in Int
<1>1. in[5] \in Byte /\ in[6] \in Byte
  BY DEF Typed
<1>2. PesLength(in) \in Nat /\ PesLength(in) >= 6
  <2> DEFINE a == in[5]
             b == in[6]
  <2>1. a \in Nat /\ b \in Nat
    <3>1. Byte \subseteq Nat
      BY DEF Byte
    <3> QED
      BY <1>1, <3>1, Zenon
  <2>2. PesLength(in) = 256 * a + b + 6
    BY DEF PesLength
  <2> HIDE DEF a, b
  <2> QED
    BY <2>1, <2>2
<1>3. i * PayloadSize \in Nat
  BY Times, SizeAssumption DEF Typed
<1> QED
  BY <1>2, <1>3 DEF Rest

\* The header of a TS packet.
LEMMA Header ==
  ASSUME Typed, Len(in) >= 6, Rest > 0
  PROVE  /\ HeaderBytes \in Seq(Int) /\ Len(HeaderBytes) = HeaderLength
         /\ HeaderBytes[1] = 71
         /\ HeaderLength \in Nat \ {0} /\ HeaderLength < PacketSize
<1>0. PayloadSize \in Nat \ {0, 1} /\ CounterSize \in 1 .. 16
  BY SizeAssumption
<1>1. Rest \in Int /\ UnitStart \in Int /\ Pid \in Int /\ counters[Pid] \in Int
  <2>1. Rest \in Int
    BY Measured
  <2>2. Pid \in Pids /\ Pid \in Int
    BY DEF Pid, Pids, AudioPid, VideoPid
  <2>3. counters[Pid] \in Int
    BY <1>0, <2>2 DEF Typed
  <2> QED
    BY <2>1, <2>2, <2>3 DEF UnitStart
<1> HIDE DEF Rest
<1>2. CASE Rest >= PayloadSize
  <2>1. FullHeader \in Seq(Int) /\ Len(FullHeader) = 4 /\ FullHeader[1] = 71
    BY <1>1 DEF FullHeader
  <2> QED
    BY <1>0, <1>1, <1>2, <2>1 DEF HeaderBytes, HeaderLength, HeaderSize, PacketSize
<1>3. CASE Rest < PayloadSize
  <2> DEFINE n == PayloadSize - 1 - Rest
             a == <<71, UnitStart, Pid, 48 + counters[Pid], n>>
             b == [k \in 1 .. n |-> IF k = 1 THEN 0 ELSE 255]
  <2>1. n \in Nat
    BY <1>0, <1>1, <1>3
  <2>2. a \in Seq(Int) /\ Len(a) = 5 /\ a[1] = 71
    <3> HIDE DEF n
    <3> QED
      BY <1>1, <2>1
  <2>3. b \in Seq(Int) /\ Len(b) = n
    <3> HIDE DEF n
    <3> QED
      BY <2>1
  <2> HIDE DEF a, b
  <2>4. a \o b \in Seq(Int) /\ Len(a \o b) = 5 + n /\ (a \o b)[1] = 71
    <3> HIDE DEF n
    <3>1. 1 \in 1 .. Len(a)
      BY <2>2
    <3>6. a \in Seq(Int) /\ b \in Seq(Int)
      BY <2>2, <2>3
    <3>7. /\ a \o b \in Seq(Int) /\ Len(a \o b) = Len(a) + Len(b)
          /\ \A k \in 1 .. Len(a) : (a \o b)[k] = a[k]
      BY <3>6, Cat, Zenon
    <3>2. a \o b \in Seq(Int)
      BY <3>7
    <3>3. Len(a \o b) = Len(a) + Len(b)
      BY <3>7
    <3>4. (a \o b)[1] = a[1]
      BY <3>1, <3>7
    <3> QED
      BY <2>1, <2>2, <2>3, <3>2, <3>3, <3>4
  <2>5. LastHeader = a \o b
    BY DEF LastHeader, a, b
  <2> QED
    BY <1>0, <1>1, <1>3, <2>4, <2>5 DEF HeaderBytes, HeaderLength, HeaderSize, PacketSize
<1> QED
  BY <1>0, <1>1, <1>2, <1>3

\* The payload of a TS packet.
LEMMA Data ==
  ASSUME Typed, pc = "data"
  PROVE  DataBytes \in Seq(Int) /\ Len(DataBytes) = PacketSize - HeaderLength
<1> USE SizeAssumption
<1> DEFINE m == i * PayloadSize
           n == IF Rest >= PayloadSize THEN PayloadSize ELSE Rest
<1>1. m \in Nat /\ PesLength(in) \in Nat /\ PesLength(in) <= Len(in) /\ Rest > 0
  BY Times, Measured DEF Typed
<1>2. Rest = PesLength(in) - m
  BY DEF Rest
<1>3. n \in Nat \ {0} /\ m + n <= Len(in)
  <2> HIDE DEF m
  <2> QED
    BY <1>1, <1>2
<1>4. in \in Seq(Int)
  <2>1. Byte \subseteq Int
    BY DEF Byte
  <2> QED
    BY <2>1, SeqMonotonic DEF Typed
<1>5. DataBytes = SubSeq(in, m + 1, m + n)
  BY DEF DataBytes
<1>6. SubSeq(in, m + 1, m + n) \in Seq(Int) /\ Len(SubSeq(in, m + 1, m + n)) = n
  <2> HIDE DEF m, n
  <2> DEFINE a == m + 1
             b == m + n
  <2>1. a \in Nat \ {0} /\ b \in Nat /\ b <= Len(in) /\ a <= b + 1 /\ b - a + 1 = n
    BY <1>1, <1>3
  <2> HIDE DEF a, b
  <2>2. SubSeq(in, a, b) \in Seq(Int) /\ Len(SubSeq(in, a, b)) = b - a + 1
    BY <1>4, <2>1, Part
  <2> QED
    BY <2>1, <2>2 DEF a, b
<1>7. n = PacketSize - HeaderLength
  BY <1>1, <1>2 DEF HeaderLength, PacketSize, HeaderSize
<1> HIDE DEF m, n
<1> QED
  BY <1>5, <1>6, <1>7

\* The first bytes after more has come.
LEMMA Grown ==
  ASSUME NEW s \in Seq(Byte), NEW t \in Seq(Byte), Len(s) >= 6
  PROVE  /\ Len(s \o t) >= Len(s) /\ PesLength(s \o t) = PesLength(s)
         /\ SubSeq(s \o t, 1, 3) = SubSeq(s, 1, 3)
<1> DEFINE u == s \o t
<1>1. /\ u \in Seq(Byte) /\ Len(u) = Len(s) + Len(t)
      /\ \A k \in 1 .. Len(s) : u[k] = s[k]
  BY Cat, Zenon
<1>2. 5 \in 1 .. Len(s) /\ 6 \in 1 .. Len(s) /\ 1 \in 1 .. Len(s) /\ 3 \in 1 .. Len(s)
  OBVIOUS
<1>3. SubSeq(u, 1, 3) = SubSeq(s, 1, 3)
  BY <1>2, SubSeqOfConcat1, Zenon
<1> HIDE DEF u
<1>4. u[5] = s[5] /\ u[6] = s[6]
  BY <1>1, <1>2
<1>5. PesLength(u) = PesLength(s)
  BY <1>4 DEF PesLength
<1>6. Len(u) >= Len(s)
  <2>1. Len(s) \in Nat /\ Len(t) \in Nat
    OBVIOUS
  <2> QED
    BY <1>1, <2>1
<1> QED
  BY <1>3, <1>5, <1>6 DEF u

\* What is left after first bytes are dropped.
LEMMA Shorter ==
  ASSUME NEW s \in Seq(Byte), NEW n \in Nat
  PROVE  SubSeq(s, n + 1, Len(s)) \in Seq(Byte)
<1>1. CASE n <= Len(s)
  BY <1>1, Part
<1>2. CASE n > Len(s)
  <2>1. SubSeq(s, n + 1, Len(s)) = << >>
    BY <1>2, SubSeqEmpty
  <2> QED
    BY <2>1
<1> QED
  BY <1>1, <1>2

\* At the start.
LEMMA TypedInit ==
  ASSUME Init
  PROVE  Typed
<1>1. pending \in Seq(Byte)
  BY ScriptBytes DEF Init
<1>2. [pid \in {AudioPid, VideoPid} |-> 0] \in [Pids -> 0 .. CounterSize - 1]
  BY SizeAssumption DEF Pids
<1>3. Len(out) <= OutCap
  BY SizeAssumption DEF Init
<1>4. in \in Seq(Byte) /\ out \in Seq(Int) /\ played \in Seq(Int) /\ sent \in Scripts
  BY DEF Init
<1>5. pc = "top" /\ i \in Nat /\ isAC3 \in BOOLEAN
      /\ counters \in [Pids -> 0 .. CounterSize - 1]
  BY <1>2 DEF Init
<1> QED
  BY <1>1, <1>3, <1>4, <1>5 DEF Typed

\* More bytes come.
LEMMA TypedFeed ==
  ASSUME Typed, Feed
  PROVE  Typed'
<1>1. PICK n \in 1 .. Len(pending) :
        in' = in \o SubSeq(pending, 1, n) /\ pending' = SubSeq(pending, n + 1, Len(pending))
  BY DEF Feed
<1>2. in \in Seq(Byte) /\ pending \in Seq(Byte) /\ n \in 0 .. Len(pending)
  BY DEF Typed
<1> DEFINE t == SubSeq(pending, 1, n)
<1>3. t \in Seq(Byte) /\ pending' \in Seq(Byte)
  BY <1>1, <1>2, Split, Zenon
<1>4. in' = in \o t
  BY <1>1
<1> HIDE DEF t
<1>5. in' \in Seq(Byte)
  BY <1>2, <1>3, <1>4
<1>6. Len(in) >= 6 => Len(in') >= Len(in) /\ PesLength(in') = PesLength(in)
  BY <1>2, <1>3, <1>4, Grown
<1>7. UNCHANGED <<sent, out, pc, i, counters, isAC3, played>>
  BY DEF Feed
<1>8. pc \in {"head", "data"} => Len(in') >= 6 /\ PesLength(in') <= Len(in') /\ Rest' = Rest
  <2> SUFFICES ASSUME pc \in {"head", "data"}
               PROVE  Len(in') >= 6 /\ PesLength(in') <= Len(in') /\ Rest' = Rest
    OBVIOUS
  <2>1. Len(in) >= 6 /\ PesLength(in) <= Len(in)
    BY DEF Typed
  <2>2. PesLength(in) \in Nat
    BY <2>1, Measured
  <2> QED
    BY <1>2, <1>5, <1>6, <1>7, <2>1, <2>2 DEF Rest
<1> QED
  BY <1>3, <1>5, <1>7, <1>8 DEF Typed

\* A block goes.
LEMMA TypedTake ==
  ASSUME Typed, Take
  PROVE  Typed'
<1>1. /\ Len(out) >= BlockSize
      /\ played' = played \o SubSeq(out, 1, BlockSize)
      /\ out' = SubSeq(out, BlockSize + 1, Len(out))
      /\ UNCHANGED <<sent, pending, in, pc, i, counters, isAC3>>
  BY DEF Take
<1>2. out \in Seq(Int) /\ played \in Seq(Int) /\ Len(out) <= OutCap
  BY DEF Typed
<1>3. BlockSize \in Nat \ {0} /\ BlockSize \in 0 .. Len(out)
  BY <1>1, <1>2, SizeAssumption
<1>4. SubSeq(out, 1, BlockSize) \in Seq(Int) /\ out' \in Seq(Int)
  BY <1>1, <1>2, <1>3, Split, Zenon
<1>5. played' \in Seq(Int)
  BY <1>1, <1>2, <1>4
<1>6. Len(out') = Len(out) - BlockSize
  BY <1>1, <1>2, <1>3
<1>7. Len(out') <= OutCap
  BY <1>2, <1>3, <1>6, SizeAssumption
<1>8. Rest' = Rest
  BY <1>1 DEF Rest
<1> QED
  BY <1>1, <1>4, <1>5, <1>7, <1>8 DEF Typed

\* remux drops bytes between packets.
LEMMA TypedDrop ==
  ASSUME Typed, NEW n \in Nat, in' = After(n), pc' \in {"top", "scan"}, i' \in Nat,
         UNCHANGED <<sent, pending, out, counters, isAC3, played>>
  PROVE  Typed'
<1>1. in' \in Seq(Byte)
  BY Shorter DEF Typed, After
<1> QED
  BY <1>1 DEF Typed

\* The steps that drop bytes.
LEMMA TypedGarbage ==
  ASSUME Typed, ScanStart \/ Scan \/ DropPadding \/ DropUnknown \/ EndPacket
  PROVE  Typed'
<1>1. CASE ScanStart
  BY <1>1 DEF ScanStart, RemuxKeeps, Typed
<1>2. CASE Scan
  BY <1>2, TypedDrop DEF Scan, RemuxKeeps, Typed
<1>3. CASE DropPadding
  <2>1. Len(in) >= 6
    BY <1>3 DEF DropPadding, MayStart
  <2>2. PesLength(in) \in Nat
    BY <2>1, Measured
  <2>3. in' = After(PesLength(in)) /\ pc' = "top" /\ i' \in Nat
        /\ UNCHANGED <<sent, pending, out, counters, isAC3, played>>
    BY <1>3 DEF DropPadding, MayStart, RemuxKeeps, Typed
  <2> QED
    BY <2>2, <2>3, TypedDrop
<1>4. CASE DropUnknown
  BY <1>4, TypedDrop DEF DropUnknown, MayStart, RemuxKeeps, Typed
<1>5. CASE EndPacket
  <2>1. Len(in) >= 6
    BY <1>5 DEF EndPacket, Typed
  <2>2. PesLength(in) \in Nat
    BY <2>1, Measured
  <2>3. in' = After(PesLength(in)) /\ pc' = "top" /\ i' \in Nat
        /\ UNCHANGED <<sent, pending, out, counters, isAC3, played>>
    BY <1>5 DEF EndPacket, RemuxKeeps, Typed
  <2> QED
    BY <2>2, <2>3, TypedDrop
<1> QED
  BY <1>1, <1>2, <1>3, <1>4, <1>5

\* A packet is begun.
LEMMA TypedStart ==
  ASSUME Typed, StartPacket
  PROVE  Typed'
<1>1. /\ Len(in) >= 6 /\ pc = "top"
      /\ isAC3' = IF IsAudio(Id) THEN Id = 189 ELSE isAC3
      /\ UNCHANGED <<sent, pending, in, out, counters, played>>
  BY DEF StartPacket, MayStart, RemuxKeeps
<1>2. IF Len(in) >= PesLength(in) THEN pc' = "head" /\ i' = 0 ELSE pc' = pc /\ i' = i
  BY DEF StartPacket
<1>3. PesLength(in) \in Nat /\ Len(in) \in Nat
  BY <1>1, Measured DEF Typed
<1>4. pc' = "head" => PesLength(in) <= Len(in)
  BY <1>1, <1>2, <1>3
<1>5. pc' \in {"top", "head"} /\ i' \in Nat
  BY <1>1, <1>2 DEF Typed
<1>6. isAC3' \in BOOLEAN
  BY <1>1 DEF Typed
<1>7. PesLength(in') = PesLength(in)
  BY <1>1
<1> QED
  BY <1>1, <1>4, <1>5, <1>6, <1>7 DEF Typed

\* The header of a TS packet is written.
LEMMA TypedHeader ==
  ASSUME Typed, WriteHeader
  PROVE  Typed'
<1>1. /\ pc = "head" /\ Rest > 0 /\ pc' = "data"
      /\ out' = Put(HeaderBytes) /\ counters' = Count
      /\ UNCHANGED <<sent, pending, in, i, isAC3, played>>
  BY DEF WriteHeader, RemuxKeeps, HeaderBytes
<1>2. Len(in) >= 6 /\ PesLength(in) <= Len(in) /\ out \in Seq(Int) /\ Len(out) <= OutCap
  BY <1>1 DEF Typed
<1>3. HeaderBytes \in Seq(Int)
  BY <1>1, <1>2, Header
<1>4. out' \in Seq(Int) /\ Len(out') <= OutCap
  BY <1>1, <1>2, <1>3, PutKeeps
<1>5. counters' \in [Pids -> 0 .. CounterSize - 1]
  <2>1. \A n \in 0 .. CounterSize - 1 : (n + 1) % CounterSize \in 0 .. CounterSize - 1
    BY SizeAssumption
  <2>2. counters \in [Pids -> 0 .. CounterSize - 1] /\ Pid \in Pids
    BY DEF Typed, Pid, Pids
  <2> QED
    BY <1>1, <2>1, <2>2 DEF Count
<1>6. PesLength(in') = PesLength(in) /\ Rest' = Rest
  BY <1>1 DEF Rest
<1> QED
  BY <1>1, <1>2, <1>4, <1>5, <1>6 DEF Typed

\* Its payload is written.
LEMMA TypedData ==
  ASSUME Typed, WriteData
  PROVE  Typed'
<1>1. /\ pc = "data" /\ pc' = "head" /\ i' = i + 1
      /\ out' = Put(DataBytes)
      /\ UNCHANGED <<sent, pending, in, counters, isAC3, played>>
  BY DEF WriteData, RemuxKeeps, DataBytes
<1>2. Len(in) >= 6 /\ PesLength(in) <= Len(in) /\ out \in Seq(Int) /\ Len(out) <= OutCap
  BY <1>1 DEF Typed
<1>3. DataBytes \in Seq(Int)
  BY <1>1, Data
<1>4. out' \in Seq(Int) /\ Len(out') <= OutCap
  BY <1>2, <1>3, PutKeeps, <1>1
<1>5. PesLength(in') = PesLength(in) /\ i' \in Nat
  BY <1>1 DEF Typed
<1> QED
  BY <1>1, <1>2, <1>4, <1>5 DEF Typed

\* Every step.
LEMMA TypedNext ==
  ASSUME Typed, [Next]_vars
  PROVE  Typed'
<1>1. CASE Next
  BY <1>1, TypedFeed, TypedTake, TypedGarbage, TypedStart, TypedHeader, TypedData
     DEF Next, Remux
<1>2. CASE UNCHANGED vars
  BY <1>2 DEF vars, Typed, Rest
<1> QED
  BY <1>1, <1>2

\* The packet that is being cut up (mp_RemuxStream, vdrviewer.cpp:1376) stays in
\* the input ring as a whole, and the output ring never holds more than fits.
THEOREM TypeCorrect == Spec => []TypeOK
<1>1. Typed => TypeOK
  BY DEF Typed, TypeOK, Byte
<1> QED
  BY <1>1, TypedInit, TypedNext, PTL DEF Spec
--------------------------------------------------------------------------------
(***************************************************************************)
(* Whole TS packets.                                                       *)
(***************************************************************************)
\* The input ring holds a stretch of what the server sent.
Following == in \o pending \in Tails(FlattenSeq(sent))

\* A packet that is cut up is not longer than the room was made for.
Bounded == pc \in {"head", "data"} => PesLength(in) <= MinIn

\* What of a TS packet is written.
Begun == IF pc = "data" THEN HeaderLength ELSE 0

\* There is room for the rest of the packet.
Room ==
  pc \in {"head", "data"} =>
    PacketCount(PesLength(in)) * PacketSize + Len(out) <= OutCap + i * PacketSize + Begun

\* What came out is whole TS packets, but for the one that is being written.
Whole == \E n \in Nat : Len(played \o out) = n * PacketSize + Begun
Marked ==
  \A k \in Nat : k * PacketSize < Len(played \o out) => (played \o out)[k * PacketSize + 1] = 71

IInv == Typed /\ Following /\ Bounded /\ Room /\ Whole /\ Marked

\* A rest of a rest is one.
LEMMA TailOfTail ==
  ASSUME NEW s \in Seq(Byte), NEW t \in Tails(s), NEW n \in 0 .. Len(t)
  PROVE  t \in Seq(Byte) /\ SubSeq(t, n + 1, Len(t)) \in Tails(s)
<1>1. PICK m \in 0 .. Len(s) : t = SubSeq(s, m + 1, Len(s))
  BY DEF Tails
<1> DEFINE u == SubSeq(t, n + 1, Len(t))
           v == SubSeq(s, m + n + 1, Len(s))
<1>2. t \in Seq(Byte) /\ Len(t) = Len(s) - m /\ \A k \in 1 .. Len(s) - m : t[k] = s[m + k]
  BY <1>1
<1>3. u \in Seq(Byte) /\ Len(u) = Len(t) - n /\ \A k \in 1 .. Len(t) - n : u[k] = t[n + k]
  BY <1>2
<1>4. m + n \in 0 .. Len(s)
  BY <1>2
<1>5. v \in Seq(Byte) /\ Len(v) = Len(s) - m - n
      /\ \A k \in 1 .. Len(s) - m - n : v[k] = s[m + n + k]
  BY <1>4
<1> HIDE DEF u, v
<1>6. u = v
  <2>1. Len(u) = Len(v)
    BY <1>2, <1>3, <1>5
  <2>2. ASSUME NEW k \in 1 .. Len(u) PROVE u[k] = v[k]
    <3>1. u[k] = t[n + k] /\ n + k \in 1 .. Len(s) - m
      BY <1>2, <1>3
    <3>2. t[n + k] = s[m + (n + k)]
      BY <1>2, <3>1
    <3>3. v[k] = s[m + n + k]
      BY <1>5, <2>1
    <3> QED
      BY <3>1, <3>2, <3>3
  <2> QED
    BY <1>3, <1>5, <2>1, <2>2, SeqEqual
<1>7. v \in Tails(s)
  BY <1>4 DEF Tails, v
<1> QED
  BY <1>2, <1>6, <1>7 DEF u

\* Bytes that are dropped in front are dropped from the whole.
LEMMA DropInFront ==
  ASSUME NEW s \in Seq(Byte), NEW t \in Seq(Byte), NEW n \in 0 .. Len(s)
  PROVE  SubSeq(s, n + 1, Len(s)) \o t = SubSeq(s \o t, n + 1, Len(s \o t))
<1> DEFINE a == SubSeq(s, n + 1, Len(s))
           b == s \o t
           u == a \o t
           v == SubSeq(b, n + 1, Len(b))
<1>1. a \in Seq(Byte) /\ Len(a) = Len(s) - n /\ \A k \in 1 .. Len(s) - n : a[k] = s[n + k]
  OBVIOUS
<1>2. /\ b \in Seq(Byte) /\ Len(b) = Len(s) + Len(t)
      /\ \A k \in 1 .. Len(s) : b[k] = s[k]
      /\ \A k \in 1 .. Len(t) : b[Len(s) + k] = t[k]
  BY Cat
<1> HIDE DEF a, b
<1>3. /\ u \in Seq(Byte) /\ Len(u) = Len(a) + Len(t)
      /\ \A k \in 1 .. Len(a) : u[k] = a[k]
      /\ \A k \in 1 .. Len(t) : u[Len(a) + k] = t[k]
  <2>1. a \in Seq(Byte)
    BY <1>1
  <2> QED
    BY <2>1, Cat
<1>4. v \in Seq(Byte) /\ Len(v) = Len(b) - n /\ \A k \in 1 .. Len(b) - n : v[k] = b[n + k]
  BY <1>2
<1> HIDE DEF u, v
<1>5. Len(u) = Len(v) /\ Len(s) \in Nat /\ Len(t) \in Nat
  BY <1>1, <1>2, <1>3, <1>4
<1>6. ASSUME NEW k \in 1 .. Len(u) PROVE u[k] = v[k]
  <2>1. v[k] = b[n + k]
    BY <1>4, <1>5
  <2>2. CASE k <= Len(a)
    <3>1. n + k \in 1 .. Len(s) /\ k \in 1 .. Len(a) /\ k \in 1 .. Len(s) - n
      BY <1>1, <1>5, <2>2
    <3> QED
      BY <1>1, <1>2, <1>3, <2>1, <3>1
  <2>3. CASE k > Len(a)
    <3> DEFINE j == k - Len(a)
    <3>1. j \in 1 .. Len(t) /\ k = Len(a) + j /\ n + k = Len(s) + j
      BY <1>1, <1>3, <1>5, <2>3
    <3> HIDE DEF j
    <3> QED
      BY <1>2, <1>3, <2>1, <3>1
  <2> QED
    BY <1>1, <1>5, <2>2, <2>3
<1>7. u = v
  BY <1>3, <1>4, <1>5, <1>6, SeqEqual
<1> QED
  BY <1>7 DEF u, v, a, b

\* The whole script.
LEMMA FollowInit ==
  ASSUME Init
  PROVE  Following
<1> DEFINE s == FlattenSeq(sent)
<1>1. s \in Seq(Byte) /\ in \o pending = << >> \o s
  BY ScriptBytes DEF Init
<1> HIDE DEF s
<1>2. << >> \o s = s /\ s = SubSeq(s, 0 + 1, Len(s)) /\ 0 \in 0 .. Len(s)
  BY <1>1, ConcatEmptySeq, SubSeqFull
<1>3. s \in Tails(s)
  BY <1>2 DEF Tails
<1> QED
  BY <1>1, <1>2, <1>3 DEF Following, s

\* Bytes go from one part to the other.
LEMMA FollowFeed ==
  ASSUME Typed, Following, Feed
  PROVE  Following'
<1>1. PICK n \in 1 .. Len(pending) :
        in' = in \o SubSeq(pending, 1, n) /\ pending' = SubSeq(pending, n + 1, Len(pending))
  BY DEF Feed
<1>2. in \in Seq(Byte) /\ pending \in Seq(Byte) /\ n \in 0 .. Len(pending)
  BY DEF Typed
<1>3. in' \o pending' = in \o pending
  BY <1>1, <1>2, Split, Zenon
<1>4. sent' = sent
  BY DEF Feed
<1> QED
  BY <1>3, <1>4 DEF Following

\* Bytes in front are dropped.
LEMMA FollowDrop ==
  ASSUME Typed, Following, NEW n \in 0 .. Len(in), in' = After(n), UNCHANGED <<sent, pending>>
  PROVE  Following'
<1>1. in \in Seq(Byte) /\ pending \in Seq(Byte) /\ FlattenSeq(sent) \in Seq(Byte)
  BY ScriptBytes DEF Typed
<1> DEFINE b == in \o pending
<1>2. in' \o pending' = SubSeq(b, n + 1, Len(b))
  BY <1>1, DropInFront DEF After
<1>3. n \in 0 .. Len(b)
  BY <1>1
<1>4. b \in Tails(FlattenSeq(sent))
  BY DEF Following
<1> HIDE DEF b
<1>5. SubSeq(b, n + 1, Len(b)) \in Tails(FlattenSeq(sent))
  BY <1>1, <1>3, <1>4, TailOfTail
<1> QED
  BY <1>2, <1>5 DEF Following

\* What looks like a packet is not longer than what is in the ring before it is touched.
Fitting == Seems(in) => PesLength(in) <= MinIn

\* Looks do not change when more comes.
LEMMA LooksLast ==
  ASSUME NEW s \in Seq(Byte), NEW t \in Seq(Byte), Len(s) >= 6
  PROVE  Seems(s \o t) <=> Seems(s)
<1> DEFINE u == s \o t
           z == <<0, 0, 1>>
<1>1. Len(u) >= Len(s) /\ SubSeq(u, 1, 3) = SubSeq(s, 1, 3)
  BY Grown
<1>2. 4 \in 1 .. Len(s)
  OBVIOUS
<1>3. u[4] = s[4]
  BY <1>2, Cat
<1>4. Len(u) \in Nat /\ Len(s) \in Nat /\ Len(z) = 3
  OBVIOUS
<1> HIDE DEF u, z
<1>5. IsPrefix(z, u) <=> IsPrefix(z, s)
  BY <1>1, <1>4 DEF IsPrefix
<1> QED
  BY <1>1, <1>3, <1>4, <1>5 DEF Seems, u, z

\* What looks like a packet in the ring looks like one in the script.
LEMMA Fits ==
  ASSUME Tame, Typed, Following
  PROVE  Fitting
<1> SUFFICES ASSUME Seems(in) PROVE PesLength(in) <= MinIn
  BY DEF Fitting
<1>1. in \in Seq(Byte) /\ pending \in Seq(Byte) /\ sent \in Scripts /\ Len(in) >= 6
  BY DEF Typed, Seems
<1>2. PesLength(in \o pending) = PesLength(in) /\ Seems(in \o pending)
  BY <1>1, Grown, LooksLast
<1> QED
  BY <1>1, <1>2 DEF Tame, Following

\* A packet that is not through has a TS packet to come, with its room.
LEMMA ToCome ==
  ASSUME Typed, pc \in {"head", "data"}, Rest > 0
  PROVE  /\ PacketSize \in Nat \ {0} /\ i * PacketSize \in Nat
         /\ PacketCount(PesLength(in)) * PacketSize \in Nat
         /\ i * PacketSize + PacketSize <= PacketCount(PesLength(in)) * PacketSize
<1> DEFINE l == PesLength(in)
           c == PacketCount(l)
           p == PayloadSize
<1>1. Len(in) >= 6 /\ i \in Nat
  BY DEF Typed
<1>2. l \in Nat /\ p \in Nat /\ PacketSize \in Nat \ {0}
  BY <1>1, Measured, SizeAssumption DEF PacketSize, HeaderSize
<1>3. c \in Nat /\ l <= c * p
  BY <1>2, Counted
<1>4. i * p < l
  <2>1. Rest = l - i * p
    BY DEF Rest
  <2>2. i * p \in Nat
    BY <1>1, <1>2, Times
  <2> HIDE DEF l
  <2> QED
    BY <1>2, <2>1, <2>2
<1> HIDE DEF l, c, p
<1>5. i < c
  <2>1. c <= i => c * p <= i * p
    BY <1>1, <1>2, <1>3, Times
  <2>2. c * p \in Nat /\ i * p \in Nat
    BY <1>1, <1>2, <1>3, Times
  <2> QED
    BY <1>1, <1>2, <1>3, <1>4, <2>1, <2>2
<1>6. i * PacketSize + PacketSize <= c * PacketSize
      /\ i * PacketSize \in Nat /\ c * PacketSize \in Nat
  BY <1>1, <1>2, <1>3, <1>5, Times
<1> QED
  BY <1>2, <1>6 DEF l, c

\* At the start.
LEMMA AlignedInit ==
  ASSUME Init
  PROVE  IInv
<1>1. played \o out = << >> /\ pc = "top"
  BY DEF Init
<1>2. PacketSize \in Nat
  BY SizeAssumption DEF PacketSize, HeaderSize
<1>3. Whole
  <2>1. Len(played \o out) = 0 * PacketSize + Begun
    BY <1>1, <1>2 DEF Begun
  <2> QED
    BY <2>1 DEF Whole
<1>4. Marked
  <2>1. ASSUME NEW k \in Nat PROVE ~ k * PacketSize < Len(played \o out)
    <3>1. k * PacketSize \in Nat
      BY <1>2, Times
    <3> QED
      BY <1>1, <3>1
  <2> QED
    BY <2>1 DEF Marked
<1> QED
  BY <1>1, <1>3, <1>4, TypedInit, FollowInit DEF IInv, Bounded, Room

\* Between packets nothing is written.
LEMMA AlignedDrop ==
  ASSUME IInv, Typed', Following', pc # "data", pc' \in {"top", "scan"},
         UNCHANGED <<out, played>>
  PROVE  IInv'
<1>1. Begun' = 0 /\ Begun = 0
  BY DEF Begun
<1>2. Whole' /\ Marked'
  BY <1>1 DEF IInv, Whole, Marked
<1> QED
  BY <1>2 DEF IInv, Bounded, Room

\* The steps that drop bytes.
LEMMA AlignedGarbage ==
  ASSUME Fitting, IInv, ScanStart \/ Scan \/ DropPadding \/ DropUnknown \/ EndPacket
  PROVE  IInv'
<1>1. Typed /\ Typed' /\ Following
  BY TypedGarbage DEF IInv
<1>2. Len(in) \in Nat
  BY <1>1 DEF Typed
<1>3. CASE ScanStart
  <2>1. Following'
    BY <1>1, <1>3 DEF ScanStart, RemuxKeeps, Following
  <2> QED
    BY <1>1, <1>3, <2>1, AlignedDrop DEF ScanStart, MayStart, RemuxKeeps
<1>4. CASE Scan
  <2>1. CASE Len(in) = 0
    <3>1. in' = SubSeq(in, 2, 0) /\ in \in Seq(Byte)
      BY <1>1, <1>4, <2>1 DEF Scan, After, Typed
    <3>2. SubSeq(in, 2, 0) = << >> /\ in = << >>
      BY <2>1, <3>1, SubSeqEmpty
    <3>3. Following'
      BY <1>1, <1>4, <3>1, <3>2 DEF Scan, RemuxKeeps, Following
    <3> QED
      BY <1>1, <1>4, <3>3, AlignedDrop DEF Scan, RemuxKeeps
  <2>2. CASE Len(in) > 0
    <3>1. 1 \in 0 .. Len(in)
      BY <1>2, <2>2
    <3>2. Following'
      BY <1>1, <1>4, <3>1, FollowDrop DEF Scan, RemuxKeeps
    <3> QED
      BY <1>1, <1>4, <3>2, AlignedDrop DEF Scan, RemuxKeeps
  <2> QED
    BY <1>2, <2>1, <2>2
<1>5. CASE DropPadding
  <2>1. Seems(in) /\ Len(in) >= 6 /\ Len(in) >= MinIn /\ pc = "top"
    BY <1>5 DEF DropPadding, MayStart, Seems, StartCode, Id
  <2>2. PesLength(in) \in 0 .. Len(in)
    <3>1. PesLength(in) \in Nat /\ PesLength(in) <= MinIn
      BY <1>1, <2>1, Measured DEF Fitting
    <3> QED
      BY <1>2, <2>1, <3>1, SizeAssumption
  <2>3. Following'
    BY <1>1, <1>5, <2>2, FollowDrop DEF DropPadding, RemuxKeeps
  <2> QED
    BY <1>1, <1>5, <2>1, <2>3, AlignedDrop DEF DropPadding, RemuxKeeps
<1>6. CASE DropUnknown
  <2>1. Len(in) >= 6 /\ pc = "top"
    BY <1>6 DEF DropUnknown, MayStart
  <2>2. 1 \in 0 .. Len(in)
    BY <1>2, <2>1
  <2>3. Following'
    BY <1>1, <1>6, <2>2, FollowDrop DEF DropUnknown, RemuxKeeps
  <2> QED
    BY <1>1, <1>6, <2>1, <2>3, AlignedDrop DEF DropUnknown, RemuxKeeps
<1>7. CASE EndPacket
  <2>1. pc = "head" /\ Len(in) >= 6 /\ PesLength(in) <= Len(in)
    BY <1>1, <1>7 DEF EndPacket, Typed
  <2>2. PesLength(in) \in 0 .. Len(in)
    <3>1. PesLength(in) \in Nat
      BY <1>1, <2>1, Measured
    <3> QED
      BY <1>2, <2>1, <3>1
  <2>3. Following'
    BY <1>1, <1>7, <2>2, FollowDrop DEF EndPacket, RemuxKeeps
  <2> QED
    BY <1>1, <1>7, <2>1, <2>3, AlignedDrop DEF EndPacket, RemuxKeeps
<1> QED
  BY <1>3, <1>4, <1>5, <1>6, <1>7

\* More bytes come behind.
LEMMA AlignedFeed ==
  ASSUME IInv, Feed
  PROVE  IInv'
<1>1. Typed /\ Typed' /\ Following'
  BY TypedFeed, FollowFeed DEF IInv
<1>2. UNCHANGED <<out, pc, i, played>>
  BY DEF Feed
<1>3. ASSUME pc \in {"head", "data"} PROVE PesLength(in') = PesLength(in) /\ Rest' = Rest
  <2>1. PICK n \in 1 .. Len(pending) : in' = in \o SubSeq(pending, 1, n)
    BY DEF Feed
  <2>2. in \in Seq(Byte) /\ pending \in Seq(Byte) /\ n \in 0 .. Len(pending) /\ Len(in) >= 6
    BY <1>1, <1>3 DEF Typed
  <2>3. SubSeq(pending, 1, n) \in Seq(Byte)
    BY <2>2, Split, Zenon
  <2>4. PesLength(in') = PesLength(in)
    BY <2>1, <2>2, <2>3, Grown
  <2> QED
    BY <1>2, <2>4 DEF Rest
<1>4. Begun' = Begun
  BY <1>2, <1>3 DEF Begun, HeaderLength
<1>5. Bounded' /\ Room'
  BY <1>2, <1>3, <1>4 DEF IInv, Bounded, Room
<1>6. Whole' /\ Marked'
  BY <1>2, <1>4 DEF IInv, Whole, Marked
<1> QED
  BY <1>1, <1>5, <1>6 DEF IInv

\* A block goes from the ring to the driver.
LEMMA AlignedTake ==
  ASSUME IInv, Take
  PROVE  IInv'
<1>1. Typed /\ Typed'
  BY TypedTake DEF IInv
<1>2. /\ Len(out) >= BlockSize
      /\ played' = played \o SubSeq(out, 1, BlockSize)
      /\ out' = SubSeq(out, BlockSize + 1, Len(out))
      /\ UNCHANGED <<sent, pending, in, pc, i>>
  BY DEF Take
<1>3. out \in Seq(Int) /\ played \in Seq(Int) /\ BlockSize \in 1 .. Len(out) /\ Len(out) \in Nat
  BY <1>1, <1>2, SizeAssumption DEF Typed
<1>4. played' \o out' = played \o out
  <2>1. BlockSize \in 0 .. Len(out)
    BY <1>3
  <2> QED
    BY <1>2, <1>3, <2>1, Split, ZenonT(60)
<1>5. Len(out') = Len(out) - BlockSize /\ Len(out') \in Nat
  BY <1>2, <1>3
<1>6. Begun' = Begun
  BY <1>2 DEF Begun, HeaderLength, Rest
<1>7. Whole' /\ Marked'
  BY <1>4, <1>6, ZenonT(60) DEF IInv, Whole, Marked
<1>8. Room'
  <2> SUFFICES ASSUME pc \in {"head", "data"}
               PROVE  PacketCount(PesLength(in)) * PacketSize + Len(out')
                        <= OutCap + i * PacketSize + Begun
    BY <1>2, <1>6 DEF Room
  <2>1. PacketCount(PesLength(in)) * PacketSize + Len(out) <= OutCap + i * PacketSize + Begun
    BY DEF IInv, Room
  <2>2. PesLength(in) \in Nat /\ PacketSize \in Nat /\ i \in Nat /\ OutCap \in Nat
    BY <1>1, Measured, SizeAssumption DEF Typed, PacketSize, HeaderSize
  <2>3. PacketCount(PesLength(in)) * PacketSize \in Nat /\ i * PacketSize \in Nat
    BY <2>2, Counted, Times
  <2>4. Begun \in Int
    <3>1. pc = "data" => HeaderLength \in Int
      BY <1>1, Header DEF Typed
    <3> QED
      BY <3>1 DEF Begun
  <2> DEFINE x == PacketCount(PesLength(in)) * PacketSize
             y == i * PacketSize
  <2> HIDE DEF x, y
  <2>5. x + Len(out) <= OutCap + y + Begun /\ x \in Nat /\ y \in Nat
    BY <2>1, <2>3 DEF x, y
  <2>6. x + Len(out') <= OutCap + y + Begun
    BY <1>3, <1>5, <2>2, <2>4, <2>5
  <2> QED
    BY <2>6 DEF x, y
<1>9. Following' /\ Bounded'
  BY <1>2 DEF IInv, Following, Bounded
<1> QED
  BY <1>1, <1>7, <1>8, <1>9 DEF IInv

\* A packet is begun: its room was looked at.
LEMMA AlignedStart ==
  ASSUME Fitting, IInv, StartPacket
  PROVE  IInv'
<1>1. Typed /\ Typed' /\ Following
  BY TypedStart DEF IInv
<1>2. /\ pc = "top" /\ Len(in) >= 6 /\ StartCode /\ OutCap - Len(out) >= MinOut
      /\ UNCHANGED <<sent, pending, in, out, played>>
      /\ IF Len(in) >= PesLength(in) THEN pc' = "head" /\ i' = 0 ELSE pc' = pc /\ i' = i
  BY DEF StartPacket, MayStart, RemuxKeeps
<1>3. PesLength(in) \in Nat /\ PesLength(in) <= MinIn
  <2>1. Seems(in)
    BY <1>2 DEF StartPacket, Seems, StartCode, Id
  <2> QED
    BY <1>1, <1>2, <2>1, Measured DEF Fitting
<1>4. Following' /\ Bounded'
  BY <1>1, <1>2, <1>3 DEF Following, Bounded
<1>5. Begun = 0 /\ Begun' = 0
  BY <1>2 DEF Begun
<1>6. Whole' /\ Marked'
  BY <1>2, <1>5 DEF IInv, Whole, Marked
<1>7. Room'
  <2> SUFFICES ASSUME pc' = "head"
               PROVE  PacketCount(PesLength(in)) * PacketSize + Len(out)
                        <= OutCap + 0 * PacketSize + 0
    BY <1>2, <1>5 DEF Room
  <2> DEFINE x == PacketCount(PesLength(in))
             z == PacketCount(MinIn)
  <2>1. PacketSize \in Nat /\ x \in Nat /\ z \in Nat /\ x <= z
    BY <1>3, Counted, SizeAssumption DEF PacketSize, HeaderSize
  <2>2. z * PacketSize <= MinOut /\ Len(out) \in Nat /\ OutCap \in Nat /\ MinOut \in Nat
    BY <1>1, SizeAssumption DEF Typed
  <2> HIDE DEF x, z
  <2>3. x * PacketSize <= z * PacketSize /\ x * PacketSize \in Nat /\ z * PacketSize \in Nat
        /\ 0 * PacketSize = 0
    BY <2>1, Times
  <2>4. x * PacketSize + Len(out) <= OutCap + 0 * PacketSize + 0
    BY <1>2, <2>2, <2>3
  <2> QED
    BY <2>4 DEF x
<1> QED
  BY <1>1, <1>4, <1>6, <1>7 DEF IInv

\* What is written is put behind what was.
LEMMA Written ==
  ASSUME Typed, NEW bytes \in Seq(Int), Len(bytes) <= OutCap - Len(out),
         out' = Put(bytes), played' = played
  PROVE  /\ out' = out \o bytes /\ played' \o out' = (played \o out) \o bytes
         /\ Len(out') = Len(out) + Len(bytes)
<1>1. out \in Seq(Int) /\ played \in Seq(Int) /\ Len(out) <= OutCap
  BY DEF Typed
<1>2. out' = out \o bytes
  BY <1>1, PutKeeps
<1>3. (played \o out) \o bytes = played \o (out \o bytes)
  BY <1>1, ConcatAssociative
<1>4. Len(out \o bytes) = Len(out) + Len(bytes)
  BY <1>1, Cat
<1> QED
  BY <1>2, <1>3, <1>4

\* The header: a packet begins where the last one ended.
LEMMA AlignedHeader ==
  ASSUME IInv, WriteHeader
  PROVE  IInv'
<1>1. Typed /\ Typed'
  BY TypedHeader DEF IInv
<1>2. /\ pc = "head" /\ Rest > 0 /\ pc' = "data"
      /\ out' = Put(HeaderBytes)
      /\ UNCHANGED <<sent, pending, in, i, played>>
  BY DEF WriteHeader, RemuxKeeps, HeaderBytes
<1>3. Len(in) >= 6 /\ out \in Seq(Int) /\ played \in Seq(Int) /\ Len(out) \in Nat
      /\ OutCap \in Nat
  BY <1>1, <1>2, SizeAssumption DEF Typed
<1>4. /\ HeaderBytes \in Seq(Int) /\ Len(HeaderBytes) = HeaderLength /\ HeaderBytes[1] = 71
      /\ HeaderLength \in Nat \ {0} /\ HeaderLength < PacketSize
  BY <1>1, <1>2, <1>3, Header
<1> DEFINE x == PacketCount(PesLength(in)) * PacketSize
           y == i * PacketSize
           b == HeaderBytes
           s == played \o out
<1>5. x \in Nat /\ y \in Nat /\ PacketSize \in Nat \ {0} /\ y + PacketSize <= x
  BY <1>1, <1>2, ToCome
<1>6. x + Len(out) <= OutCap + y + 0
  BY <1>2 DEF IInv, Room, Begun
<1>7. Begun = 0 /\ Begun' = HeaderLength
  <2>1. HeaderLength' = HeaderLength
    BY <1>2 DEF HeaderLength, Rest
  <2> QED
    BY <1>2, <2>1 DEF Begun
<1>9. s \in Seq(Int) /\ Len(s) \in Nat
  BY <1>3
<1> HIDE DEF x, y, b, s
<1>10. Len(b) <= OutCap - Len(out)
  BY <1>3, <1>4, <1>5, <1>6 DEF b
<1>11. played' \o out' = s \o b /\ Len(out') = Len(out) + HeaderLength
  BY <1>1, <1>2, <1>4, <1>10, Written DEF b, s
<1>12. /\ Len(s \o b) = Len(s) + HeaderLength
       /\ \A k \in 1 .. Len(s) : (s \o b)[k] = s[k]
       /\ \A k \in 1 .. Len(b) : (s \o b)[Len(s) + k] = b[k]
  <2>1. b \in Seq(Int) /\ Len(b) = HeaderLength
    BY <1>4 DEF b
  <2>2. /\ Len(s \o b) = Len(s) + Len(b)
        /\ \A k \in 1 .. Len(s) : (s \o b)[k] = s[k]
        /\ \A k \in 1 .. Len(b) : (s \o b)[Len(s) + k] = b[k]
    <3>1. s \in Seq(Int) /\ b \in Seq(Int)
      BY <1>9, <2>1
    <3>2. /\ Len(s \o b) = Len(s) + Len(b)
          /\ \A k \in 1 .. Len(s) : (s \o b)[k] = s[k]
      BY <3>1, Cat
    <3>3. \A k \in 1 .. Len(b) : (s \o b)[Len(s) + k] = b[k]
      BY <3>1, Cat
    <3> QED
      BY <3>2, <3>3
  <2> QED
    BY <2>1, <2>2
<1>13. PICK n \in Nat : Len(s) = n * PacketSize
  <2>1. PICK n \in Nat : Len(s) = n * PacketSize + 0
    BY <1>7 DEF IInv, Whole, s
  <2>2. n * PacketSize \in Nat
    BY <1>5, Times
  <2> QED
    BY <2>1, <2>2
<1>14. Whole'
  BY <1>7, <1>11, <1>12, <1>13 DEF Whole
<1>15. Marked'
  <2> SUFFICES ASSUME NEW k \in Nat, k * PacketSize < Len(s \o b)
               PROVE  (s \o b)[k * PacketSize + 1] = 71
    BY <1>11, ZenonT(60) DEF Marked
  <2> DEFINE c == k * PacketSize
             d == n * PacketSize
  <2>1. /\ c \in Nat /\ d \in Nat
        /\ n < k => d + PacketSize <= c
        /\ k < n => c + PacketSize <= d
    BY <1>5, Times
  <2>2. c < d + HeaderLength /\ Len(s) = d
    BY <1>12, <1>13
  <2>3. k <= n
    <3> HIDE DEF c, d
    <3> QED
      BY <1>4, <1>5, <2>1, <2>2
  <2>4. CASE k < n
    <3>1. c < Len(s) /\ c + 1 \in 1 .. Len(s)
      <4> HIDE DEF c, d
      <4> QED
        BY <1>5, <2>1, <2>2, <2>4
    <3>2. s[c + 1] = 71
      BY <3>1 DEF IInv, Marked, s
    <3> QED
      BY <1>12, <3>1, <3>2
  <2>5. CASE k = n
    <3>1. c = Len(s) /\ 1 \in 1 .. Len(b)
      BY <1>4, <2>2, <2>5 DEF b
    <3>2. b[1] = 71
      BY <1>4 DEF b
    <3> QED
      BY <1>12, <3>1, <3>2
  <2>6. k < n \/ k = n
    <3> HIDE DEF c, d
    <3> QED
      BY <2>3
  <2> QED
    BY <2>4, <2>5, <2>6
<1>16. Room'
  <2>1. x + Len(out') <= OutCap + y + HeaderLength
    BY <1>3, <1>4, <1>5, <1>6, <1>11
  <2>2. PesLength(in') = PesLength(in) /\ i' = i
    BY <1>2
  <2> QED
    BY <1>7, <2>1, <2>2 DEF Room, x, y
<1>17. Following' /\ Bounded'
  BY <1>2 DEF IInv, Following, Bounded
<1> QED
  BY <1>1, <1>14, <1>15, <1>16, <1>17 DEF IInv

\* The payload: the packet is full.
LEMMA AlignedData ==
  ASSUME IInv, WriteData
  PROVE  IInv'
<1>1. Typed /\ Typed'
  BY TypedData DEF IInv
<1>2. /\ pc = "data" /\ pc' = "head" /\ i' = i + 1
      /\ out' = Put(DataBytes)
      /\ UNCHANGED <<sent, pending, in, played>>
  BY DEF WriteData, RemuxKeeps, DataBytes
<1>3. Len(in) >= 6 /\ Rest > 0 /\ out \in Seq(Int) /\ played \in Seq(Int) /\ Len(out) \in Nat
      /\ OutCap \in Nat /\ i \in Nat
  BY <1>1, <1>2, SizeAssumption DEF Typed
<1>4. /\ DataBytes \in Seq(Int) /\ Len(DataBytes) = PacketSize - HeaderLength
      /\ HeaderLength \in Nat \ {0} /\ HeaderLength < PacketSize
  BY <1>1, <1>2, <1>3, Header, Data
<1> DEFINE x == PacketCount(PesLength(in)) * PacketSize
           y == i * PacketSize
           b == DataBytes
           s == played \o out
<1>5. x \in Nat /\ y \in Nat /\ PacketSize \in Nat \ {0} /\ y + PacketSize <= x
  BY <1>1, <1>2, <1>3, ToCome
<1>6. x + Len(out) <= OutCap + y + HeaderLength
  BY <1>2 DEF IInv, Room, Begun
<1>7. Begun = HeaderLength /\ Begun' = 0
  BY <1>2 DEF Begun
<1>8. s \in Seq(Int) /\ Len(s) \in Nat
  BY <1>3
<1> HIDE DEF x, y, b, s
<1>9. Len(b) <= OutCap - Len(out)
  BY <1>3, <1>4, <1>5, <1>6 DEF b
<1>10. played' \o out' = s \o b /\ Len(out') = Len(out) + (PacketSize - HeaderLength)
  BY <1>1, <1>2, <1>4, <1>9, Written DEF b, s
<1>11. /\ Len(s \o b) = Len(s) + (PacketSize - HeaderLength)
       /\ \A k \in 1 .. Len(s) : (s \o b)[k] = s[k]
  <2>1. b \in Seq(Int) /\ Len(b) = PacketSize - HeaderLength
    BY <1>4 DEF b
  <2>2. /\ Len(s \o b) = Len(s) + Len(b)
        /\ \A k \in 1 .. Len(s) : (s \o b)[k] = s[k]
    BY <1>8, <2>1, Cat
  <2> QED
    BY <2>1, <2>2
<1>12. PICK n \in Nat : Len(s) = n * PacketSize + HeaderLength
  BY <1>7 DEF IInv, Whole, s
<1>13. /\ (n + 1) * PacketSize = n * PacketSize + PacketSize
       /\ (i + 1) * PacketSize = y + PacketSize /\ n * PacketSize \in Nat
  BY <1>3, <1>5, Times DEF y
<1>14. Whole'
  <2>1. Len(s \o b) = (n + 1) * PacketSize + 0
    <3> DEFINE d == n * PacketSize
    <3>1. (n + 1) * PacketSize = d + PacketSize /\ d \in Nat /\ Len(s) = d + HeaderLength
      BY <1>12, <1>13
    <3> HIDE DEF d
    <3> QED
      BY <1>4, <1>5, <1>11, <3>1
  <2> QED
    BY <1>7, <1>10, <2>1 DEF Whole
<1>15. Marked'
  <2> SUFFICES ASSUME NEW k \in Nat, k * PacketSize < Len(s \o b)
               PROVE  (s \o b)[k * PacketSize + 1] = 71
    BY <1>10, ZenonT(60) DEF Marked
  <2> DEFINE c == k * PacketSize
             d == n * PacketSize
  <2>1. /\ c \in Nat /\ d \in Nat
        /\ k <= n => c <= d
        /\ n < k => d + PacketSize <= c
    BY <1>5, Times
  <2>2. c < d + PacketSize /\ Len(s) = d + HeaderLength
    <3>1. d \in Nat /\ Len(s \o b) = Len(s) + (PacketSize - HeaderLength)
      BY <1>11, <2>1
    <3>2. Len(s) = d + HeaderLength /\ c < Len(s \o b)
      BY <1>12
    <3> HIDE DEF c, d
    <3> QED
      BY <1>4, <1>5, <3>1, <3>2
  <2>3. c < Len(s) /\ c + 1 \in 1 .. Len(s)
    <3> HIDE DEF c, d
    <3> QED
      BY <1>4, <1>5, <2>1, <2>2
  <2>4. s[c + 1] = 71
    BY <2>3 DEF IInv, Marked, s
  <2> QED
    BY <1>11, <2>3, <2>4
<1>16. Room'
  <2>1. x + Len(out') <= OutCap + (y + PacketSize) + 0
    BY <1>3, <1>4, <1>5, <1>6, <1>10
  <2>2. PesLength(in') = PesLength(in) /\ i' * PacketSize = y + PacketSize
    BY <1>2, <1>13
  <2> QED
    BY <1>7, <2>1, <2>2 DEF Room, x
<1>17. Following' /\ Bounded'
  BY <1>2 DEF IInv, Following, Bounded
<1> QED
  BY <1>1, <1>14, <1>15, <1>16, <1>17 DEF IInv

\* Every step.
LEMMA AlignedNext ==
  ASSUME Fitting, IInv, [Next]_vars
  PROVE  IInv'
<1>1. CASE Next
  BY <1>1, AlignedFeed, AlignedTake, AlignedGarbage, AlignedStart, AlignedHeader, AlignedData
     DEF Next, Remux
<1>2. CASE UNCHANGED vars
  <2>1. Typed'
    BY <1>2, TypedNext DEF IInv
  <2>2. Begun' = Begun
    BY <1>2 DEF vars, Begun, HeaderLength, Rest
  <2> QED
    BY <1>2, <2>1, <2>2 DEF vars, IInv, Following, Bounded, Room, Whole, Marked
<1> QED
  BY <1>1, <1>2

\* Blocks are parts of a whole number of packets.
LEMMA BlocksStart ==
  ASSUME IInv
  PROVE  BlocksAligned
<1>1. played \in Seq(Int) /\ out \in Seq(Int) /\ PacketSize \in Nat \ {0}
  BY SizeAssumption DEF IInv, Typed, PacketSize, HeaderSize
<1> DEFINE l == Len(played)
           m == l \div PacketSize
<1>2. l \in Nat /\ Len(out) \in Nat
  BY <1>1
<1>3. DOMAIN TsPackets(played) = 1 .. m
  BY DEF TsPackets
<1>4. l = PacketSize * m + (l % PacketSize) /\ l % PacketSize \in Nat /\ m \in Nat
  <2> HIDE DEF l
  <2>1. l = PacketSize * (l \div PacketSize) + (l % PacketSize)
        /\ l % PacketSize \in 0 .. PacketSize - 1 /\ l \div PacketSize \in Nat
    BY <1>1, <1>2, DivMod
  <2>2. l % PacketSize \in Nat
    BY <1>1, <2>1
  <2> QED
    BY <2>1, <2>2
<1> SUFFICES ASSUME NEW k \in 1 .. m PROVE played[(k - 1) * PacketSize + 1] = 71
  BY <1>3 DEF BlocksAligned
<1> HIDE DEF m
<1> DEFINE j == k - 1
           c == j * PacketSize
<1>5. j \in Nat /\ j < m
  BY <1>4
<1> HIDE DEF j
<1>6. c \in Nat /\ c + PacketSize <= m * PacketSize /\ m * PacketSize = PacketSize * m
      /\ m * PacketSize \in Nat
  BY <1>1, <1>4, <1>5, Times
<1> HIDE DEF c, l
<1>7. c < l /\ c + 1 \in 1 .. l
  BY <1>1, <1>2, <1>4, <1>6
<1>8. /\ Len(played \o out) = l + Len(out)
      /\ \A q \in 1 .. l : (played \o out)[q] = played[q]
  BY <1>1, Cat DEF l
<1>9. c < Len(played \o out)
  BY <1>2, <1>6, <1>7, <1>8
<1>10. (played \o out)[c + 1] = 71
  BY <1>5, <1>9 DEF IInv, Marked, c
<1> QED
  BY <1>7, <1>8, <1>10 DEF c, j

\* Each block the driver gets (vdrviewer.cpp:1660) is whole TS packets, and what
\* remux writes is never cut off by a full ring, if nothing in the stream looks
\* like a packet of more than MinIn bytes.
THEOREM BlocksWhole == ASSUME Tame PROVE Spec => []BlocksAligned
<1>1. Init => IInv
  BY AlignedInit
<1>2. IInv /\ [Next]_vars => IInv'
  BY AlignedNext, Fits DEF IInv
<1> QED
  BY <1>1, <1>2, BlocksStart, PTL DEF Spec

--------------------------------------------------------------------------------
(***************************************************************************)
(* What arrives.                                                           *)
(***************************************************************************)
\* What of a script follows its first k pieces.
Behind(script, k) == FlattenSeq(SubSeq(script, k + 1, Len(script)))

\* No packet seems to begin in a piece that is none, whatever comes behind it.
\* (Inside of packets there may be anything.)
Clear ==
  \A script \in Scripts : \A k \in DOMAIN script :
    ~ Seems(script[k]) => \A n \in 0 .. Len(script[k]) - 1 :
      ~ Seems(SubSeq(script[k], n + 1, Len(script[k])) \o Behind(script, k))

\* k pieces of the script are through, but for a rest of the last that is no packet.
Within(k) ==
  \/ in \o pending = Behind(sent, k)
  \/ k > 0 /\ ~ Seems(sent[k]) /\ \E n \in 1 .. Len(sent[k]) - 1 :
       in \o pending = SubSeq(sent[k], n + 1, Len(sent[k])) \o Behind(sent, k)

\* The one that is cut up is a whole packet, the next one.
Cutting(k) ==
  pc \in {"head", "data"} =>
    k < Len(sent) /\ Seems(sent[k + 1]) /\ sent[k + 1][4] # PaddingId
    /\ in \o pending = Behind(sent, k)

\* What of it is written.
CutAt == IF Rest >= 0 THEN i * PayloadSize ELSE PesLength(in)
Cut(pid) == IF pc \in {"head", "data"} /\ pid = Pid THEN SubSeq(in, 1, CutAt) ELSE << >>

Through(k) ==
  /\ Within(k) /\ Cutting(k)
  /\ \A pid \in Pids : Carried(Stream, pid) = Brought(k, pid) \o Cut(pid)
Delivered == \E k \in 0 .. Len(sent) : Through(k)

\* remux scans where no packet begins.
Scanning == pc = "scan" => Len(in) >= 3 /\ ~ StartCode

\* The header that is written, with the counter it has.
HeaderWith(c) ==
  IF Rest >= PayloadSize THEN <<71, UnitStart, Pid, 16 + c>>
  ELSE <<71, UnitStart, Pid, 48 + c, PayloadSize - 1 - Rest>>
         \o [k \in 1 .. PayloadSize - 1 - Rest |-> IF k = 1 THEN 0 ELSE 255]
Opened(c) ==
  \E s \in Seq(Int), n \in Nat :
    Len(s) = n * PacketSize /\ played \o out = s \o HeaderWith(c)

\* Each counter is the next after that of the last packet of its PID.
IsLast(ps, j, pid) == ps[j][3] = pid /\ \A l \in j + 1 .. Len(ps) : ps[l][3] # pid
Due(pid, c) == IF pc = "data" /\ pid = Pid THEN c ELSE counters[pid]
Numbered ==
  \E c \in 0 .. CounterSize - 1 :
    /\ pc = "data" => counters[Pid] = (c + 1) % CounterSize /\ Opened(c)
    /\ \A pid \in Pids : \A j \in 1 .. Len(Stream) :
         IsLast(Stream, j, pid) => ((Stream[j][4] % 16) + 1) % CounterSize = Due(pid, c)

\* Payloads are bytes.
Regular(ps) == \A k \in 1 .. Len(ps) : Payload(ps[k]) \in Seq(Int)

JInv == IInv /\ Scanning /\ Delivered /\ Numbered /\ Regular(Stream) /\ PacketsMarked

\* What is put in front is a prefix.
LEMMA InFront ==
  ASSUME NEW S, NEW a \in Seq(S), NEW b \in Seq(S)
  PROVE  IsPrefix(a, a \o b)
<1>1. Len(a \o b) = Len(a) + Len(b) /\ Len(a) \in Nat /\ Len(b) \in Nat
  OBVIOUS
<1>2. SubSeq(a \o b, 1, Len(a)) = a /\ SubSeq(a, 1, Len(a)) = a
  OBVIOUS
<1> QED
  BY <1>1, <1>2 DEF IsPrefix

\* How many whole ones.
LEMMA Quotient ==
  ASSUME NEW n \in Nat, NEW p \in Nat \ {0}, NEW r \in 0 .. p - 1
  PROVE  (n * p + r) \div p = n
<1> DEFINE a == n * p + r
           q == a \div p
<1>1. a \in Nat /\ n * p \in Nat
  BY Times
<1> HIDE DEF a
<1>2. a = p * q + (a % p) /\ a % p \in 0 .. p - 1 /\ q \in Nat
  BY <1>1, DivMod
<1> HIDE DEF q
<1>3. p * q = q * p /\ q * p \in Nat
  BY <1>2, Times
<1>4. ~ q < n
  <2>1. q < n => q * p + p <= n * p
    BY <1>2, Times
  <2>2. a >= n * p
    BY <1>1 DEF a
  <2> QED
    BY <1>1, <1>2, <1>3, <2>1, <2>2
<1>5. ~ n < q
  <2>1. n < q => n * p + p <= q * p
    BY <1>2, Times
  <2>2. a <= n * p + (p - 1)
    BY <1>1 DEF a
  <2> QED
    BY <1>1, <1>2, <1>3, <2>1, <2>2
<1> QED
  BY <1>2, <1>4, <1>5 DEF a, q

\* The packets of whole ones and the begin of another, and of one more.
LEMMA Packets ==
  ASSUME NEW s \in Seq(Int), NEW b \in Seq(Int), NEW n \in Nat, Len(s) = n * PacketSize,
         Len(b) <= PacketSize
  PROVE  /\ TsPackets(s) \in Seq(Seq(Int)) /\ Len(TsPackets(s)) = n
         /\ Len(b) < PacketSize => TsPackets(s \o b) = TsPackets(s)
         /\ Len(b) = PacketSize => TsPackets(s \o b) = Append(TsPackets(s), b)
<1> DEFINE z == PacketSize
           u == s \o b
<1>1. z \in Nat \ {0}
  BY SizeAssumption DEF PacketSize, HeaderSize
<1>2. /\ u \in Seq(Int) /\ Len(u) = n * z + Len(b) /\ Len(b) \in 0 .. z
      /\ \A k \in 1 .. n * z : u[k] = s[k]
      /\ \A k \in 1 .. Len(b) : u[n * z + k] = b[k]
  <2>1. /\ u \in Seq(Int) /\ Len(u) = Len(s) + Len(b)
        /\ \A k \in 1 .. Len(s) : u[k] = s[k]
        /\ \A k \in 1 .. Len(b) : u[Len(s) + k] = b[k]
    <3>1. u \in Seq(Int) /\ Len(u) = Len(s) + Len(b) /\ \A k \in 1 .. Len(s) : u[k] = s[k]
      BY Cat
    <3>2. \A k \in 1 .. Len(b) : u[Len(s) + k] = b[k]
      BY Cat
    <3> QED
      BY <3>1, <3>2
  <2>2. Len(s) = n * z /\ Len(b) <= z /\ Len(b) \in Nat
    OBVIOUS
  <2> HIDE DEF u, z
  <2>3. Len(b) \in 0 .. z
    BY <1>1, <2>2
  <2> QED
    BY <2>1, <2>2, <2>3
<1>3. n * z \in Nat /\ (n + 1) * z = n * z + z
  BY <1>1, Times
<1>4. TsPackets(s) = [k \in 1 .. n |-> TsPacket(s, k)]
  <2>1. (n * z + 0) \div z = n
    BY <1>1, Quotient
  <2>2. Len(s) \div z = n
    BY <1>3, <2>1
  <2> QED
    BY <2>2 DEF TsPackets
<1> HIDE DEF z, u
<1>5. ASSUME NEW k \in 1 .. n PROVE TsPacket(s, k) \in Seq(Int) /\ TsPacket(u, k) = TsPacket(s, k)
  <2> DEFINE j == k - 1
             a == j * z
  <2>1. j \in Nat /\ j < n /\ k = j + 1
    OBVIOUS
  <2>2. a \in Nat /\ k * z = a + z /\ a + z <= n * z
    BY <1>1, <2>1, Times
  <2>3. TsPacket(s, k) = SubSeq(s, a + 1, k * z) /\ TsPacket(u, k) = SubSeq(u, a + 1, k * z)
    BY DEF TsPacket, z
  <2> HIDE DEF a, j
  <2> DEFINE m == a + 1
             e == k * z
             l == n * z
  <2>4. m \in Nat \ {0} /\ e \in Nat /\ e <= l /\ m <= e + 1 /\ l <= Len(u) /\ Len(s) = l
    BY <1>1, <1>2, <1>3, <2>2 DEF z
  <2> HIDE DEF m, e
  <2>5. SubSeq(s, m, e) \in Seq(Int) /\ Len(SubSeq(s, m, e)) = e - m + 1
        /\ \A q \in 1 .. e - m + 1 : SubSeq(s, m, e)[q] = s[m + q - 1]
    BY <2>4, Part
  <2>6. SubSeq(u, m, e) \in Seq(Int) /\ Len(SubSeq(u, m, e)) = e - m + 1
        /\ \A q \in 1 .. e - m + 1 : SubSeq(u, m, e)[q] = u[m + q - 1]
    <3>1. e <= Len(u)
      BY <1>2, <2>4
    <3> QED
      BY <1>2, <2>4, <3>1, Part
  <2>7. \A q \in 1 .. e - m + 1 : u[m + q - 1] = s[m + q - 1]
    <3> SUFFICES ASSUME NEW q \in 1 .. e - m + 1 PROVE u[m + q - 1] = s[m + q - 1]
      OBVIOUS
    <3>1. m + q - 1 \in 1 .. l
      BY <1>3, <2>4
    <3> QED
      BY <1>2, <3>1
  <2>8. SubSeq(u, m, e) = SubSeq(s, m, e)
    BY <2>5, <2>6, <2>7, SeqEqual
  <2> QED
    BY <2>3, <2>5, <2>8 DEF m, e
<1>6. TsPackets(s) \in Seq(Seq(Int)) /\ Len(TsPackets(s)) = n
  BY <1>4, <1>5
<1>7. ASSUME Len(b) < z PROVE TsPackets(u) = TsPackets(s)
  <2>1. Len(u) \div z = n
    <3>1. Len(b) \in 0 .. z - 1
      BY <1>1, <1>2, <1>7
    <3>2. (n * z + Len(b)) \div z = n
      BY <1>1, <3>1, Quotient
    <3> QED
      BY <1>2, <3>2
  <2>2. TsPackets(u) = [k \in 1 .. n |-> TsPacket(u, k)]
    BY <2>1 DEF TsPackets, z
  <2> QED
    BY <1>4, <1>5, <2>2
<1>8. ASSUME Len(b) = z PROVE TsPackets(u) = Append(TsPackets(s), b)
  <2>1. Len(u) \div z = n + 1
    <3>1. ((n + 1) * z + 0) \div z = n + 1 /\ (n + 1) * z \in Nat
      BY <1>1, Quotient, Times
    <3>2. Len(u) = (n + 1) * z + 0
      BY <1>1, <1>2, <1>3, <1>8
    <3> QED
      BY <3>1, <3>2
  <2>2. TsPackets(u) = [k \in 1 .. n + 1 |-> TsPacket(u, k)]
    BY <2>1 DEF TsPackets, z
  <2>3. TsPacket(u, n + 1) = b
    <3> DEFINE l == n * z
    <3>1. TsPacket(u, n + 1) = SubSeq(u, l + 1, l + z)
      <4>1. (n + 1) - 1 = n
        OBVIOUS
      <4> QED
        BY <1>3, <4>1 DEF TsPacket, z
    <3>2. l \in Nat /\ Len(u) = l + z /\ \A k \in 1 .. z : u[l + k] = b[k]
      BY <1>2, <1>3, <1>8
    <3> HIDE DEF l
    <3> DEFINE m == l + 1
               e == l + z
    <3>3. m \in Nat \ {0} /\ e \in Nat /\ e <= Len(u) /\ m <= e + 1 /\ e - m + 1 = z
          /\ \A k \in 1 .. z : m + k - 1 = l + k
      BY <1>1, <3>2
    <3> HIDE DEF m, e
    <3>4. SubSeq(u, m, e) \in Seq(Int) /\ Len(SubSeq(u, m, e)) = e - m + 1
          /\ \A q \in 1 .. e - m + 1 : SubSeq(u, m, e)[q] = u[m + q - 1]
      BY <1>2, <3>3, Part
    <3> DEFINE w == SubSeq(u, m, e)
    <3>5. w \in Seq(Int) /\ Len(w) = z
      BY <3>3, <3>4
    <3>6. \A k \in 1 .. z : w[k] = b[k]
      BY <3>2, <3>3, <3>4
    <3> HIDE DEF w
    <3>7. w = b
      BY <1>8, <3>5, <3>6, SeqEqual
    <3> QED
      BY <3>1, <3>7 DEF m, e, w
  <2> DEFINE v == Append(TsPackets(s), b)
             w == TsPackets(u)
  <2>4. v \in Seq(Seq(Int)) /\ Len(v) = n + 1 /\ v[n + 1] = b
        /\ \A k \in 1 .. n : v[k] = TsPackets(s)[k]
    BY <1>6
  <2>5. w \in Seq(Seq(Int)) /\ Len(w) = n + 1
    <3>1. ASSUME NEW k \in 1 .. n + 1 PROVE TsPacket(u, k) \in Seq(Int)
      <4>1. CASE k = n + 1
        BY <2>3, <4>1
      <4>2. CASE k # n + 1
        <5>1. k \in 1 .. n
          BY <4>2
        <5> QED
          BY <1>5, <5>1
      <4> QED
        BY <4>1, <4>2
    <3> QED
      BY <2>2, <3>1
  <2>6. \A k \in 1 .. n + 1 : w[k] = v[k]
    <3> SUFFICES ASSUME NEW k \in 1 .. n + 1 PROVE w[k] = v[k]
      OBVIOUS
    <3>1. w[k] = TsPacket(u, k)
      BY <2>2
    <3>2. CASE k = n + 1
      BY <2>3, <2>4, <3>1, <3>2
    <3>3. CASE k # n + 1
      <4>1. k \in 1 .. n
        BY <3>3
      <4>2. v[k] = TsPacket(s, k)
        BY <1>4, <2>4, <4>1
      <4> QED
        BY <1>5, <3>1, <4>1, <4>2
    <3> QED
      BY <3>2, <3>3
  <2> HIDE DEF v, w
  <2>7. w = v
    BY <2>4, <2>5, <2>6, SeqEqual
  <2> QED
    BY <2>7 DEF v, w
<1> QED
  BY <1>6, <1>7, <1>8 DEF u, z

\* What is carried by one packet more.
LEMMA CarriedMore ==
  ASSUME NEW ps \in Seq(Seq(Int)), Regular(ps), NEW p \in Seq(Int), Payload(p) \in Seq(Int),
         NEW pid
  PROVE  /\ Carried(ps, pid) \in Seq(Int)
         /\ Carried(Append(ps, p), pid)
              = Carried(ps, pid) \o (IF p[3] = pid THEN Payload(p) ELSE << >>)
<1> DEFINE n == Len(ps)
           Of(q) == IF q[3] = pid THEN Payload(q) ELSE << >>
           a == [k \in 1 .. n |-> Of(ps[k])]
           Nth(k) == Of(Append(ps, p)[k])
           b == [k \in 1 .. n + 1 |-> Nth(k)]
<1>1. n \in Nat /\ \A k \in 1 .. n : Append(ps, p)[k] = ps[k]
  OBVIOUS
<1>2. Append(ps, p)[n + 1] = p /\ DOMAIN Append(ps, p) = 1 .. n + 1 /\ DOMAIN ps = 1 .. n
  OBVIOUS
<1>3. Carried(ps, pid) = FlattenSeq(a) /\ Carried(Append(ps, p), pid) = FlattenSeq(b)
  BY <1>2 DEF Carried
<1>4. \A k \in 1 .. n : Of(ps[k]) \in Seq(Int)
  BY DEF Regular
<1>5. Of(p) \in Seq(Int)
  OBVIOUS
<1> HIDE DEF n, Of
<1>6. a \in Seq(Seq(Int)) /\ Len(a) = n
  BY <1>1, <1>4
<1>7. b = Append(a, Of(p))
  <2>1. ASSUME NEW k \in 1 .. n PROVE b[k] = a[k]
    <3>0. Append(ps, p)[k] = ps[k]
      BY <1>1, Zenon
    <3>1. k \in 1 .. n + 1
      BY <1>1
    <3>2. b[k] = Of(Append(ps, p)[k]) /\ a[k] = Of(ps[k])
      BY <3>1
    <3> QED
      BY <3>0, <3>2
  <2>2. b[n + 1] = Of(p)
    BY <1>1, <1>2
  <2>3. Len(b) = n + 1 /\ DOMAIN b = 1 .. n + 1
    BY <1>1
  <2> DEFINE c == Append(a, Of(p))
  <2>4. DOMAIN c = 1 .. n + 1 /\ c[n + 1] = Of(p) /\ \A k \in 1 .. n : c[k] = a[k]
    BY <1>1, <1>5, <1>6
  <2>5. ASSUME NEW k \in 1 .. n + 1 PROVE b[k] = c[k]
    <3>1. k \in 1 .. n \/ k = n + 1
      BY <1>1
    <3> HIDE DEF b, c
    <3> QED
      BY <2>1, <2>2, <2>4, <3>1
  <2>6. c \in Seq(Seq(Int)) /\ Len(c) = n + 1
    BY <1>1, <1>5, <1>6
  <2>7. b \in Seq(Seq(Int))
    <3>1. \A k \in 1 .. n + 1 : c[k] \in Seq(Int)
      <4> HIDE DEF c
      <4> QED
        BY <2>6
    <3>2. \A k \in 1 .. n + 1 : b[k] \in Seq(Int)
      <4> HIDE DEF b, c
      <4> QED
        BY <2>5, <3>1
    <3>3. b = [k \in 1 .. n + 1 |-> b[k]]
      OBVIOUS
    <3> HIDE DEF b, c
    <3>4. b \in [1 .. n + 1 -> Seq(Int)]
      BY <3>2, <3>3, Zenon
    <3>5. n + 1 \in Nat
      BY <1>1
    <3> QED
      BY <3>4, <3>5, Listed, Zenon
  <2> HIDE DEF b, c
  <2>8. b = c
    BY <2>3, <2>5, <2>6, <2>7, SeqEqual
  <2> QED
    BY <2>8 DEF c
<1> HIDE DEF a, b
<1>8. FlattenSeq(a) \in Seq(Int) /\ FlattenSeq(Append(a, Of(p))) = FlattenSeq(a) \o Of(p)
  BY <1>5, <1>6, FlattenAppend
<1> QED
  BY <1>3, <1>7, <1>8 DEF Of

\* Nothing is carried by nothing.
LEMMA CarriedNone ==
  ASSUME NEW pid
  PROVE  Carried(<< >>, pid) = << >>
<1> DEFINE a == [k \in DOMAIN << >> |-> IF << >>[k][3] = pid THEN Payload(<< >>[k]) ELSE << >>]
<1>1. a = << >>
  OBVIOUS
<1>2. FlattenSeq(<< >>) = << >>
  BY DEF FlattenSeq
<1> QED
  BY <1>1, <1>2 DEF Carried

\* What a piece is for a PID.
Piece(k, pid) == IF IsFor(sent[k], pid) THEN sent[k] ELSE << >>

\* What more pieces bring.
LEMMA BroughtMore ==
  ASSUME sent \in Scripts, NEW m \in Nat, NEW n \in Nat, m <= n, n <= Len(sent), NEW pid
  PROVE  /\ Brought(m, pid) \in Seq(Byte) /\ Brought(n, pid) \in Seq(Byte)
         /\ \E x \in Seq(Byte) : Brought(n, pid) = Brought(m, pid) \o x
<1> DEFINE a == [k \in 1 .. m |-> Piece(k, pid)]
           b == [k \in 1 .. n |-> Piece(k, pid)]
           c == [k \in 1 .. n - m |-> Piece(m + k, pid)]
<1>1. Brought(m, pid) = FlattenSeq(a) /\ Brought(n, pid) = FlattenSeq(b)
  BY DEF Brought, Piece
<1>2. \A k \in 1 .. Len(sent) : Piece(k, pid) \in Seq(Byte)
  BY ScriptBytes DEF Piece
<1>3. Len(sent) \in Nat
  BY ScriptBytes
<1>4. a \in Seq(Seq(Byte)) /\ Len(a) = m /\ b \in Seq(Seq(Byte)) /\ Len(b) = n
  BY <1>2, <1>3
<1>5. c \in Seq(Seq(Byte)) /\ Len(c) = n - m
  BY <1>2, <1>3
<1>6. b = a \o c
  <2>1. /\ a \o c \in Seq(Seq(Byte)) /\ Len(a \o c) = n
        /\ \A k \in 1 .. m : (a \o c)[k] = a[k]
    BY <1>4, <1>5, Cat
  <2>2. \A k \in 1 .. n - m : (a \o c)[m + k] = c[k]
    BY <1>4, <1>5, Cat
  <2>3. ASSUME NEW k \in 1 .. n PROVE b[k] = (a \o c)[k]
    <3>1. CASE k <= m
      <4>1. k \in 1 .. m
        BY <3>1
      <4> QED
        BY <2>1, <4>1
    <3>2. CASE k > m
      <4>1. k - m \in 1 .. n - m /\ m + (k - m) = k
        BY <3>2
      <4>2. (a \o c)[m + (k - m)] = c[k - m]
        BY <2>2, <4>1
      <4>3. c[k - m] = Piece(m + (k - m), pid)
        BY <4>1
      <4> QED
        BY <4>1, <4>2, <4>3
    <3> QED
      BY <3>1, <3>2
  <2> HIDE DEF a, b, c
  <2> QED
    BY <1>4, <2>1, <2>3, SeqEqual
<1> HIDE DEF a, b, c
<1>7. /\ FlattenSeq(a) \in Seq(Byte) /\ FlattenSeq(c) \in Seq(Byte)
      /\ FlattenSeq(a \o c) = FlattenSeq(a) \o FlattenSeq(c)
  BY <1>4, <1>5, FlattenCat
<1>8. FlattenSeq(b) \in Seq(Byte)
  BY <1>6, <1>7
<1> QED
  BY <1>1, <1>6, <1>7, <1>8

\* What one piece more brings.
LEMMA BroughtOne ==
  ASSUME sent \in Scripts, NEW n \in Nat, n < Len(sent), NEW pid
  PROVE  /\ Brought(0, pid) = << >> /\ Brought(n, pid) \in Seq(Byte)
         /\ Brought(n + 1, pid) = Brought(n, pid) \o Piece(n + 1, pid)
<1> DEFINE a == [k \in 1 .. n |-> Piece(k, pid)]
           b == [k \in 1 .. n + 1 |-> Piece(k, pid)]
           x == Piece(n + 1, pid)
<1>1. Brought(n, pid) = FlattenSeq(a) /\ Brought(n + 1, pid) = FlattenSeq(b)
  BY DEF Brought, Piece
<1>2. \A k \in 1 .. Len(sent) : Piece(k, pid) \in Seq(Byte)
  BY ScriptBytes DEF Piece
<1>3. Len(sent) \in Nat
  BY ScriptBytes
<1>4. a \in Seq(Seq(Byte)) /\ Len(a) = n /\ x \in Seq(Byte) /\ b \in Seq(Seq(Byte))
      /\ Len(b) = n + 1
  BY <1>2, <1>3
<1>5. b = Append(a, x)
  <2>1. SubSeq(b, 1, n) \in Seq(Seq(Byte)) /\ Len(SubSeq(b, 1, n)) = n
        /\ b = Append(SubSeq(b, 1, n), b[n + 1])
    <3> HIDE DEF b
    <3> QED
      BY <1>4, LastOne
  <2>2. b[n + 1] = x
    OBVIOUS
  <2>3. \A k \in 1 .. n : SubSeq(b, 1, n)[k] = a[k]
    <3>1. \A k \in 1 .. n : b[k] = a[k]
      OBVIOUS
    <3> HIDE DEF a, b
    <3> QED
      BY <1>4, <3>1
  <2> HIDE DEF a, b, x
  <2>4. SubSeq(b, 1, n) = a
    BY <1>4, <2>1, <2>3, SeqEqual
  <2> QED
    BY <2>1, <2>2, <2>4
<1> HIDE DEF a, b, x
<1>6. FlattenSeq(a) \in Seq(Byte) /\ FlattenSeq(Append(a, x)) = FlattenSeq(a) \o x
  BY <1>4, FlattenAppend
<1>7. Brought(0, pid) = << >>
  <2>1. FlattenSeq(<< >>) = << >>
    BY DEF FlattenSeq
  <2>2. [k \in 1 .. 0 |-> Piece(k, pid)] = << >>
    OBVIOUS
  <2> QED
    BY <2>1, <2>2 DEF Brought, Piece
<1> QED
  BY <1>1, <1>5, <1>6, <1>7 DEF x

\* What is behind, piece by piece.
LEMMA BehindMore ==
  ASSUME NEW script \in Scripts, NEW k \in 0 .. Len(script)
  PROVE  /\ Behind(script, k) \in Seq(Byte)
         /\ Behind(script, 0) = FlattenSeq(script)
         /\ Behind(script, Len(script)) = << >>
         /\ k < Len(script) => Behind(script, k) = script[k + 1] \o Behind(script, k + 1)
<1> DEFINE n == Len(script)
           t == SubSeq(script, k + 1, n)
<1>1. script \in Seq(Seq(Byte)) /\ n \in Nat /\ << >> \in Seq(Byte)
  BY ScriptBytes
<1>2. t \in Seq(Seq(Byte))
  <2> HIDE DEF n
  <2>1. k + 1 \in Nat \ {0} /\ n \in Nat /\ n <= Len(script) /\ k + 1 <= n + 1
    BY <1>1 DEF n
  <2> QED
    BY <1>1, <2>1, Part
<1>3. Behind(script, k) \in Seq(Byte)
  BY <1>1, <1>2, FlattenAppend DEF Behind
<1>4. Behind(script, 0) = FlattenSeq(script)
  <2>1. SubSeq(script, 0 + 1, n) = script
    BY <1>1, SubSeqFull
  <2> QED
    BY <2>1 DEF Behind
<1>5. Behind(script, n) = << >>
  <2>1. SubSeq(script, n + 1, n) = << >>
    BY <1>1, SubSeqEmpty
  <2>2. FlattenSeq(<< >>) = << >>
    BY DEF FlattenSeq
  <2> QED
    BY <2>1, <2>2 DEF Behind
<1>6. ASSUME k < n PROVE Behind(script, k) = script[k + 1] \o Behind(script, k + 1)
  <2> DEFINE x == script[k + 1]
             u == SubSeq(script, k + 1 + 1, n)
             y == Append(<< >>, x)
  <2>1. x \in Seq(Byte)
    BY <1>1, <1>6
  <2>2. u \in Seq(Seq(Byte)) /\ Len(u) = n - k - 1
        /\ \A q \in 1 .. n - k - 1 : u[q] = script[k + 1 + q]
    BY <1>1, <1>6
  <2>3. t \in Seq(Seq(Byte)) /\ Len(t) = n - k /\ \A q \in 1 .. n - k : t[q] = script[k + q]
    BY <1>1, <1>6
  <2>4. y \in Seq(Seq(Byte)) /\ Len(y) = 1 /\ y[1] = x
    BY <2>1
  <2> HIDE DEF t, u, x, y
  <2>5. y \o u \in Seq(Seq(Byte)) /\ Len(y \o u) = n - k /\ (y \o u)[1] = x
        /\ \A q \in 1 .. n - k - 1 : (y \o u)[1 + q] = u[q]
    <3>1. /\ y \o u \in Seq(Seq(Byte)) /\ Len(y \o u) = Len(y) + Len(u)
          /\ \A q \in 1 .. Len(y) : (y \o u)[q] = y[q]
      BY <2>2, <2>4, Cat
    <3>2. \A q \in 1 .. Len(u) : (y \o u)[Len(y) + q] = u[q]
      <4>1. y \in Seq(Seq(Byte)) /\ u \in Seq(Seq(Byte))
        BY <2>2, <2>4
      <4> QED
        BY <4>1, Cat
    <3>3. Len(y \o u) = n - k /\ 1 \in 1 .. Len(y)
      BY <1>1, <2>2, <2>4, <3>1
    <3> QED
      BY <2>2, <2>4, <3>1, <3>2, <3>3
  <2>6. ASSUME NEW q \in 1 .. n - k PROVE t[q] = (y \o u)[q]
    <3>1. CASE q = 1
      BY <2>3, <2>5, <3>1 DEF x
    <3>2. CASE q # 1
      <4>1. q - 1 \in 1 .. n - k - 1 /\ 1 + (q - 1) = q /\ k + 1 + (q - 1) = k + q
        BY <1>1, <3>2
      <4>2. (y \o u)[1 + (q - 1)] = u[q - 1] /\ u[q - 1] = script[k + 1 + (q - 1)]
        BY <2>2, <2>5, <4>1
      <4> QED
        BY <2>3, <4>1, <4>2
    <3> QED
      BY <3>1, <3>2
  <2>7. t = y \o u
    BY <2>3, <2>5, <2>6, SeqEqual
  <2>8. FlattenSeq(t) = FlattenSeq(y) \o FlattenSeq(u)
    BY <2>2, <2>4, <2>7, FlattenCat
  <2>9. FlattenSeq(y) = x
    <3>1. << >> \in Seq(Seq(Byte))
      OBVIOUS
    <3>2. FlattenSeq(<< >>) = << >> /\ FlattenSeq(y) = FlattenSeq(<< >>) \o x
      BY <2>1, <3>1, FlattenAppend DEF y
    <3> QED
      BY <2>1, <3>2
  <2> QED
    BY <2>8, <2>9 DEF Behind, t, u, x
<1> QED
  BY <1>3, <1>4, <1>5, <1>6

\* The second part of two.
LEMMA SecondPart ==
  ASSUME NEW S, NEW a \in Seq(S), NEW b \in Seq(S)
  PROVE  SubSeq(a \o b, Len(a) + 1, Len(a) + Len(b)) = b
<1> DEFINE m == Len(a) + 1
           n == Len(a) + Len(b)
           u == a \o b
           v == SubSeq(u, m, n)
<1>1. u \in Seq(S) /\ Len(u) = n /\ n \in Nat /\ m \in Nat \ {0} /\ m <= n + 1 /\ n <= Len(u)
      /\ n - m + 1 = Len(b)
  <2>1. Len(a) \in Nat /\ Len(b) \in Nat
    OBVIOUS
  <2>2. u \in Seq(S) /\ Len(u) = Len(a) + Len(b)
    BY Cat
  <2> HIDE DEF u
  <2> QED
    BY <2>1, <2>2
<1>2. \A k \in 1 .. Len(b) : u[Len(a) + k] = b[k]
  BY Cat
<1> HIDE DEF u
<1>3. v \in Seq(S) /\ Len(v) = n - m + 1 /\ \A k \in 1 .. n - m + 1 : v[k] = u[m + k - 1]
  BY <1>1, Part
<1> HIDE DEF v
<1>4. ASSUME NEW k \in 1 .. Len(b) PROVE v[k] = b[k]
  <2>1. m + k - 1 = Len(a) + k
    <3>1. Len(a) \in Nat /\ Len(b) \in Nat
      OBVIOUS
    <3> QED
      BY <3>1
  <2>2. v[k] = u[m + k - 1]
    BY <1>1, <1>3
  <2> QED
    BY <1>2, <2>1, <2>2
<1>5. v = b
  <2>1. Len(v) = Len(b)
    BY <1>1, <1>3
  <2> QED
    BY <1>3, <1>4, <2>1, SeqEqual
<1> QED
  BY <1>5 DEF v, u, m, n

\* A TS packet is what the demultiplexer takes it for.
LEMMA WholePacket ==
  ASSUME Typed, Len(in) >= 6, Rest > 0, NEW c \in 0 .. CounterSize - 1,
         NEW d \in Seq(Int), Len(d) = PacketSize - HeaderLength
  PROVE  LET p == HeaderWith(c) \o d IN
         /\ HeaderWith(c) \in Seq(Int) /\ Len(HeaderWith(c)) = HeaderLength
         /\ p \in Seq(Int) /\ Len(p) = PacketSize
         /\ p[2] = UnitStart /\ p[3] = Pid /\ p[4] % 16 = c /\ Payload(p) = d
<1> DEFINE h == HeaderWith(c)
           p == h \o d
<1>1. PayloadSize \in Nat \ {0, 1} /\ CounterSize \in 1 .. 16 /\ c \in 0 .. 15
  BY SizeAssumption
<1>2. Rest \in Int /\ UnitStart \in Int /\ Pid \in Int /\ PacketSize = 4 + PayloadSize
  BY Measured DEF UnitStart, Pid, AudioPid, VideoPid, PacketSize, HeaderSize
<1>3. HeaderLength = IF Rest >= PayloadSize THEN 4 ELSE 4 + PayloadSize - Rest
  BY DEF HeaderLength, HeaderSize
<1>4. /\ h \in Seq(Int) /\ Len(h) = HeaderLength /\ Len(h) >= 4
      /\ h[2] = UnitStart /\ h[3] = Pid /\ h[4] \in Int /\ h[4] % 16 = c
      /\ (IF h[4] >= 48 THEN 6 + h[5] ELSE 5) = Len(h) + 1
      /\ h[4] >= 48 => Len(h) >= 5
  <2> HIDE DEF Rest
  <2>1. CASE Rest >= PayloadSize
    <3>1. h = <<71, UnitStart, Pid, 16 + c>>
      BY <2>1 DEF HeaderWith
    <3>2. h \in Seq(Int) /\ Len(h) = 4 /\ h[2] = UnitStart /\ h[3] = Pid /\ h[4] = 16 + c
      BY <1>1, <1>2, <3>1
    <3>3. (16 + c) % 16 = c /\ ~ (16 + c >= 48)
      BY <1>1
    <3> HIDE DEF h
    <3> QED
      BY <1>1, <1>3, <2>1, <3>2, <3>3
  <2>2. CASE ~ Rest >= PayloadSize
    <3> DEFINE n == PayloadSize - 1 - Rest
               a == <<71, UnitStart, Pid, 48 + c, n>>
               b == [k \in 1 .. n |-> IF k = 1 THEN 0 ELSE 255]
    <3>1. n \in Nat
      BY <1>1, <1>2, <2>2
    <3>2. h = a \o b
      BY <2>2 DEF HeaderWith
    <3>3. a \in Seq(Int) /\ Len(a) = 5 /\ a[2] = UnitStart /\ a[3] = Pid /\ a[4] = 48 + c
          /\ a[5] = n
      <4> HIDE DEF n
      <4> QED
        BY <1>1, <1>2, <3>1
    <3>4. b \in Seq(Int) /\ Len(b) = n
      <4> HIDE DEF n
      <4> QED
        BY <3>1
    <3>5. (48 + c) % 16 = c /\ 48 + c >= 48
      BY <1>1
    <3>6. 4 + PayloadSize - Rest = 5 + n
      BY <1>1, <1>2
    <3> HIDE DEF a, b, n, h
    <3>7. h \in Seq(Int) /\ Len(h) = 5 + n /\ \A k \in 1 .. 5 : h[k] = a[k]
      <4>1. h \in Seq(Int) /\ Len(h) = Len(a) + Len(b) /\ \A k \in 1 .. Len(a) : h[k] = a[k]
        BY <3>2, <3>3, <3>4, Cat
      <4> QED
        BY <3>3, <3>4, <4>1
    <3>8. h[2] = UnitStart /\ h[3] = Pid /\ h[4] = 48 + c /\ h[5] = n
      BY <3>3, <3>7
    <3>9. HeaderLength = 5 + n
      BY <1>3, <2>2, <3>6
    <3> QED
      BY <1>1, <3>1, <3>5, <3>7, <3>8, <3>9
  <2> QED
    BY <2>1, <2>2
<1> HIDE DEF h
<1>5. p \in Seq(Int) /\ Len(p) = PacketSize
  <2>1. p \in Seq(Int) /\ Len(p) = Len(h) + Len(d)
    BY <1>4, Cat
  <2>2. Len(h) \in Nat /\ PacketSize \in Int
    BY <1>1, <1>2, <1>4
  <2> HIDE DEF p
  <2> QED
    BY <1>4, <2>1, <2>2
<1>6. \A k \in 1 .. Len(h) : p[k] = h[k]
  BY <1>4, Cat
<1>7. Payload(p) = d
  <2>1. p[4] = h[4] /\ (h[4] >= 48 => p[5] = h[5])
    <3>1. Len(h) \in Nat
      BY <1>4
    <3> HIDE DEF p
    <3> QED
      BY <1>4, <1>6, <3>1
  <2>2. (IF p[4] >= 48 THEN 6 + p[5] ELSE 5) = Len(h) + 1
    <3> HIDE DEF p
    <3> QED
      BY <1>4, <2>1
  <2>3. Len(h) + Len(d) = PacketSize
    <3>1. Len(h) \in Nat /\ PacketSize \in Int
      BY <1>1, <1>2, <1>4
    <3> QED
      BY <1>4, <3>1
  <2>4. SubSeq(p, Len(h) + 1, PacketSize) = d
    <3>1. SubSeq(h \o d, Len(h) + 1, Len(h) + Len(d)) = d
      <4>1. h \in Seq(Int) /\ d \in Seq(Int)
        BY <1>4
      <4> QED
        BY <4>1, SecondPart, Zenon
    <3> QED
      BY <2>3, <3>1
  <2> QED
    BY <2>2, <2>4 DEF Payload
<1>8. p[2] = h[2] /\ p[3] = h[3] /\ p[4] = h[4]
  <2>1. Len(h) \in Nat
    BY <1>4
  <2> HIDE DEF p
  <2> QED
    BY <1>4, <1>6, <2>1, SMTT(30)
<1> QED
  BY <1>4, <1>5, <1>7, <1>8 DEF h

\* The header that is written has the counter.
LEMMA HeaderCounts == HeaderBytes = HeaderWith(counters[Pid])
BY DEF HeaderBytes, HeaderWith, FullHeader, LastHeader

\* The next piece is a packet, and it is in front.
LEMMA PacketAhead ==
  ASSUME Typed, NEW k \in Nat, k < Len(sent), Seems(sent[k + 1]),
         in \o pending = Behind(sent, k), Len(in) >= 6
  PROVE  LET x == sent[k + 1]  b == in \o pending IN
         /\ x \in Seq(Byte) /\ PesLength(in) = Len(x) /\ Len(x) >= 6 /\ Len(x) <= MinIn
         /\ \A q \in 1 .. 6 : in[q] = x[q]
         /\ SubSeq(b, Len(x) + 1, Len(b)) = Behind(sent, k + 1)
         /\ Len(x) <= Len(in) => SubSeq(in, 1, Len(x)) = x
<1> DEFINE x == sent[k + 1]
           r == Behind(sent, k + 1)
           b == in \o pending
<1>1. in \in Seq(Byte) /\ pending \in Seq(Byte) /\ sent \in Scripts /\ Len(in) \in Nat
  BY DEF Typed
<1>2. Len(sent) \in Nat /\ sent \in Seq(Seq(Byte))
  BY <1>1, ScriptBytes
<1>3. k + 1 \in 1 .. Len(sent) /\ k \in 0 .. Len(sent) /\ k + 1 \in 0 .. Len(sent)
  BY <1>2
<1>4. x \in Seq(Byte)
  BY <1>2, <1>3
<1>5. b = x \o r /\ r \in Seq(Byte)
  BY <1>1, <1>3, BehindMore
<1>6. Len(x) >= 6 /\ IsPrefix(<<0, 0, 1>>, x)
  BY DEF Seems
<1>7. Len(x) = PesLength(x) /\ Len(x) <= MinIn
  <2>1. k + 1 \in DOMAIN sent
    BY <1>2, <1>3
  <2> QED
    BY <1>1, <1>6, <2>1, ScriptAssumption
<1> HIDE DEF x, r, b
<1>8. PesLength(in) = Len(x)
  <2>1. PesLength(b) = PesLength(in)
    BY <1>1, Grown DEF b
  <2>2. PesLength(b) = PesLength(x)
    BY <1>4, <1>5, <1>6, Grown
  <2> QED
    BY <1>7, <2>1, <2>2
<1>9. ASSUME NEW q \in 1 .. 6 PROVE in[q] = x[q]
  <2>1. q \in 1 .. Len(in) /\ q \in 1 .. Len(x)
    BY <1>1, <1>4, <1>6
  <2>2. b[q] = in[q]
    BY <1>1, <2>1, Cat DEF b
  <2>3. b[q] = x[q]
    BY <1>4, <1>5, <2>1, Cat
  <2> QED
    BY <2>2, <2>3
<1>10. SubSeq(b, Len(x) + 1, Len(b)) = r
  <2>1. Len(b) = Len(x) + Len(r)
    BY <1>4, <1>5, Cat
  <2>2. SubSeq(x \o r, Len(x) + 1, Len(x) + Len(r)) = r
    BY <1>4, <1>5, SecondPart, Zenon
  <2> QED
    BY <1>5, <2>1, <2>2
<1>11. ASSUME Len(x) <= Len(in) PROVE SubSeq(in, 1, Len(x)) = x
  <2>1. 1 \in 1 .. Len(in) /\ Len(x) \in 1 .. Len(in) /\ 1 \in 1 .. Len(x) /\ Len(x) \in 1 .. Len(x)
    BY <1>1, <1>4, <1>6, <1>11
  <2>2. SubSeq(b, 1, Len(x)) = SubSeq(in, 1, Len(x))
    BY <1>1, <2>1, SubSeqOfConcat1, Zenon DEF b
  <2>3. SubSeq(b, 1, Len(x)) = SubSeq(x, 1, Len(x))
    BY <1>4, <1>5, <2>1, SubSeqOfConcat1, Zenon
  <2>4. SubSeq(x, 1, Len(x)) = x
    BY <1>4, SubSeqFull
  <2> QED
    BY <2>2, <2>3, <2>4
<1> QED
  BY <1>4, <1>6, <1>7, <1>8, <1>9, <1>10, <1>11 DEF x, r, b

\* Where a packet seems to begin, the next one does.
LEMMA AtPacket ==
  ASSUME Clear, Typed, NEW k \in 0 .. Len(sent), Within(k), Seems(in)
  PROVE  k < Len(sent) /\ Seems(sent[k + 1]) /\ in \o pending = Behind(sent, k)
<1> DEFINE b == in \o pending
<1>1. in \in Seq(Byte) /\ pending \in Seq(Byte) /\ sent \in Scripts /\ Len(in) >= 6
  BY DEF Typed, Seems
<1>2. Seems(b)
  BY <1>1, LooksLast
<1>3. Len(sent) \in Nat /\ sent \in Seq(Seq(Byte)) /\ DOMAIN sent = 1 .. Len(sent)
  BY <1>1, ScriptBytes
<1>4. b = Behind(sent, k)
  <2> SUFFICES ASSUME k > 0, ~ Seems(sent[k]), NEW n \in 1 .. Len(sent[k]) - 1,
                      b = SubSeq(sent[k], n + 1, Len(sent[k])) \o Behind(sent, k)
               PROVE  FALSE
    BY DEF Within
  <2>1. k \in DOMAIN sent
    BY <1>3
  <2>2. sent[k] \in Seq(Byte)
    BY <1>3, <2>1
  <2>3. n \in 0 .. Len(sent[k]) - 1
    OBVIOUS
  <2>4. ~ Seems(SubSeq(sent[k], n + 1, Len(sent[k])) \o Behind(sent, k))
    BY <1>1, <2>1, <2>3 DEF Clear
  <2> HIDE DEF b
  <2> QED
    BY <1>2, <2>4
<1> HIDE DEF b
<1>5. k # Len(sent)
  <2> SUFFICES ASSUME k = Len(sent) PROVE FALSE
    OBVIOUS
  <2>1. b = << >>
    BY <1>1, <1>4, BehindMore, Zenon
  <2> QED
    BY <1>2, <2>1 DEF Seems
<1>6. k < Len(sent) /\ k + 1 \in DOMAIN sent
  <2> DEFINE l == Len(sent)
  <2>1. k < l /\ k + 1 \in 1 .. l
    <3>1. l \in Nat /\ k \in 0 .. l /\ k # l
      BY <1>3, <1>5, Zenon
    <3> HIDE DEF l
    <3> QED
      BY <3>1
  <2> QED
    BY <1>3, <2>1, Zenon
<1>7. Seems(sent[k + 1])
  <2> SUFFICES ASSUME ~ Seems(sent[k + 1]) PROVE FALSE
    OBVIOUS
  <2> DEFINE x == sent[k + 1]
  <2>1. x \in Seq(Byte) /\ x # << >>
    BY <1>1, <1>6, ScriptAssumption DEF Byte
  <2>2. 0 \in 0 .. Len(x) - 1 /\ SubSeq(x, 0 + 1, Len(x)) = x
    <3>1. Len(x) \in Nat /\ Len(x) # 0
      BY <2>1
    <3>2. SubSeq(x, 1, Len(x)) = x
      BY <2>1, SubSeqFull
    <3> QED
      BY <3>1, <3>2
  <2>3. ~ Seems(SubSeq(x, 0 + 1, Len(x)) \o Behind(sent, k + 1))
    BY <1>1, <1>6, <2>2 DEF Clear
  <2>4. b = x \o Behind(sent, k + 1)
    BY <1>1, <1>4, <1>6, BehindMore
  <2> HIDE DEF x
  <2> QED
    BY <1>2, <2>2, <2>3, <2>4
<1> QED
  BY <1>4, <1>6, <1>7 DEF b

\* What is written stays what it is.
LEMMA OutputKept ==
  ASSUME Numbered, Regular(Stream), PacketsMarked, played' \o out' = played \o out,
         UNCHANGED <<sent, counters>>, pc = "data" <=> pc' = "data",
         pc = "data" => Pid' = Pid /\ Rest' = Rest /\ UnitStart' = UnitStart
  PROVE  Stream' = Stream /\ Numbered' /\ Regular(Stream)' /\ PacketsMarked'
<1>1. Stream' = Stream
  BY DEF Stream
<1>2. Regular(Stream)'
  BY <1>1 DEF Regular
<1>3. \A n, pid : Brought(n, pid)' = Brought(n, pid)
  BY DEF Brought
<1>4. PacketsMarked'
  BY <1>1, <1>3 DEF PacketsMarked
<1>5. Numbered'
  <2>1. PICK c \in 0 .. CounterSize - 1 :
          /\ pc = "data" => counters[Pid] = (c + 1) % CounterSize /\ Opened(c)
          /\ \A pid \in Pids : \A j \in 1 .. Len(Stream) :
               IsLast(Stream, j, pid) => ((Stream[j][4] % 16) + 1) % CounterSize = Due(pid, c)
    BY DEF Numbered
  <2>2. pc' = "data" => counters'[Pid'] = (c + 1) % CounterSize /\ Opened(c)'
    <3> SUFFICES ASSUME pc = "data" PROVE counters'[Pid'] = (c + 1) % CounterSize /\ Opened(c)'
      OBVIOUS
    <3>1. HeaderWith(c)' = HeaderWith(c)
      BY DEF HeaderWith
    <3>2. PICK s \in Seq(Int), n \in Nat :
            Len(s) = n * PacketSize /\ played \o out = s \o HeaderWith(c)
      BY <2>1 DEF Opened
    <3>3. Opened(c)'
      BY <3>1, <3>2 DEF Opened
    <3> QED
      BY <2>1, <3>3
  <2>3. \A pid : Due(pid, c)' = Due(pid, c)
    BY DEF Due
  <2> QED
    BY <1>1, <2>1, <2>2, <2>3 DEF Numbered
<1> QED
  BY <1>1, <1>2, <1>4, <1>5

\* How much of the packet is written, in numbers.
LEMMA CutWithin ==
  ASSUME Typed, pc \in {"head", "data"}
  PROVE  /\ CutAt \in Nat /\ CutAt <= PesLength(in) /\ PesLength(in) <= Len(in)
         /\ PesLength(in) \in Nat /\ i * PayloadSize \in Nat
         /\ Rest <= 0 => CutAt = PesLength(in)
<1>1. Len(in) >= 6 /\ PesLength(in) <= Len(in) /\ i \in Nat
  BY DEF Typed
<1>2. PesLength(in) \in Nat /\ i * PayloadSize \in Nat
  BY <1>1, Measured, Times, SizeAssumption
<1> DEFINE m == i * PayloadSize
           l == PesLength(in)
<1>3. Rest = l - m /\ CutAt = IF Rest >= 0 THEN m ELSE l
  BY DEF Rest, CutAt
<1> HIDE DEF m, l
<1>4. CutAt \in Nat /\ CutAt <= l /\ (Rest <= 0 => CutAt = l)
  BY <1>2, <1>3 DEF m, l
<1> QED
  BY <1>1, <1>2, <1>4 DEF l

\* First bytes stay first when more come.
LEMMA FirstStay ==
  ASSUME NEW s \in Seq(Byte), NEW t \in Seq(Byte), NEW n \in 0 .. Len(s)
  PROVE  SubSeq(s \o t, 1, n) = SubSeq(s, 1, n)
<1>1. CASE n = 0
  <2>1. SubSeq(s \o t, 1, 0) = << >> /\ SubSeq(s, 1, 0) = << >>
    OBVIOUS
  <2> QED
    BY <1>1, <2>1
<1>2. CASE n # 0
  <2>1. 1 \in 1 .. Len(s) /\ n \in 1 .. Len(s)
    BY <1>2
  <2> QED
    BY <2>1, SubSeqOfConcat1, Zenon
<1> QED
  BY <1>1, <1>2

\* More bytes come.
LEMMA ThroughFeed ==
  ASSUME Typed, Scanning, NEW k \in 0 .. Len(sent), Through(k), Stream' = Stream, Feed
  PROVE  /\ Through(k)' /\ Scanning'
         /\ pc = "data" => Pid' = Pid /\ Rest' = Rest /\ UnitStart' = UnitStart
<1>1. PICK n \in 1 .. Len(pending) :
        in' = in \o SubSeq(pending, 1, n) /\ pending' = SubSeq(pending, n + 1, Len(pending))
  BY DEF Feed
<1> DEFINE t == SubSeq(pending, 1, n)
<1>2. in \in Seq(Byte) /\ pending \in Seq(Byte) /\ n \in 0 .. Len(pending) /\ Len(in) \in Nat
  BY DEF Typed
<1>3. t \in Seq(Byte) /\ in' \o pending' = in \o pending
  BY <1>1, <1>2, Split, Zenon
<1>4. in' = in \o t
  BY <1>1
<1>5. UNCHANGED <<sent, out, pc, i, counters, isAC3, played>>
  BY DEF Feed
<1> HIDE DEF t
<1>6. ASSUME Len(in) >= 6 PROVE Pid' = Pid /\ Rest' = Rest /\ PesLength(in') = PesLength(in)
  <2>1. PesLength(in') = PesLength(in)
    BY <1>2, <1>3, <1>4, <1>6, Grown
  <2>2. in'[4] = in[4]
    <3>1. 4 \in 1 .. Len(in)
      BY <1>2, <1>6
    <3> QED
      BY <1>2, <1>3, <1>4, <3>1, Cat
  <2> QED
    BY <1>5, <2>1, <2>2 DEF Pid, Id, Rest
<1>7. Within(k)' /\ Cutting(k)'
  BY <1>3, <1>5 DEF Through, Within, Cutting
<1>8. ASSUME NEW pid \in Pids PROVE Cut(pid)' = Cut(pid)
  <2>1. CASE pc \in {"head", "data"}
    <3>1. Len(in) >= 6 /\ CutAt \in 0 .. Len(in)
      BY <1>2, <2>1, CutWithin DEF Typed
    <3>2. CutAt' = CutAt
      BY <1>5, <1>6, <3>1 DEF CutAt
    <3>3. SubSeq(in', 1, CutAt) = SubSeq(in, 1, CutAt)
      BY <1>2, <1>3, <1>4, <3>1, FirstStay
    <3> QED
      BY <1>5, <1>6, <3>1, <3>2, <3>3 DEF Cut
  <2>2. CASE pc \notin {"head", "data"}
    BY <1>5, <2>2 DEF Cut
  <2> QED
    BY <2>1, <2>2
<1>9. \A pid : Brought(k, pid)' = Brought(k, pid)
  BY <1>5 DEF Brought
<1>10. Through(k)'
  BY <1>7, <1>8, <1>9 DEF Through
<1>11. Scanning'
  <2> SUFFICES ASSUME pc = "scan" PROVE Len(in') >= 3 /\ ~ StartCode'
    BY <1>5 DEF Scanning
  <2>1. Len(in) >= 3 /\ ~ StartCode
    BY DEF Scanning
  <2>2. Len(in') = Len(in) + Len(t) /\ Len(t) \in Nat
    BY <1>2, <1>3, <1>4, Cat
  <2>3. SubSeq(in', 1, 3) = SubSeq(in, 1, 3)
    <3>1. 3 \in 0 .. Len(in)
      BY <1>2, <2>1
    <3> QED
      BY <1>2, <1>3, <1>4, <3>1, FirstStay
  <2> DEFINE z == <<0, 0, 1>>
  <2>4. Len(z) = 3
    OBVIOUS
  <2> HIDE DEF z
  <2>5. IsPrefix(z, in') <=> IsPrefix(z, in)
    BY <1>2, <2>1, <2>2, <2>3, <2>4 DEF IsPrefix
  <2> QED
    BY <1>2, <2>1, <2>2, <2>5 DEF StartCode, z
<1>12. pc = "data" => Pid' = Pid /\ Rest' = Rest /\ UnitStart' = UnitStart
  BY <1>5, <1>6 DEF Typed, UnitStart
<1> QED
  BY <1>10, <1>11, <1>12

\* A block goes.
LEMMA ThroughTake ==
  ASSUME NEW k, Through(k), Stream' = Stream, UNCHANGED <<sent, pending, in, pc, i>>
  PROVE  Through(k)'
<1>1. \A pid : Brought(k, pid)' = Brought(k, pid)
  BY DEF Brought
<1>2. \A pid : Cut(pid)' = Cut(pid)
  BY DEF Cut, CutAt, Rest, Pid, Id
<1> QED
  BY <1>1, <1>2 DEF Through, Within, Cutting

\* A byte of no packet goes.
LEMMA DropByte ==
  ASSUME Clear, Typed, NEW k \in 0 .. Len(sent), Through(k), Stream' = Stream,
         ~ Seems(in), Len(in) >= 6 \/ ~ StartCode, Len(in) >= 3,
         in' = After(1), UNCHANGED <<sent, pending>>,
         pc \in {"top", "scan"}, pc' \in {"top", "scan"}
  PROVE  Delivered'
<1> DEFINE b == in \o pending
           c == in' \o pending'
<1>1. in \in Seq(Byte) /\ pending \in Seq(Byte) /\ sent \in Scripts /\ Len(in) \in Nat
  BY DEF Typed
<1>2. b \in Seq(Byte) /\ Len(b) >= 3 /\ Len(b) \in Nat
  BY <1>1
<1>3. c = SubSeq(b, 1 + 1, Len(b))
  <2>1. 1 \in 0 .. Len(in)
    BY <1>1
  <2> QED
    BY <1>1, <2>1, DropInFront, Zenon DEF After
<1>4. ~ Seems(b)
  <2>1. CASE Len(in) >= 6
    BY <1>1, <2>1, LooksLast
  <2>2. CASE ~ StartCode
    <3> DEFINE z == <<0, 0, 1>>
    <3>1. Len(z) = 3
      OBVIOUS
    <3>2. SubSeq(b, 1, 3) = SubSeq(in, 1, 3)
      <4>1. 3 \in 0 .. Len(in)
        BY <1>1
      <4> QED
        BY <1>1, <4>1, FirstStay
    <3>3. ~ IsPrefix(z, in)
      BY <2>2 DEF StartCode
    <3> HIDE DEF b, z
    <3>4. ~ IsPrefix(z, b)
      BY <1>1, <3>1, <3>2, <3>3 DEF IsPrefix
    <3> QED
      BY <3>4 DEF Seems, z
  <2> QED
    BY <2>1, <2>2
<1>5. Len(sent) \in Nat /\ sent \in Seq(Seq(Byte)) /\ DOMAIN sent = 1 .. Len(sent)
  BY <1>1, ScriptBytes
<1>6. ASSUME NEW m \in 1 .. Len(sent), ~ Seems(sent[m]), NEW n \in 0 .. Len(sent[m]) - 1,
             b = SubSeq(sent[m], n + 1, Len(sent[m])) \o Behind(sent, m)
      PROVE  Within(m)'
  <2> DEFINE x == sent[m]
             l == Len(x)
             y == SubSeq(x, n + 1, l)
             r == Behind(sent, m)
             u == SubSeq(x, n + 1 + 1, l)
  <2>0. n \in 0 .. l - 1
    OBVIOUS
  <2>1. x \in Seq(Byte) /\ l \in Nat /\ r \in Seq(Byte)
    <3>1. m \in 0 .. Len(sent)
      BY <1>5
    <3>2. r \in Seq(Byte)
      BY <1>1, <3>1, BehindMore
    <3> QED
      BY <1>5, <3>2
  <2>2. y \in Seq(Byte) /\ Len(y) = l - n /\ \A q \in 1 .. l - n : y[q] = x[n + q]
    BY <2>1
  <2>3. c = SubSeq(y, 1 + 1, Len(y)) \o r
    <3>1. 1 \in 0 .. Len(y)
      <4> HIDE DEF y, x, l
      <4> QED
        BY <2>0, <2>1, <2>2
    <3> HIDE DEF y, r, b, c
    <3>2. SubSeq(y, 1 + 1, Len(y)) \o r = SubSeq(y \o r, 1 + 1, Len(y \o r))
      BY <2>1, <2>2, <3>1, DropInFront, Zenon
    <3>3. b = y \o r
      BY <1>6 DEF y, r
    <3> QED
      BY <1>3, <3>2, <3>3
  <2>4. SubSeq(y, 1 + 1, Len(y)) = u
    <3> DEFINE v == SubSeq(y, 1 + 1, Len(y))
    <3>1. u \in Seq(Byte) /\ Len(u) = l - n - 1 /\ \A q \in 1 .. l - n - 1 : u[q] = x[n + 1 + q]
      BY <2>1
    <3> HIDE DEF x, l, y, u
    <3>2. v \in Seq(Byte) /\ Len(v) = l - n - 1 /\ \A q \in 1 .. l - n - 1 : v[q] = y[1 + q]
      <4> DEFINE e == Len(y)
      <4>1. e \in Nat /\ e = l - n /\ 2 \in Nat \ {0} /\ 2 <= e + 1 /\ e <= Len(y)
        BY <2>0, <2>1, <2>2
      <4> HIDE DEF e
      <4>2. SubSeq(y, 2, e) \in Seq(Byte) /\ Len(SubSeq(y, 2, e)) = e - 2 + 1
            /\ \A q \in 1 .. e - 2 + 1 : SubSeq(y, 2, e)[q] = y[2 + q - 1]
        BY <2>2, <4>1, Part
      <4>3. v = SubSeq(y, 2, e)
        BY DEF e
      <4>4. e - 2 + 1 = l - n - 1 /\ \A q \in 1 .. l - n - 1 : 2 + q - 1 = 1 + q
        BY <2>0, <2>1, <4>1
      <4> HIDE DEF v
      <4> QED
        BY <4>2, <4>3, <4>4
    <3>3. ASSUME NEW q \in 1 .. l - n - 1 PROVE v[q] = u[q]
      <4>1. 1 + q \in 1 .. l - n /\ n + (1 + q) = n + 1 + q
        BY <2>1
      <4>2. v[q] = y[1 + q] /\ y[1 + q] = x[n + (1 + q)] /\ u[q] = x[n + 1 + q]
        BY <2>2, <3>1, <3>2, <4>1
      <4> QED
        BY <4>1, <4>2
    <3> HIDE DEF v
    <3>4. v = u
      BY <3>1, <3>2, <3>3, SeqEqual
    <3> QED
      BY <3>4 DEF v
  <2>5. c = u \o r
    BY <2>3, <2>4
  <2>6. CASE n + 1 = l
    <3>1. u = << >>
      BY <2>1, <2>6, SubSeqEmpty
    <3>2. << >> \o r = r
      BY <2>1, ConcatEmptySeq
    <3> HIDE DEF c, u
    <3>3. c = r
      BY <2>5, <3>1, <3>2
    <3> QED
      BY <3>3 DEF Within, c, r
  <2>7. CASE n + 1 # l
    <3>1. n + 1 \in 1 .. Len(sent[m]) - 1 /\ m > 0
      BY <2>1, <2>7
    <3>2. in' \o pending' = SubSeq(sent'[m], (n + 1) + 1, Len(sent'[m])) \o Behind(sent', m)
      BY <2>5
    <3> QED
      BY <1>6, <3>1, <3>2 DEF Within
  <2> QED
    BY <2>6, <2>7
<1>7. \A pid : Cut(pid)' = << >> /\ Cut(pid) = << >>
  BY DEF Cut
<1>8. \A m, pid : Brought(m, pid)' = Brought(m, pid)
  BY DEF Brought
<1>9. Cutting(k)' /\ \A m : Cutting(m)'
  BY DEF Cutting
<1>10. CASE b = Behind(sent, k)
  <2>1. k < Len(sent)
    <3> SUFFICES ASSUME k = Len(sent) PROVE FALSE
      <4> DEFINE l == Len(sent)
      <4>1. l \in Nat /\ k \in 0 .. l
        BY <1>5
      <4> HIDE DEF l
      <4>2. k < l \/ k = l
        BY <4>1
      <4> QED
        BY <4>2 DEF l
    <3>1. b = << >>
      BY <1>1, <1>10, BehindMore
    <3> HIDE DEF b
    <3> QED
      BY <1>2, <3>1
  <2>2. k + 1 \in 1 .. Len(sent) /\ k + 1 \in 0 .. Len(sent) /\ k \in Nat
    BY <1>5, <2>1
  <2> DEFINE x == sent[k + 1]
  <2>3. x \in Seq(Byte) /\ x # << >>
    BY <1>1, <1>5, <2>2, ScriptAssumption DEF Byte
  <2>4. b = x \o Behind(sent, k + 1) /\ Behind(sent, k + 1) \in Seq(Byte)
    BY <1>1, <1>10, <2>1, <2>2, BehindMore
  <2>5. ~ Seems(x)
    <3> SUFFICES ASSUME Seems(x) PROVE FALSE
      OBVIOUS
    <3>1. Len(x) >= 6
      BY DEF Seems
    <3> HIDE DEF x, b
    <3>2. Seems(b)
      BY <2>3, <2>4, <3>1, LooksLast
    <3> QED
      BY <1>4, <3>2
  <2>6. 0 \in 0 .. Len(x) - 1 /\ SubSeq(x, 0 + 1, Len(x)) = x
    <3>1. Len(x) \in Nat /\ Len(x) # 0
      BY <2>3
    <3>2. SubSeq(x, 1, Len(x)) = x
      BY <2>3, SubSeqFull
    <3> QED
      BY <3>1, <3>2
  <2>7. Within(k + 1)'
    BY <1>6, <2>2, <2>4, <2>5, <2>6
  <2>8. ASSUME NEW pid \in Pids PROVE Brought(k + 1, pid) = Brought(k, pid)
    <3>1. Piece(k + 1, pid) = << >>
      <4>1. ~ IsFor(x, pid)
        BY <2>5 DEF IsFor, IsPes, Seems
      <4> QED
        BY <4>1 DEF Piece
    <3>2. Brought(k, pid) \in Seq(Byte)
          /\ Brought(k + 1, pid) = Brought(k, pid) \o Piece(k + 1, pid)
      BY <1>1, <2>1, <2>2, BroughtOne
    <3> QED
      BY <3>1, <3>2, ConcatEmptySeq
  <2>9. \A pid \in Pids : Carried(Stream, pid) = Brought(k + 1, pid) \o << >>
    BY <1>7, <2>8 DEF Through
  <2>10. Through(k + 1)'
    BY <1>7, <1>8, <1>9, <2>7, <2>9 DEF Through
  <2> QED
    BY <2>2, <2>10 DEF Delivered
<1>11. CASE b # Behind(sent, k)
  <2>1. PICK n \in 1 .. Len(sent[k]) - 1 :
          b = SubSeq(sent[k], n + 1, Len(sent[k])) \o Behind(sent, k)
    BY <1>11 DEF Through, Within
  <2>2. k \in 1 .. Len(sent) /\ ~ Seems(sent[k]) /\ n \in 0 .. Len(sent[k]) - 1
    BY <1>5, <1>11 DEF Through, Within
  <2>3. Within(k)'
    BY <1>6, <2>1, <2>2
  <2>4. Through(k)'
    BY <1>7, <1>8, <1>9, <2>3 DEF Through
  <2> QED
    BY <2>4 DEF Delivered
<1> QED
  BY <1>10, <1>11

\* The whole packet is through.
LEMMA PacketGone ==
  ASSUME Typed, NEW k \in 0 .. Len(sent), k < Len(sent), Seems(sent[k + 1]),
         in \o pending = Behind(sent, k), Len(in) >= 6, PesLength(in) <= Len(in),
         in' = After(PesLength(in)), UNCHANGED <<sent, pending>>, pc' = "top",
         Stream' = Stream,
         \A pid \in Pids : Carried(Stream, pid) = Brought(k, pid) \o Piece(k + 1, pid)
  PROVE  Delivered'
<1> DEFINE x == sent[k + 1]
           b == in \o pending
<1>1. in \in Seq(Byte) /\ pending \in Seq(Byte) /\ sent \in Scripts /\ Len(in) \in Nat
  BY DEF Typed
<1>2. Len(sent) \in Nat
  BY <1>1, ScriptBytes
<1>3. k \in Nat /\ k + 1 \in 0 .. Len(sent)
  <2> DEFINE l == Len(sent)
  <2>1. l \in Nat /\ k \in 0 .. l /\ k < l
    BY <1>2
  <2> HIDE DEF l
  <2>2. k \in Nat /\ k + 1 \in 0 .. l
    BY <2>1
  <2> QED
    BY <2>2 DEF l
<1>4. /\ x \in Seq(Byte) /\ PesLength(in) = Len(x)
      /\ SubSeq(b, Len(x) + 1, Len(b)) = Behind(sent, k + 1)
  BY <1>3, PacketAhead
<1>5. in' \o pending' = Behind(sent, k + 1)
  <2>1. Len(x) \in 0 .. Len(in)
    BY <1>1, <1>4
  <2> HIDE DEF x
  <2>2. SubSeq(in, Len(x) + 1, Len(in)) \o pending = SubSeq(b, Len(x) + 1, Len(b))
    BY <1>1, <2>1, DropInFront, Zenon
  <2> QED
    BY <1>4, <2>2 DEF After
<1>6. Within(k + 1)' /\ Cutting(k + 1)'
  BY <1>5 DEF Within, Cutting
<1>7. ASSUME NEW pid \in Pids PROVE Carried(Stream, pid) = Brought(k + 1, pid) \o << >>
  <2>1. Brought(k + 1, pid) = Brought(k, pid) \o Piece(k + 1, pid)
    BY <1>1, <1>3, BroughtOne
  <2>2. Brought(k + 1, pid) \in Seq(Byte)
    <3>1. k + 1 \in Nat /\ k + 1 <= Len(sent) /\ k + 1 <= k + 1
      BY <1>2, <1>3
    <3> QED
      BY <1>1, <3>1, BroughtMore
  <2> QED
    BY <2>1, <2>2, ConcatEmptySeq
<1>8. \A m, pid : Brought(m, pid)' = Brought(m, pid)
  BY DEF Brought
<1>9. \A pid : Cut(pid)' = << >>
  BY DEF Cut
<1>10. Through(k + 1)'
  BY <1>6, <1>7, <1>8, <1>9 DEF Through
<1> QED
  BY <1>3, <1>10 DEF Delivered

\* The PID is that of the packet in front.
LEMMA ForWhom ==
  ASSUME NEW x, Seems(x), x[4] # PaddingId, in[4] = x[4], NEW pid \in Pids
  PROVE  IsFor(x, pid) <=> pid = Pid
<1>1. IsPes(x) /\ (IsAudio(x[4]) \/ IsVideo(x[4]))
  BY DEF Seems, IsPes
<1>2. ~ (IsAudio(x[4]) /\ IsVideo(x[4]))
  BY DEF IsAudio, IsVideo
<1> QED
  BY <1>1, <1>2 DEF IsFor, Pid, Id, Pids, AudioPid, VideoPid

\* Padding goes.
LEMMA ThroughPadding ==
  ASSUME Clear, Typed, NEW k \in 0 .. Len(sent), Through(k), Stream' = Stream, DropPadding
  PROVE  Delivered'
<1>1. /\ pc = "top" /\ pc' = "top" /\ Len(in) >= 6 /\ Len(in) >= MinIn /\ Id = PaddingId
      /\ in' = After(PesLength(in)) /\ UNCHANGED <<sent, pending>>
  BY DEF DropPadding, MayStart, RemuxKeeps
<1>2. Seems(in)
  BY DEF DropPadding, MayStart, StartCode, Id, Seems
<1>3. k < Len(sent) /\ Seems(sent[k + 1]) /\ in \o pending = Behind(sent, k)
  BY <1>2, AtPacket DEF Through
<1> DEFINE x == sent[k + 1]
<1>4. k \in Nat /\ Len(in) \in Nat /\ MinIn \in Nat /\ sent \in Scripts
  BY SizeAssumption DEF Typed
<1>5. x \in Seq(Byte) /\ PesLength(in) = Len(x) /\ Len(x) <= MinIn
      /\ \A q \in 1 .. 6 : in[q] = x[q]
  BY <1>1, <1>3, <1>4, PacketAhead
<1>6. PesLength(in) <= Len(in)
  <2>1. Len(x) \in Nat
    BY <1>5
  <2> HIDE DEF x
  <2> QED
    BY <1>1, <1>4, <1>5, <2>1
<1>7. x[4] = PaddingId
  BY <1>1, <1>5 DEF Id
<1>8. ASSUME NEW pid \in Pids
      PROVE  Carried(Stream, pid) = Brought(k, pid) \o Piece(k + 1, pid)
  <2>1. ~ IsFor(x, pid)
    BY <1>7 DEF IsFor, PaddingId, IsAudio, IsVideo
  <2>2. Piece(k + 1, pid) = << >>
    BY <2>1 DEF Piece
  <2>3. Cut(pid) = << >>
    BY <1>1 DEF Cut
  <2> QED
    BY <2>2, <2>3 DEF Through
<1> HIDE DEF x
<1> QED
  BY <1>1, <1>3, <1>6, <1>8, PacketGone

\* A packet is begun.
LEMMA ThroughStart ==
  ASSUME Clear, Typed, NEW k \in 0 .. Len(sent), Through(k), Stream' = Stream, StartPacket
  PROVE  Through(k)'
<1>1. /\ pc = "top" /\ Len(in) >= 6
      /\ UNCHANGED <<sent, pending, in>>
      /\ \/ pc' = "head" /\ i' = 0
         \/ pc' = "top"
  BY DEF StartPacket, MayStart, RemuxKeeps
<1>2. Seems(in) /\ (IsAudio(Id) \/ IsVideo(Id))
  BY DEF StartPacket, MayStart, StartCode, Id, Seems
<1>3. k < Len(sent) /\ Seems(sent[k + 1]) /\ in \o pending = Behind(sent, k)
  BY <1>2, AtPacket DEF Through
<1>4. in[4] = sent[k + 1][4]
  <2>1. k \in Nat
    OBVIOUS
  <2>2. \A q \in 1 .. 6 : in[q] = sent[k + 1][q]
    BY <1>1, <1>3, <2>1, PacketAhead
  <2> QED
    BY <2>2
<1>5. sent[k + 1][4] # PaddingId
  <2>1. ~ IsAudio(PaddingId) /\ ~ IsVideo(PaddingId)
    BY DEF IsAudio, IsVideo, PaddingId
  <2>2. IsAudio(in[4]) \/ IsVideo(in[4])
    BY <1>2 DEF Id
  <2> QED
    BY <1>4, <2>1, <2>2
<1>6. Within(k)' /\ Cutting(k)'
  BY <1>1, <1>3, <1>5 DEF Within, Cutting
<1>7. ASSUME NEW pid PROVE Cut(pid)' = Cut(pid)
  <2>1. Cut(pid) = << >>
    BY <1>1 DEF Cut
  <2>2. CASE pc' = "head" /\ i' = 0
    <3>1. PesLength(in) \in Nat /\ 0 * PayloadSize = 0
      BY <1>1, Measured, SizeAssumption
    <3>2. Rest' = PesLength(in) - 0 * PayloadSize
      BY <1>1, <2>2 DEF Rest
    <3>3. CutAt' = 0
      BY <1>1, <2>2, <3>1, <3>2 DEF CutAt
    <3>4. SubSeq(in, 1, 0) = << >>
      BY SubSeqEmpty DEF Typed
    <3> QED
      BY <1>1, <2>1, <3>3, <3>4 DEF Cut
  <2>3. CASE pc' = "top"
    BY <2>1, <2>3 DEF Cut
  <2> QED
    BY <1>1, <2>2, <2>3
<1>8. \A pid : Brought(k, pid)' = Brought(k, pid)
  BY <1>1 DEF Brought
<1> QED
  BY <1>6, <1>7, <1>8 DEF Through

\* A packet that is cut up is the next one.
LEMMA PacketCut ==
  ASSUME Typed, NEW k \in 0 .. Len(sent), Through(k), pc \in {"head", "data"}
  PROVE  LET x == sent[k + 1] IN
         /\ k \in Nat /\ k < Len(sent) /\ Seems(x) /\ in \o pending = Behind(sent, k)
         /\ Len(in) >= 6 /\ PesLength(in) <= Len(in)
         /\ x \in Seq(Byte) /\ PesLength(in) = Len(x) /\ SubSeq(in, 1, Len(x)) = x
         /\ \A pid \in Pids : IsFor(x, pid) <=> pid = Pid
<1> DEFINE x == sent[k + 1]
<1>1. Len(in) >= 6 /\ PesLength(in) <= Len(in) /\ k \in Nat
  BY DEF Typed
<1>2. k < Len(sent) /\ Seems(x) /\ x[4] # PaddingId /\ in \o pending = Behind(sent, k)
  BY DEF Through, Cutting
<1>3. /\ x \in Seq(Byte) /\ PesLength(in) = Len(x) /\ \A q \in 1 .. 6 : in[q] = x[q]
      /\ Len(x) <= Len(in) => SubSeq(in, 1, Len(x)) = x
  BY <1>1, <1>2, PacketAhead
<1>4. in[4] = x[4]
  BY <1>3
<1> HIDE DEF x
<1>5. SubSeq(in, 1, Len(x)) = x
  BY <1>1, <1>3
<1>6. \A pid \in Pids : IsFor(x, pid) <=> pid = Pid
  BY <1>2, <1>4, ForWhom
<1> QED
  BY <1>1, <1>2, <1>3, <1>5, <1>6 DEF x

\* The packet is through.
LEMMA ThroughEnd ==
  ASSUME Typed, NEW k \in 0 .. Len(sent), Through(k), Stream' = Stream, EndPacket
  PROVE  Delivered'
<1>1. /\ pc = "head" /\ Rest <= 0 /\ pc' = "top"
      /\ in' = After(PesLength(in)) /\ UNCHANGED <<sent, pending>>
  BY DEF EndPacket, RemuxKeeps
<1> DEFINE x == sent[k + 1]
<1>2. /\ k < Len(sent) /\ Seems(x) /\ in \o pending = Behind(sent, k)
      /\ Len(in) >= 6 /\ PesLength(in) <= Len(in)
      /\ PesLength(in) = Len(x) /\ SubSeq(in, 1, Len(x)) = x
      /\ \A pid \in Pids : IsFor(x, pid) <=> pid = Pid
  BY <1>1, PacketCut
<1>3. CutAt = Len(x)
  BY <1>1, <1>2, CutWithin
<1>4. ASSUME NEW pid \in Pids
      PROVE  Carried(Stream, pid) = Brought(k, pid) \o Piece(k + 1, pid)
  <2>1. Cut(pid) = Piece(k + 1, pid)
    BY <1>1, <1>2, <1>3 DEF Cut, Piece
  <2> QED
    BY <2>1 DEF Through
<1> HIDE DEF x
<1>5. Seems(sent[k + 1])
  BY <1>2 DEF x
<1> QED
  BY <1>1, <1>2, <1>4, <1>5, PacketGone

\* The header goes behind whole packets.
LEMMA HeaderGoes ==
  ASSUME IInv, WriteHeader
  PROVE  /\ HeaderBytes \in Seq(Int) /\ Len(HeaderBytes) = HeaderLength
         /\ HeaderLength \in Nat \ {0} /\ HeaderLength < PacketSize
         /\ played \o out \in Seq(Int) /\ played' \o out' = (played \o out) \o HeaderBytes
         /\ \E n \in Nat : Len(played \o out) = n * PacketSize
<1>1. Typed /\ Typed'
  BY TypedHeader DEF IInv
<1>2. pc = "head" /\ Rest > 0 /\ out' = Put(HeaderBytes) /\ played' = played
  BY DEF WriteHeader, RemuxKeeps, HeaderBytes
<1>3. Len(in) >= 6 /\ out \in Seq(Int) /\ played \in Seq(Int) /\ Len(out) \in Nat
      /\ OutCap \in Nat
  BY <1>1, <1>2, SizeAssumption DEF Typed
<1>4. /\ HeaderBytes \in Seq(Int) /\ Len(HeaderBytes) = HeaderLength
      /\ HeaderLength \in Nat \ {0} /\ HeaderLength < PacketSize
  BY <1>1, <1>2, <1>3, Header
<1> DEFINE x == PacketCount(PesLength(in)) * PacketSize
           y == i * PacketSize
           s == played \o out
<1>5. x \in Nat /\ y \in Nat /\ PacketSize \in Nat \ {0} /\ y + PacketSize <= x
  BY <1>1, <1>2, ToCome
<1>6. x + Len(out) <= OutCap + y + 0
  BY <1>2 DEF IInv, Room, Begun
<1>7. Begun = 0
  BY <1>2 DEF Begun
<1>8. s \in Seq(Int)
  BY <1>3
<1> HIDE DEF x, y, s
<1>9. Len(HeaderBytes) <= OutCap - Len(out)
  BY <1>3, <1>4, <1>5, <1>6
<1>10. played' \o out' = s \o HeaderBytes
  BY <1>1, <1>2, <1>4, <1>9, Written DEF s
<1>11. \E n \in Nat : Len(s) = n * PacketSize
  <2>1. PICK n \in Nat : Len(s) = n * PacketSize + 0
    BY <1>7 DEF IInv, Whole, s
  <2>2. n * PacketSize \in Nat
    BY <1>5, Times
  <2> QED
    BY <2>1, <2>2
<1> QED
  BY <1>4, <1>8, <1>10, <1>11 DEF s

\* The payload goes behind the header.
LEMMA DataGoes ==
  ASSUME IInv, WriteData
  PROVE  /\ DataBytes \in Seq(Int) /\ Len(DataBytes) = PacketSize - HeaderLength
         /\ HeaderLength \in Nat \ {0} /\ HeaderLength < PacketSize
         /\ played' \o out' = (played \o out) \o DataBytes
<1>1. Typed /\ Typed'
  BY TypedData DEF IInv
<1>2. pc = "data" /\ out' = Put(DataBytes) /\ played' = played
  BY DEF WriteData, RemuxKeeps, DataBytes
<1>3. Len(in) >= 6 /\ Rest > 0 /\ out \in Seq(Int) /\ played \in Seq(Int) /\ Len(out) \in Nat
      /\ OutCap \in Nat /\ i \in Nat
  BY <1>1, <1>2, SizeAssumption DEF Typed
<1>4. /\ DataBytes \in Seq(Int) /\ Len(DataBytes) = PacketSize - HeaderLength
      /\ HeaderLength \in Nat \ {0} /\ HeaderLength < PacketSize
  BY <1>1, <1>2, <1>3, Header, Data
<1> DEFINE x == PacketCount(PesLength(in)) * PacketSize
           y == i * PacketSize
<1>5. x \in Nat /\ y \in Nat /\ PacketSize \in Nat \ {0} /\ y + PacketSize <= x
  BY <1>1, <1>2, <1>3, ToCome
<1>6. x + Len(out) <= OutCap + y + HeaderLength
  BY <1>2 DEF IInv, Room, Begun
<1> HIDE DEF x, y
<1>7. Len(DataBytes) <= OutCap - Len(out)
  BY <1>3, <1>4, <1>5, <1>6
<1> QED
  BY <1>1, <1>2, <1>4, <1>7, Written

\* The header changes nothing of what arrived.
LEMMA ThroughHeader ==
  ASSUME IInv, Numbered, Regular(Stream), PacketsMarked,
         NEW k \in 0 .. Len(sent), Through(k), WriteHeader
  PROVE  Through(k)' /\ Numbered' /\ Regular(Stream)' /\ PacketsMarked'
<1>1. /\ pc = "head" /\ pc' = "data" /\ UNCHANGED <<sent, pending, in, i, played>>
      /\ counters' = Count
  BY DEF WriteHeader, RemuxKeeps
<1>2. Typed /\ Typed'
  BY TypedHeader DEF IInv
<1>0. PICK c \in 0 .. CounterSize - 1 : c = counters[Pid]
  BY <1>2 DEF Typed, Pid, Pids
<1> DEFINE s == played \o out
<1>3. /\ s \in Seq(Int) /\ HeaderBytes \in Seq(Int) /\ Len(HeaderBytes) = HeaderLength
      /\ HeaderLength \in Nat \ {0} /\ HeaderLength < PacketSize
      /\ played' \o out' = s \o HeaderBytes
      /\ \E n \in Nat : Len(s) = n * PacketSize
  BY HeaderGoes
<1>4. PICK n \in Nat : Len(s) = n * PacketSize
  BY <1>3
<1> HIDE DEF s
<1>5. Stream' = Stream
  <2>1. PacketSize \in Nat
    BY SizeAssumption DEF PacketSize, HeaderSize
  <2>2. Len(HeaderBytes) < PacketSize /\ Len(HeaderBytes) <= PacketSize
    BY <1>3, <2>1
  <2>3. TsPackets(s \o HeaderBytes) = TsPackets(s)
    BY <1>3, <1>4, <2>2, Packets
  <2> QED
    BY <1>3, <2>3 DEF Stream, s
<1>6. \A m, pid : Brought(m, pid)' = Brought(m, pid)
  BY <1>1 DEF Brought
<1>7. \A pid : Cut(pid)' = Cut(pid)
  BY <1>1 DEF Cut, CutAt, Rest, Pid, Id
<1>8. Through(k)'
  BY <1>1, <1>5, <1>6, <1>7 DEF Through, Within, Cutting
<1>9. Regular(Stream)' /\ PacketsMarked'
  BY <1>1, <1>5, <1>6 DEF Regular, PacketsMarked
<1>10. Pid' = Pid /\ Pid \in Pids
  BY <1>1 DEF Pid, Id, Pids
<1>11. counters \in [Pids -> 0 .. CounterSize - 1]
  BY <1>2 DEF Typed
<1>12. counters'[Pid] = (c + 1) % CounterSize
       /\ \A pid \in Pids : pid # Pid => counters'[pid] = counters[pid]
  BY <1>0, <1>1, <1>10, <1>11 DEF Count
<1>13. Opened(c)'
  <2>1. HeaderWith(c)' = HeaderWith(c)
    BY <1>1 DEF HeaderWith, Rest, UnitStart, Pid, Id
  <2>2. played' \o out' = s \o HeaderWith(c)
    BY <1>0, <1>3, HeaderCounts
  <2> QED
    BY <1>3, <1>4, <2>1, <2>2 DEF Opened
<1>14. ASSUME NEW pid \in Pids, NEW d PROVE Due(pid, c)' = Due(pid, d)
  BY <1>0, <1>1, <1>10, <1>12 DEF Due
<1>15. Numbered'
  <2>1. \A pid \in Pids : \A j \in 1 .. Len(Stream) :
          IsLast(Stream, j, pid) => ((Stream[j][4] % 16) + 1) % CounterSize = Due(pid, c)'
    BY <1>14 DEF Numbered
  <2> QED
    BY <1>1, <1>5, <1>10, <1>12, <1>13, <2>1 DEF Numbered
<1> QED
  BY <1>8, <1>9, <1>15

\* The begin of a packet is marked, and no other.
LEMMA MarkRight ==
  ASSUME Typed, pc = "data", NEW k \in 0 .. Len(sent), Through(k)
  PROVE  UnitStart = 64 <=> \E n \in 0 .. Len(sent) : Carried(Stream, Pid) = Brought(n, Pid)
<1> DEFINE x == sent[k + 1]
           a == Brought(k, Pid)
           l == Len(sent)
<1>1. /\ k \in Nat /\ k < l /\ PesLength(in) = Len(x) /\ x \in Seq(Byte)
      /\ SubSeq(in, 1, Len(x)) = x /\ (\A pid \in Pids : IsFor(x, pid) <=> pid = Pid)
  BY PacketCut
<1>2. sent \in Scripts /\ in \in Seq(Byte) /\ Pid \in Pids /\ i \in Nat /\ Rest > 0
      /\ Len(in) >= 6 /\ PesLength(in) <= Len(in)
  BY DEF Typed, Pid, Pids
<1>3. l \in Nat /\ PayloadSize \in Nat \ {0, 1}
  BY <1>2, ScriptBytes, SizeAssumption
<1>4. a \in Seq(Byte) /\ Brought(k + 1, Pid) = a \o x
  <2>1. Piece(k + 1, Pid) = x
    BY <1>1, <1>2 DEF Piece
  <2> QED
    BY <1>1, <1>2, <2>1, BroughtOne
<1>5. CutAt = i * PayloadSize /\ CutAt \in Nat /\ CutAt < Len(x)
  <2>1. CutAt \in Nat /\ PesLength(in) \in Nat /\ i * PayloadSize \in Nat
    BY CutWithin
  <2>2. Rest = PesLength(in) - i * PayloadSize
    BY DEF Rest
  <2>3. CutAt = i * PayloadSize
    <3>1. Rest \in Int
      BY <1>2, Measured
    <3>2. Rest >= 0
      BY <1>2, <3>1
    <3> QED
      BY <3>2 DEF CutAt
  <2> HIDE DEF x
  <2> QED
    BY <1>1, <1>2, <2>1, <2>2, <2>3
<1>6. Carried(Stream, Pid) = a \o SubSeq(in, 1, CutAt)
  BY <1>2 DEF Through, Cut
<1>7. Len(SubSeq(in, 1, CutAt)) = CutAt /\ SubSeq(in, 1, CutAt) \in Seq(Byte)
  <2>1. CutAt \in 0 .. Len(in)
    <3>1. Len(in) \in Nat /\ Len(x) \in Nat
      BY <1>1, <1>2
    <3> HIDE DEF x
    <3> QED
      BY <1>1, <1>2, <1>5, <3>1
  <2> QED
    BY <1>2, <2>1
<1>8. CASE i = 0
  <2>1. CutAt = 0
    BY <1>3, <1>5, <1>8
  <2>2. SubSeq(in, 1, 0) = << >>
    BY <1>2, SubSeqEmpty
  <2>3. Carried(Stream, Pid) = a
    BY <1>4, <1>6, <2>1, <2>2, ConcatEmptySeq
  <2> QED
    BY <1>8, <2>3 DEF UnitStart
<1>9. CASE i # 0
  <2>1. CutAt > 0
    <3>1. 1 <= i => 1 * PayloadSize <= i * PayloadSize
      BY <1>2, <1>3, Times
    <3>2. 1 * PayloadSize = PayloadSize
      BY <1>3
    <3> QED
      BY <1>2, <1>3, <1>5, <1>9, <3>1, <3>2
  <2>2. Len(Carried(Stream, Pid)) = Len(a) + CutAt
    BY <1>4, <1>6, <1>7, Cat
  <2>3. Len(Brought(k + 1, Pid)) = Len(a) + Len(x)
    BY <1>1, <1>4, Cat
  <2>4. Len(a) \in Nat /\ Len(x) \in Nat
    BY <1>1, <1>4
  <2> HIDE DEF a, x, l
  <2>5. ASSUME NEW n \in 0 .. l PROVE Carried(Stream, Pid) # Brought(n, Pid)
    <3>1. CASE n <= k
      <4>1. PICK y \in Seq(Byte) : a = Brought(n, Pid) \o y
        <5>1. n \in Nat /\ k \in Nat /\ k <= Len(sent) /\ sent \in Scripts
          BY <1>1, <1>2, <1>3, <2>5 DEF l
        <5>2. \E y \in Seq(Byte) : Brought(k, Pid) = Brought(n, Pid) \o y
          BY <3>1, <5>1, BroughtMore, Zenon
        <5> QED
          BY <5>2 DEF a
      <4>2. Brought(n, Pid) \in Seq(Byte)
        <5>1. n \in Nat /\ n <= n /\ n <= Len(sent)
          BY <1>3, <2>5 DEF l
        <5> QED
          BY <1>2, <5>1, BroughtMore
      <4>3. Len(a) = Len(Brought(n, Pid)) + Len(y)
        BY <4>1, <4>2, Cat
      <4>4. Len(y) \in Nat /\ Len(Brought(n, Pid)) \in Nat
        BY <4>1, <4>2
      <4> QED
        BY <1>5, <2>1, <2>2, <2>4, <4>3, <4>4
    <3>2. CASE n >= k + 1
      <4>1. n \in Nat /\ k + 1 \in Nat /\ k + 1 <= n /\ n <= Len(sent) /\ k + 1 <= Len(sent)
        BY <1>1, <1>3, <2>5, <3>2 DEF l
      <4>2. PICK y \in Seq(Byte) : Brought(n, Pid) = Brought(k + 1, Pid) \o y
        <5>1. sent \in Scripts
          BY <1>2
        <5>2. \E y \in Seq(Byte) : Brought(n, Pid) = Brought(k + 1, Pid) \o y
          BY <4>1, <5>1, BroughtMore, ZenonT(60)
        <5> QED
          BY <5>2
      <4>3. Brought(k + 1, Pid) \in Seq(Byte)
        BY <1>2, <4>1, BroughtMore
      <4>4. Len(Brought(n, Pid)) = Len(Brought(k + 1, Pid)) + Len(y)
        BY <4>2, <4>3, Cat
      <4>5. Len(y) \in Nat
        BY <4>2
      <4> QED
        BY <1>5, <2>2, <2>3, <2>4, <4>4, <4>5
    <3> QED
      BY <1>1, <3>1, <3>2
  <2> QED
    BY <1>9, <2>5 DEF UnitStart, l
<1> QED
  BY <1>8, <1>9

\* The stream has one packet more.
LEMMA OneMore ==
  ASSUME IInv, WriteData, NEW c \in 0 .. CounterSize - 1, Opened(c)
  PROVE  LET p == HeaderWith(c) \o DataBytes IN
         /\ Stream \in Seq(Seq(Int)) /\ p \in Seq(Int) /\ Stream' = Append(Stream, p)
         /\ p[2] = UnitStart /\ p[3] = Pid /\ p[4] % 16 = c
         /\ Payload(p) = DataBytes /\ DataBytes \in Seq(Int)
<1> DEFINE h == HeaderWith(c)
           d == DataBytes
           p == h \o d
<1>1. Typed /\ Len(in) >= 6 /\ Rest > 0
  BY DEF IInv, WriteData, Typed
<1>2. /\ d \in Seq(Int) /\ Len(d) = PacketSize - HeaderLength
      /\ HeaderLength \in Nat \ {0} /\ HeaderLength < PacketSize
      /\ played' \o out' = (played \o out) \o d
  BY DataGoes
<1>3. /\ h \in Seq(Int) /\ Len(h) = HeaderLength
      /\ p \in Seq(Int) /\ Len(p) = PacketSize
      /\ p[2] = UnitStart /\ p[3] = Pid /\ p[4] % 16 = c /\ Payload(p) = d
  <2> HIDE DEF d
  <2> QED
    BY <1>1, <1>2, WholePacket
<1>4. PICK s \in Seq(Int), n \in Nat : Len(s) = n * PacketSize /\ played \o out = s \o h
  BY DEF Opened
<1> HIDE DEF h, d
<1>5. played' \o out' = s \o p
  <2>1. s \in Seq(Int) /\ h \in Seq(Int) /\ d \in Seq(Int)
    BY <1>2, <1>3
  <2>2. (s \o h) \o d = s \o (h \o d)
    BY <2>1, ConcatAssociative
  <2> QED
    BY <1>2, <1>4, <2>2
<1>6. PacketSize \in Nat
  BY SizeAssumption DEF PacketSize, HeaderSize
<1>7. /\ TsPackets(s) \in Seq(Seq(Int)) /\ TsPackets(s \o h) = TsPackets(s)
  <2>1. Len(h) <= PacketSize /\ Len(h) < PacketSize
    BY <1>2, <1>3, <1>6
  <2> QED
    BY <1>3, <1>4, <2>1, Packets
<1>8. TsPackets(s \o p) = Append(TsPackets(s), p)
  <2> HIDE DEF p
  <2>1. Len(p) <= PacketSize
    BY <1>3, <1>6
  <2> QED
    BY <1>3, <1>4, <2>1, Packets
<1>9. Stream = TsPackets(s) /\ Stream' = Append(Stream, p)
  BY <1>4, <1>5, <1>7, <1>8 DEF Stream
<1> QED
  BY <1>2, <1>3, <1>7, <1>9 DEF h, d

\* What of the packet is written grows by the payload.
LEMMA CutMore ==
  ASSUME Typed, WriteData, NEW pid
  PROVE  /\ Cut(pid) \in Seq(Byte)
         /\ Cut(pid)' = Cut(pid) \o (IF Pid = pid THEN DataBytes ELSE << >>)
<1>1. /\ pc = "data" /\ pc' = "head" /\ i' = i + 1 /\ in' = in /\ in \in Seq(Byte)
      /\ Rest > 0 /\ i \in Nat /\ Len(in) >= 6 /\ Len(in) \in Nat
  BY DEF WriteData, RemuxKeeps, Typed
<1> DEFINE m == i * PayloadSize
           l == PesLength(in)
           n == m + IF Rest >= PayloadSize THEN PayloadSize ELSE Rest
<1>2. m \in Nat /\ l \in Nat /\ l <= Len(in) /\ CutAt \in Nat /\ Rest = l - m
  BY <1>1, CutWithin DEF Rest
<1>3. PayloadSize \in Nat /\ (i + 1) * PayloadSize = m + PayloadSize
  BY <1>1, SizeAssumption, Times
<1>4. CutAt = m
  <2>1. Rest \in Int
    BY <1>1, Measured
  <2>2. Rest >= 0
    BY <1>1, <2>1
  <2> QED
    BY <2>2 DEF CutAt
<1>5. CutAt' = n
  <2>1. Rest' = l - (m + PayloadSize) /\ i' * PayloadSize = m + PayloadSize /\ PesLength(in') = l
    BY <1>1, <1>3 DEF Rest
  <2>2. CutAt' = IF Rest' >= 0 THEN m + PayloadSize ELSE l
    BY <2>1 DEF CutAt
  <2> HIDE DEF m, l
  <2> QED
    BY <1>2, <1>3, <2>1, <2>2
<1>6. DataBytes = SubSeq(in, m + 1, n)
  BY DEF DataBytes
<1>7. 1 \in 1 .. Len(in) + 1 /\ m \in 1 - 1 .. Len(in) /\ n \in m .. Len(in)
  <2> HIDE DEF m, l
  <2> QED
    BY <1>1, <1>2, <1>3
<1> HIDE DEF m, n, l
<1>8. SubSeq(in, 1, m) \o SubSeq(in, m + 1, n) = SubSeq(in, 1, n)
  BY <1>1, <1>7, ConcatAdjacentSubSeq, Zenon
<1>9. SubSeq(in, 1, m) \in Seq(Byte)
  BY <1>1, <1>2, <1>7
<1>10. Pid' = Pid
  BY <1>1 DEF Pid, Id
<1>11. CASE pid = Pid
  BY <1>1, <1>4, <1>5, <1>6, <1>8, <1>9, <1>10, <1>11 DEF Cut
<1>12. CASE pid # Pid
  BY <1>1, <1>10, <1>12 DEF Cut
<1> QED
  BY <1>11, <1>12

\* With the payload the packet has arrived.
LEMMA ThroughData ==
  ASSUME IInv, Numbered, Regular(Stream), PacketsMarked,
         NEW k \in 0 .. Len(sent), Through(k), WriteData
  PROVE  Through(k)' /\ Numbered' /\ Regular(Stream)' /\ PacketsMarked'
<1>1. /\ pc = "data" /\ pc' = "head" /\ UNCHANGED <<sent, pending, in, counters>>
  BY DEF WriteData, RemuxKeeps
<1>2. Typed /\ Pid \in Pids
  BY DEF IInv, Pid, Pids
<1>3. PICK c \in 0 .. CounterSize - 1 :
        /\ counters[Pid] = (c + 1) % CounterSize /\ Opened(c)
        /\ \A pid \in Pids : \A j \in 1 .. Len(Stream) :
             IsLast(Stream, j, pid) => ((Stream[j][4] % 16) + 1) % CounterSize = Due(pid, c)
  BY <1>1 DEF Numbered
<1> DEFINE ps == Stream
           p == HeaderWith(c) \o DataBytes
           qs == Append(ps, p)
           n == Len(ps)
<1>4. /\ ps \in Seq(Seq(Int)) /\ p \in Seq(Int) /\ Stream' = qs
      /\ p[2] = UnitStart /\ p[3] = Pid /\ p[4] % 16 = c
      /\ Payload(p) = DataBytes /\ DataBytes \in Seq(Int)
  BY <1>3, OneMore
<1>5. \A m, pid : Brought(m, pid)' = Brought(m, pid)
  BY <1>1 DEF Brought
<1> HIDE DEF p
<1>6. /\ n \in Nat /\ Len(qs) = n + 1 /\ qs[n + 1] = p /\ DOMAIN qs = 1 .. n + 1
      /\ \A j \in 1 .. n : qs[j] = ps[j]
  <2> HIDE DEF ps
  <2> QED
    BY <1>4
<1>7. Through(k)'
  <2>1. Within(k)' /\ Cutting(k)'
    BY <1>1 DEF Through, Within, Cutting
  <2>2. ASSUME NEW pid \in Pids PROVE Carried(qs, pid) = Brought(k, pid) \o Cut(pid)'
    <3> DEFINE e == IF Pid = pid THEN DataBytes ELSE << >>
    <3>1. Carried(qs, pid) = Carried(ps, pid) \o e
      BY <1>4, CarriedMore
    <3>2. Carried(ps, pid) = Brought(k, pid) \o Cut(pid)
      BY DEF Through
    <3>3. Cut(pid) \in Seq(Byte) /\ Cut(pid)' = Cut(pid) \o e
      BY <1>2, CutMore
    <3>4. Brought(k, pid) \in Seq(Byte)
      <4>1. k \in Nat /\ k <= k /\ k <= Len(sent) /\ sent \in Scripts
        BY <1>2, ScriptBytes DEF Typed
      <4> QED
        BY <4>1, BroughtMore
    <3>5. e \in Seq(Int) /\ Seq(Byte) \subseteq Seq(Int)
      <4>1. Byte \subseteq Int
        BY DEF Byte
      <4>2. Seq(Byte) \subseteq Seq(Int)
        BY <4>1, SeqMonotonic, Zenon
      <4>3. e \in Seq(Int)
        BY <1>4
      <4> QED
        BY <4>2, <4>3
    <3>6. Brought(k, pid) \in Seq(Int) /\ Cut(pid) \in Seq(Int)
      BY <3>3, <3>4, <3>5
    <3> HIDE DEF e
    <3>7. (Brought(k, pid) \o Cut(pid)) \o e = Brought(k, pid) \o (Cut(pid) \o e)
      <4>1. e \in Seq(Int)
        BY <3>5
      <4> QED
        BY <3>6, <4>1, ConcatAssociative, SMTT(30)
    <3> QED
      BY <3>1, <3>2, <3>3, <3>7
  <2> QED
    BY <1>4, <1>5, <2>1, <2>2 DEF Through
<1>8. Regular(qs)
  <2> SUFFICES ASSUME NEW j \in 1 .. n + 1 PROVE Payload(qs[j]) \in Seq(Int)
    BY <1>6 DEF Regular
  <2>1. CASE j = n + 1
    BY <1>4, <1>6, <2>1
  <2>2. CASE j # n + 1
    <3>1. j \in 1 .. n
      BY <1>6, <2>2
    <3> QED
      BY <1>6, <3>1 DEF Regular
  <2> QED
    BY <2>1, <2>2
<1>9. Numbered'
  <2> SUFFICES ASSUME NEW pid \in Pids, NEW j \in 1 .. n + 1, IsLast(qs, j, pid)
               PROVE  ((qs[j][4] % 16) + 1) % CounterSize = counters[pid]
    <3>1. \A pid : Due(pid, c)' = counters[pid]
      BY <1>1 DEF Due
    <3> QED
      BY <1>1, <1>4, <1>6, <3>1, ZenonT(60) DEF Numbered
  <2>1. CASE j = n + 1
    <3>1. pid = Pid
      BY <1>4, <1>6, <2>1 DEF IsLast
    <3> QED
      BY <1>3, <1>4, <1>6, <2>1, <3>1
  <2>2. CASE j # n + 1
    <3>1. j \in 1 .. n /\ n + 1 \in j + 1 .. n + 1
      BY <1>6, <2>2
    <3>2. pid # Pid
      BY <1>4, <1>6, <3>1 DEF IsLast
    <3>3. IsLast(ps, j, pid)
      <4>1. \A l \in j + 1 .. n : l \in j + 1 .. n + 1 /\ l \in 1 .. n
        BY <1>6, <3>1
      <4> QED
        BY <1>6, <3>1, <4>1 DEF IsLast
    <3>4. Due(pid, c) = counters[pid]
      BY <3>2 DEF Due
    <3> QED
      BY <1>3, <1>6, <3>1, <3>3, <3>4
  <2> QED
    BY <2>1, <2>2
<1>10. PacketsMarked'
  <2> DEFINE Counting(s, j) ==
               \A q \in 1 .. j - 1 :
                 s[q][3] = s[j][3] /\ (\A l \in q + 1 .. j - 1 : s[l][3] # s[j][3]) =>
                   s[j][4] % 16 = ((s[q][4] % 16) + 1) % CounterSize
             Marks(s, j) ==
               s[j][2] = 64 <=> \E m \in 0 .. Len(sent) :
                 Carried(SubSeq(s, 1, j - 1), s[j][3]) = Brought(m, s[j][3])
  <2>1. \A j \in 1 .. n : Counting(ps, j) /\ Marks(ps, j)
    <3>1. DOMAIN Stream = 1 .. n
      <4> HIDE DEF n
      <4> QED
        BY <1>4 DEF n
    <3> QED
      BY <3>1 DEF PacketsMarked
  <2>2. (\A j \in 1 .. n + 1 : Counting(qs, j) /\ Marks(qs, j)) => PacketsMarked'
    <3>1. Stream' = qs /\ sent' = sent /\ DOMAIN qs = 1 .. n + 1
      BY <1>1, <1>4, <1>6
    <3> HIDE DEF qs, n
    <3>2. ASSUME \A j \in 1 .. n + 1 : Counting(qs, j) /\ Marks(qs, j)
          PROVE  PacketsMarked'
      BY <1>5, <3>1, <3>2, ZenonT(60) DEF PacketsMarked
    <3> QED
      BY <3>2
  <2> SUFFICES ASSUME NEW j \in 1 .. n + 1 PROVE Counting(qs, j) /\ Marks(qs, j)
    BY <2>2
  <2>3. CASE j \in 1 .. n
    <3>1. qs[j] = ps[j]
      BY <1>6, <2>3
    <3>2. \A q \in 1 .. j - 1 : q \in 1 .. n /\ \A l \in q + 1 .. j - 1 : l \in 1 .. n
      BY <1>6, <2>3
    <3>3. Counting(qs, j)
      <4> SUFFICES ASSUME NEW q \in 1 .. j - 1, qs[q][3] = qs[j][3],
                          \A l \in q + 1 .. j - 1 : qs[l][3] # qs[j][3]
                   PROVE  qs[j][4] % 16 = ((qs[q][4] % 16) + 1) % CounterSize
        OBVIOUS
      <4>1. Counting(ps, j)
        BY <2>1, <2>3
      <4>2. qs[q] = ps[q]
        BY <1>6, <3>2
      <4>3. ASSUME NEW l \in q + 1 .. j - 1 PROVE ps[l][3] # ps[j][3]
        <5>1. qs[l] = ps[l]
          BY <1>6, <3>2
        <5> QED
          BY <3>1, <5>1
      <4> HIDE DEF ps, qs
      <4>4. ps[q][3] = ps[j][3]
        BY <3>1, <4>2
      <4>5. ps[j][4] % 16 = ((ps[q][4] % 16) + 1) % CounterSize
        BY <4>1, <4>3, <4>4, Zenon
      <4> QED
        BY <3>1, <4>2, <4>5
    <3>4. SubSeq(qs, 1, j - 1) = SubSeq(ps, 1, j - 1)
      <4> HIDE DEF ps
      <4> QED
        BY <1>4, <2>3
    <3>5. Marks(ps, j)
      BY <2>1, <2>3
    <3>6. Marks(qs, j)
      <4> HIDE DEF qs, ps
      <4> QED
        BY <3>1, <3>4, <3>5
    <3> QED
      BY <3>3, <3>6
  <2>4. CASE j = n + 1
    <3>1. j - 1 = n /\ qs[j] = p
      BY <1>6, <2>4
    <3>2. SubSeq(qs, 1, n) = ps
      <4> HIDE DEF ps
      <4> QED
        BY <1>4
    <3>3. Marks(qs, j)
      BY <1>1, <1>2, <1>4, <3>1, <3>2, MarkRight
    <3>4. Counting(qs, j)
      <4> SUFFICES ASSUME NEW q \in 1 .. n, qs[q][3] = p[3],
                          \A l \in q + 1 .. n : qs[l][3] # p[3]
                   PROVE  p[4] % 16 = ((qs[q][4] % 16) + 1) % CounterSize
        BY <3>1
      <4>1. IsLast(ps, q, Pid)
        <5>1. \A l \in q + 1 .. n : l \in 1 .. n
          BY <1>6
        <5> QED
          BY <1>4, <1>6, <5>1 DEF IsLast
      <4>2. Due(Pid, c) = c
        BY <1>1 DEF Due
      <4> QED
        BY <1>2, <1>3, <1>4, <1>6, <4>1, <4>2
    <3> QED
      BY <3>3, <3>4
  <2>5. j \in 1 .. n \/ j = n + 1
    <3> HIDE DEF n
    <3> QED
      BY <1>6
  <2> QED
    BY <2>3, <2>4, <2>5
<1> QED
  BY <1>4, <1>7, <1>8, <1>9, <1>10

\* What seems a packet is one, and fits.
LEMMA ClearFits ==
  ASSUME Clear, Typed, Delivered
  PROVE  Fitting
<1> SUFFICES ASSUME Seems(in) PROVE PesLength(in) <= MinIn
  BY DEF Fitting
<1>1. PICK k \in 0 .. Len(sent) : Through(k)
  BY DEF Delivered
<1>2. Within(k) /\ Len(in) >= 6
  BY <1>1 DEF Through, Seems
<1>3. k < Len(sent) /\ Seems(sent[k + 1]) /\ in \o pending = Behind(sent, k)
  BY <1>2, AtPacket
<1>4. k \in Nat
  OBVIOUS
<1>5. PesLength(in) = Len(sent[k + 1]) /\ Len(sent[k + 1]) <= MinIn
  BY <1>2, <1>3, <1>4, PacketAhead
<1> QED
  BY <1>5

\* At the start.
LEMMA ArriveInit ==
  ASSUME Init
  PROVE  JInv
<1>1. IInv
  BY AlignedInit
<1>2. sent \in Scripts /\ pending = FlattenSeq(sent) /\ in = << >> /\ out = << >>
      /\ played = << >> /\ pc = "top"
  BY DEF Init
<1>3. sent \in Seq(Seq(Byte)) /\ pending \in Seq(Byte) /\ Len(sent) \in Nat
  BY <1>2, ScriptBytes
<1>4. Stream = << >>
  <2>1. << >> \in Seq(Int) /\ Len(<< >>) = 0 * PacketSize /\ 0 \in Nat /\ << >> \o << >> = << >>
    BY SizeAssumption DEF PacketSize, HeaderSize
  <2>2. TsPackets(<< >>) \in Seq(Seq(Int)) /\ Len(TsPackets(<< >>)) = 0
    <3>1. Len(<< >>) <= PacketSize
      BY SizeAssumption DEF PacketSize, HeaderSize
    <3> QED
      BY <2>1, <3>1, Packets
  <2>3. Stream = TsPackets(<< >>)
    BY <1>2, <2>1 DEF Stream
  <2> QED
    BY <2>2, <2>3
<1>5. Scanning
  BY <1>2 DEF Scanning
<1>6. Delivered
  <2>1. 0 \in 0 .. Len(sent)
    BY <1>3
  <2>2. Within(0)
    <3>1. in \o pending = pending
      BY <1>2, <1>3
    <3>2. Behind(sent, 0) = FlattenSeq(sent)
      BY <1>2, <2>1, BehindMore
    <3> QED
      BY <1>2, <3>1, <3>2 DEF Within
  <2>3. Cutting(0)
    BY <1>2 DEF Cutting
  <2>4. ASSUME NEW pid \in Pids PROVE Carried(Stream, pid) = Brought(0, pid) \o Cut(pid)
    <3>1. Carried(Stream, pid) = << >>
      BY <1>4, CarriedNone
    <3>2. Cut(pid) = << >>
      BY <1>2 DEF Cut
    <3>3. Brought(0, pid) = << >>
      <4>1. [k \in 1 .. 0 |-> IF IsFor(sent[k], pid) THEN sent[k] ELSE << >>] = << >>
        OBVIOUS
      <4>2. FlattenSeq(<< >>) = << >>
        BY DEF FlattenSeq
      <4> QED
        BY <4>1, <4>2 DEF Brought
    <3> QED
      BY <3>1, <3>2, <3>3
  <2> QED
    BY <2>1, <2>2, <2>3, <2>4 DEF Delivered, Through
<1>7. Numbered
  <2>1. 0 \in 0 .. CounterSize - 1
    BY SizeAssumption
  <2>2. 1 .. Len(Stream) = {}
    BY <1>4
  <2> QED
    BY <1>2, <2>1, <2>2 DEF Numbered
<1>8. Regular(Stream) /\ PacketsMarked
  BY <1>4 DEF Regular, PacketsMarked
<1> QED
  BY <1>1, <1>5, <1>6, <1>7, <1>8 DEF JInv

\* The steps of remux between packets.
LEMMA ArriveBetween ==
  ASSUME Clear, JInv, ScanStart \/ Scan \/ DropPadding \/ DropUnknown \/ StartPacket \/ EndPacket
  PROVE  Scanning' /\ Delivered' /\ Numbered' /\ Regular(Stream)' /\ PacketsMarked'
<1>1. Typed /\ Scanning /\ Delivered /\ Numbered /\ Regular(Stream) /\ PacketsMarked
  BY DEF JInv, IInv
<1>2. /\ UNCHANGED <<sent, pending, played, out, counters>>
      /\ pc # "data" /\ pc' # "data"
  BY <1>1 DEF ScanStart, Scan, DropPadding, DropUnknown, StartPacket, EndPacket, MayStart,
              RemuxKeeps
<1>3. played' \o out' = played \o out
  BY <1>2
<1>4. Stream' = Stream /\ Numbered' /\ Regular(Stream)' /\ PacketsMarked'
  BY <1>1, <1>2, <1>3, OutputKept
<1>5. PICK k \in 0 .. Len(sent) : Through(k)
  BY <1>1 DEF Delivered
<1>6. CASE ScanStart
  <2>1. /\ pc = "top" /\ pc' = "scan" /\ UNCHANGED <<sent, pending, in>>
        /\ Len(in) >= 3 /\ ~ StartCode
    BY <1>1, <1>6 DEF ScanStart, MayStart, RemuxKeeps, Typed
  <2>2. Scanning'
    BY <2>1 DEF Scanning, StartCode
  <2>3. Within(k)' /\ Cutting(k)'
    BY <1>5, <2>1 DEF Through, Within, Cutting
  <2>4. \A pid : Cut(pid)' = << >> /\ Cut(pid) = << >> /\ Brought(k, pid)' = Brought(k, pid)
    BY <2>1 DEF Cut, Brought
  <2>5. Through(k)'
    BY <1>4, <1>5, <2>3, <2>4 DEF Through
  <2> QED
    BY <1>4, <2>1, <2>2, <2>5 DEF Delivered
<1>7. CASE Scan
  <2>1. /\ pc = "scan" /\ in' = After(1) /\ UNCHANGED <<sent, pending>>
        /\ pc' = IF Len(in') >= 3 /\ SubSeq(in', 1, 3) # <<0, 0, 1>> THEN "scan" ELSE "top"
    BY <1>7 DEF Scan, RemuxKeeps
  <2>2. Len(in) >= 3 /\ ~ StartCode /\ ~ Seems(in)
    BY <1>1, <2>1 DEF Scanning, StartCode, Seems
  <2>3. Delivered'
    <3>1. pc \in {"top", "scan"} /\ pc' \in {"top", "scan"}
      BY <2>1
    <3> QED
      BY <1>1, <1>4, <1>5, <2>1, <2>2, <3>1, DropByte
  <2>4. Scanning'
    <3> SUFFICES ASSUME pc' = "scan" PROVE Len(in') >= 3 /\ ~ StartCode'
      BY DEF Scanning
    <3>1. Len(in') >= 3 /\ SubSeq(in', 1, 3) # <<0, 0, 1>>
      BY <2>1
    <3>2. Len(<<0, 0, 1>>) = 3
      OBVIOUS
    <3>3. SubSeq(<<0, 0, 1>>, 1, 3) = <<0, 0, 1>>
      <4>1. <<0, 0, 1>> \in Seq(Int)
        OBVIOUS
      <4> QED
        BY <3>2, <4>1, SubSeqFull
    <3>4. ~ IsPrefix(<<0, 0, 1>>, in')
      BY <3>1, <3>2, <3>3 DEF IsPrefix
    <3> QED
      BY <3>1, <3>4 DEF StartCode
  <2> QED
    BY <1>4, <2>3, <2>4
<1>8. CASE DropPadding
  <2>1. pc' # "scan"
    BY <1>8 DEF DropPadding, MayStart, RemuxKeeps
  <2>2. Delivered'
    BY <1>1, <1>4, <1>5, <1>8, ThroughPadding
  <2> QED
    BY <1>4, <2>1, <2>2 DEF Scanning
<1>9. CASE DropUnknown
  <2>1. /\ pc = "top" /\ pc' = "top" /\ in' = After(1) /\ UNCHANGED <<sent, pending>>
        /\ Len(in) >= 6 /\ ~ Seems(in)
    BY <1>9 DEF DropUnknown, MayStart, RemuxKeeps, Seems, Id
  <2>2. Delivered'
    <3>1. Len(in) >= 3 /\ pc \in {"top", "scan"} /\ pc' \in {"top", "scan"}
      BY <1>1, <2>1 DEF Typed
    <3> QED
      BY <1>1, <1>4, <1>5, <2>1, <3>1, DropByte
  <2> QED
    BY <1>4, <2>1, <2>2 DEF Scanning
<1>10. CASE StartPacket
  <2>1. pc' # "scan" /\ sent' = sent
    BY <1>10 DEF StartPacket, MayStart, RemuxKeeps
  <2>2. Through(k)'
    BY <1>1, <1>4, <1>5, <1>10, ThroughStart
  <2> QED
    BY <1>4, <2>1, <2>2 DEF Scanning, Delivered
<1>11. CASE EndPacket
  <2>1. pc' # "scan"
    BY <1>11 DEF EndPacket
  <2>2. Delivered'
    BY <1>1, <1>4, <1>5, <1>11, ThroughEnd
  <2> QED
    BY <1>4, <2>1, <2>2 DEF Scanning
<1> QED
  BY <1>6, <1>7, <1>8, <1>9, <1>10, <1>11

\* The steps of the other threads, and none.
LEMMA ArriveAround ==
  ASSUME JInv, Feed \/ Take \/ UNCHANGED vars
  PROVE  Scanning' /\ Delivered' /\ Numbered' /\ Regular(Stream)' /\ PacketsMarked'
<1>1. Typed /\ Scanning /\ Delivered /\ Numbered /\ Regular(Stream) /\ PacketsMarked
  BY DEF JInv, IInv
<1>2. played' \o out' = played \o out
  <2>1. CASE Take
    <3>1. BlockSize \in 0 .. Len(out) /\ played \in Seq(Int) /\ out \in Seq(Int)
      BY <1>1, <2>1, SizeAssumption DEF Take, Typed
    <3>2. played' = played \o SubSeq(out, 1, BlockSize)
          /\ out' = SubSeq(out, BlockSize + 1, Len(out))
      BY <2>1 DEF Take
    <3>3. (played \o SubSeq(out, 1, BlockSize)) \o SubSeq(out, BlockSize + 1, Len(out))
            = played \o out
      BY <3>1, Split, ZenonT(60)
    <3> QED
      BY <3>2, <3>3
  <2>2. CASE Feed \/ UNCHANGED vars
    BY <2>2 DEF Feed, vars
  <2> QED
    BY <2>1, <2>2
<1>3. Stream' = Stream
  BY <1>2 DEF Stream
<1>4. PICK k \in 0 .. Len(sent) : Through(k)
  BY <1>1 DEF Delivered
<1>5. UNCHANGED <<sent, pc, counters>>
  BY DEF Feed, Take, vars
<1>6. /\ Through(k)' /\ Scanning'
      /\ pc = "data" => Pid' = Pid /\ Rest' = Rest /\ UnitStart' = UnitStart
  <2>1. CASE Feed
    BY <1>1, <1>3, <1>4, <2>1, ThroughFeed
  <2>2. CASE Take \/ UNCHANGED vars
    <3>1. UNCHANGED <<sent, pending, in, pc, i>>
      BY <2>2 DEF Take, vars
    <3>2. Through(k)'
      BY <1>3, <1>4, <3>1, ThroughTake
    <3>3. Scanning'
      BY <1>1, <3>1 DEF Scanning, StartCode
    <3>4. Pid' = Pid /\ Rest' = Rest /\ UnitStart' = UnitStart
      BY <3>1 DEF Pid, Id, Rest, UnitStart
    <3> QED
      BY <3>2, <3>3, <3>4
  <2> QED
    BY <2>1, <2>2
<1>7. Numbered' /\ Regular(Stream)' /\ PacketsMarked'
  BY <1>1, <1>2, <1>5, <1>6, OutputKept
<1>8. Delivered'
  BY <1>5, <1>6 DEF Delivered
<1> QED
  BY <1>6, <1>7, <1>8

\* The steps that write.
LEMMA ArriveWrite ==
  ASSUME JInv, WriteHeader \/ WriteData
  PROVE  Scanning' /\ Delivered' /\ Numbered' /\ Regular(Stream)' /\ PacketsMarked'
<1>1. IInv /\ Delivered /\ Numbered /\ Regular(Stream) /\ PacketsMarked
  BY DEF JInv
<1>2. PICK k \in 0 .. Len(sent) : Through(k)
  BY <1>1 DEF Delivered
<1>3. Through(k)' /\ Numbered' /\ Regular(Stream)' /\ PacketsMarked'
  BY <1>1, <1>2, ThroughHeader, ThroughData
<1>4. sent' = sent /\ pc' # "scan"
  BY DEF WriteHeader, WriteData, RemuxKeeps
<1> QED
  BY <1>2, <1>3, <1>4 DEF Delivered, Scanning

\* Every step.
LEMMA ArriveNext ==
  ASSUME Clear, JInv, [Next]_vars
  PROVE  JInv'
<1>1. IInv /\ Fitting
  BY ClearFits DEF JInv, IInv
<1>2. IInv'
  BY <1>1, AlignedNext
<1>3. Scanning' /\ Delivered' /\ Numbered' /\ Regular(Stream)' /\ PacketsMarked'
  BY ArriveBetween, ArriveAround, ArriveWrite DEF Next, Remux
<1> QED
  BY <1>2, <1>3 DEF JInv

\* What is cut in two is both of them.
LEMMA InTwo ==
  ASSUME NEW S, NEW s \in Seq(S), NEW n \in 0 .. Len(s)
  PROVE  /\ SubSeq(s, 1, n) \in Seq(S) /\ SubSeq(s, n + 1, Len(s)) \in Seq(S)
         /\ s = SubSeq(s, 1, n) \o SubSeq(s, n + 1, Len(s))
<1> DEFINE a == SubSeq(s, 1, n)
           b == SubSeq(s, n + 1, Len(s))
<1>1. << >> \in Seq(S)
  OBVIOUS
<1>2. a \in Seq(S) /\ b \in Seq(S) /\ (<< >> \o a) \o b = << >> \o s
  BY <1>1, Split, ZenonT(60)
<1> HIDE DEF a, b
<1>3. << >> \o a = a /\ << >> \o s = s
  BY <1>2, ConcatEmptySeq
<1> QED
  BY <1>2, <1>3 DEF a, b

\* Four in a row.
LEMMA FourInRow ==
  ASSUME NEW a \in Seq(Byte), NEW c \in Seq(Byte), NEW t \in Seq(Byte), NEW w \in Seq(Byte)
  PROVE  (a \o (c \o t)) \o w = (a \o c) \o (t \o w)
<1>1. a \o (c \o t) = (a \o c) \o t
  BY ConcatAssociative, SMTT(30)
<1>2. a \o c \in Seq(Byte)
  OBVIOUS
<1>3. ((a \o c) \o t) \o w = (a \o c) \o (t \o w)
  BY <1>2, ConcatAssociative, SMTT(30)
<1> QED
  BY <1>1, <1>3

\* All brings what some bring, and more.
LEMMA AllBrought ==
  ASSUME sent \in Scripts, Len(sent) \in Nat, NEW n \in Nat, n <= Len(sent), NEW pid
  PROVE  \E x \in Seq(Byte) : Brought(Len(sent), pid) = Brought(n, pid) \o x
<1>1. Len(sent) <= Len(sent)
  OBVIOUS
<1> QED
  BY <1>1, BroughtMore, ZenonT(60)

\* All brings what a piece brings, and more.
LEMMA PieceBrought ==
  ASSUME sent \in Scripts, NEW k \in Nat, k < Len(sent), NEW pid
  PROVE  \E x \in Seq(Byte) :
           Brought(Len(sent), pid) = (Brought(k, pid) \o Piece(k + 1, pid)) \o x
<1>1. Len(sent) \in Nat
  BY ScriptBytes
<1>2. PICK n \in Nat : n = k + 1
  OBVIOUS
<1>3. Brought(n, pid) = Brought(k, pid) \o Piece(n, pid)
  BY <1>2, BroughtOne
<1>4. n <= Len(sent) /\ Len(sent) <= Len(sent)
  BY <1>1, <1>2
<1>5. \E x \in Seq(Byte) : Brought(Len(sent), pid) = Brought(n, pid) \o x
  BY <1>1, <1>4, AllBrought
<1> QED
  BY <1>2, <1>3, <1>5

\* What is through, and what is cut of the next piece, is the begin of the whole.
LEMMA Arrives ==
  ASSUME Typed, Delivered
  PROVE  PesArrives
<1>1. PICK k \in 0 .. Len(sent) : Through(k)
  BY DEF Delivered
<1>2. sent \in Scripts /\ Len(sent) \in Nat /\ k \in Nat
  BY ScriptBytes DEF Typed
<1> SUFFICES ASSUME NEW pid \in Pids PROVE IsPrefix(Carried(Stream, pid), Brought(Len(sent), pid))
  BY DEF PesArrives
<1> DEFINE a == Brought(k, pid)
           z == Brought(Len(sent), pid)
<1>3. Carried(Stream, pid) = a \o Cut(pid)
  BY <1>1 DEF Through
<1>4. k <= Len(sent) /\ Len(sent) <= Len(sent)
  BY <1>2
<1>5. PICK x \in Seq(Byte) : z = a \o x
  BY <1>2, <1>4, BroughtMore, ZenonT(60)
<1>6. a \in Seq(Byte)
  BY <1>2, <1>4, BroughtMore
<1>7. CASE Cut(pid) = << >>
  <2> HIDE DEF a, z
  <2>1. IsPrefix(a, a \o x)
    BY <1>6, InFront
  <2> QED
    BY <1>3, <1>5, <1>6, <1>7, <2>1, ConcatEmptySeq DEF z
<1>8. CASE Cut(pid) # << >>
  <2>1. pc \in {"head", "data"} /\ pid = Pid /\ Cut(pid) = SubSeq(in, 1, CutAt)
    BY <1>8 DEF Cut
  <2> DEFINE y == sent[k + 1]
             t == SubSeq(y, CutAt + 1, Len(y))
  <2>2. /\ k < Len(sent) /\ y \in Seq(Byte) /\ PesLength(in) = Len(y)
        /\ SubSeq(in, 1, Len(y)) = y /\ (IsFor(y, pid) <=> pid = Pid)
    BY <1>1, <2>1, PacketCut
  <2>3. CutAt \in Nat /\ CutAt <= Len(y) /\ Len(y) <= Len(in)
    BY <2>1, <2>2, CutWithin
  <2>4. y = SubSeq(in, 1, CutAt) \o t /\ SubSeq(in, 1, CutAt) \in Seq(Byte) /\ t \in Seq(Byte)
    <3>1. in \in Seq(Byte) /\ CutAt \in 0 .. Len(y) /\ Len(y) \in 0 .. Len(in)
      <4>1. in \in Seq(Byte) /\ Len(y) \in Nat
        BY <2>2 DEF Typed
      <4> QED
        BY <2>3, <4>1
    <3> DEFINE l == Len(y)
               c == CutAt
               u == SubSeq(in, l + 1, Len(in))
               d == SubSeq(y, 1, c)
    <3>2. in = y \o u /\ u \in Seq(Byte)
      <4>1. in = SubSeq(in, 1, l) \o u /\ u \in Seq(Byte)
        BY <3>1, InTwo
      <4> QED
        BY <2>2, <4>1
    <3>3. y = d \o t /\ d \in Seq(Byte) /\ t \in Seq(Byte)
      BY <2>2, <3>1, InTwo
    <3> HIDE DEF y, u, t
    <3>4. SubSeq(y \o u, 1, c) = d
      BY <2>2, <3>1, <3>2, FirstStay
    <3>5. SubSeq(in, 1, CutAt) = d
      BY <3>2, <3>4
    <3> QED
      BY <3>3, <3>5
  <2>5. Piece(k + 1, pid) = y
    BY <2>1, <2>2 DEF Piece
  <2>6. PICK w \in Seq(Byte) : z = (a \o y) \o w
    BY <1>2, <2>2, <2>5, PieceBrought
  <2> DEFINE c == SubSeq(in, 1, CutAt)
  <2>7. c \in Seq(Byte) /\ y = c \o t /\ t \in Seq(Byte)
    BY <2>4
  <2> HIDE DEF a, z, y, t, c
  <2>8. z = (a \o c) \o (t \o w)
    <3>1. a \in Seq(Byte) /\ c \in Seq(Byte) /\ t \in Seq(Byte) /\ w \in Seq(Byte)
      BY <1>6, <2>7
    <3>2. (a \o (c \o t)) \o w = (a \o c) \o (t \o w)
      BY <3>1, FourInRow, SMTT(60)
    <3>3. z = (a \o (c \o t)) \o w
      BY <2>6, <2>7
    <3> QED
      BY <3>2, <3>3
  <2>9. a \o c \in Seq(Byte) /\ t \o w \in Seq(Byte)
    BY <1>6, <2>6, <2>7
  <2>10. IsPrefix(a \o c, (a \o c) \o (t \o w))
    BY <2>9, InFront
  <2>11. Carried(Stream, pid) = a \o c
    BY <1>3, <2>1 DEF c
  <2> QED
    BY <2>8, <2>10, <2>11 DEF z
<1> QED
  BY <1>7, <1>8

\* As long as nothing between the packets looks like the begin of one, what the
\* driver's filter for a PID gets is what the server sent for it, byte for byte, in
\* order, and with nothing cut off by a full ring (mp_RemuxStream, vdrviewer.cpp:1289).
THEOREM PesArriveWhole == ASSUME Clear PROVE Spec => []PesArrives
<1>1. Init => JInv
  BY ArriveInit
<1>2. JInv /\ [Next]_vars => JInv'
  BY ArriveNext
<1>3. JInv => PesArrives
  BY Arrives DEF JInv, IInv
<1> QED
  BY <1>1, <1>2, <1>3, PTL DEF Spec

\* The same scripts: the continuity counter of a PID goes up by one from TS packet
\* to TS packet, and a TS packet is marked as a start exactly when all before it is
\* whole PES packets (ts[1] and ts[3], vdrviewer.cpp:1398 to 1414).
THEOREM PacketsAreMarked == ASSUME Clear PROVE Spec => []PacketsMarked
<1>1. Init => JInv
  BY ArriveInit
<1>2. JInv /\ [Next]_vars => JInv'
  BY ArriveNext
<1>3. JInv => PacketsMarked
  BY DEF JInv
<1> QED
  BY <1>1, <1>2, <1>3, PTL DEF Spec
================================================================================
