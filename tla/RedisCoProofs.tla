---------------------------- MODULE RedisCoProofs ----------------------------
(***************************************************************************)
(* The redis client of a core keeps the order of the calls of each shard,  *)
(* and every caller gets the answer to its own command: for any number of  *)
(* coroutines, shards and calls, with and without a thread of its own, and *)
(* whichever connections break.  RedisCo implements RedisFifo.             *)
(***************************************************************************)
EXTENDS RedisCo, FiniteSetTheorems, WellFoundedInduction, TLAPS

-----------------------------------------------------------------------------
(* Sequences.  Part and FlattenSeq are recursive functions; what they      *)
(* return is shown by going through the indexes of a sequence.             *)

(* Induction up to n, from the library's well-founded order on finite sets.*)
LEMMA UpTo ==
  ASSUME NEW n \in Nat, NEW P, 0 \in P, \A i \in 0..(n - 1) : i \in P => i + 1 \in P
  PROVE  \A i \in 0..n : i \in P
<1> DEFINE S == {i \in 0..n : i \notin P}
           T == {0..i : i \in S}
<1> SUFFICES ASSUME S # {} PROVE FALSE
  OBVIOUS
<1>1. T # {}
  OBVIOUS
<1>2. T \subseteq FiniteSubsetsOf(Nat)
  <2>1. \A i \in S : 0..i \in SUBSET Nat /\ IsFiniteSet(0..i)
    BY FS_Interval
  <2> QED BY <2>1 DEF FiniteSubsetsOf
<1> HIDE DEF T
<1>3. PICK x \in T : \A y \in T : ~ (<<y, x>> \in StrictSubsetOrdering(Nat))
  BY <1>1, <1>2, FS_StrictSubsetOrderingWellFounded, WFMin
<1>4. PICK k \in S : x = 0..k
  BY DEF T
<1>5. k # 0 /\ k - 1 \in 0..(n - 1) /\ (k - 1) + 1 = k
  OBVIOUS
<1>6. k - 1 \in S
  BY <1>5
<1>7. 0..(k - 1) \in T
  BY <1>6 DEF T
<1>8. 0..(k - 1) \subseteq 0..k /\ 0..(k - 1) # 0..k
  BY <1>5
<1>9. <<0..(k - 1), x>> \in StrictSubsetOrdering(Nat)
  BY <1>2, <1>4, <1>7, <1>8 DEF StrictSubsetOrdering, FiniteSubsetsOf
<1> QED BY <1>3, <1>7, <1>9

(* Two sequences are equal when their elements are.                        *)
LEMMA SameSeq ==
  ASSUME NEW T, NEW p \in Seq(T), NEW q \in Seq(T), Len(p) = Len(q),
         \A i \in 1..Len(p) : p[i] = q[i]
  PROVE  p = q
  OBVIOUS

LEMMA Joined ==
  ASSUME NEW T, NEW p \in Seq(T), NEW q \in Seq(T), NEW r \in Seq(T), NEW x \in T
  PROVE  /\ p \o q \in Seq(T) /\ Append(p, x) \in Seq(T)
         /\ <<>> \in Seq(T) /\ <<x>> \in Seq(T)
         /\ <<>> \o p = p /\ p \o <<>> = p
         /\ (p \o q) \o r = p \o (q \o r)
         /\ p \o Append(q, x) = Append(p \o q, x)
         /\ Append(p, x) \o q = p \o (<<x>> \o q)
         /\ p # <<>> => /\ Head(p) \in T /\ Tail(p) \in Seq(T) /\ p = <<Head(p)>> \o Tail(p)
                        /\ Head(p \o q) = Head(p) /\ Tail(p \o q) = Tail(p) \o q
                        /\ Len(Tail(p)) = Len(p) - 1
         /\ Len(p \o q) = Len(p) + Len(q)
  <1>1. p \o q \in Seq(T) /\ Append(p, x) \in Seq(T) /\ <<>> \in Seq(T) /\ <<x>> \in Seq(T)
    OBVIOUS
  <1>2. <<>> \o p = p /\ p \o <<>> = p
    OBVIOUS
  <1>3. (p \o q) \o r = p \o (q \o r)
    OBVIOUS
  <1>4. p \o Append(q, x) = Append(p \o q, x)
    OBVIOUS
  <1>5. Append(p, x) \o q = p \o (<<x>> \o q)
    OBVIOUS
  <1>6. ASSUME p # <<>>
        PROVE  /\ Head(p) \in T /\ Tail(p) \in Seq(T) /\ p = <<Head(p)>> \o Tail(p)
               /\ Head(p \o q) = Head(p) /\ Tail(p \o q) = Tail(p) \o q
               /\ Len(Tail(p)) = Len(p) - 1
    BY <1>6
  <1> QED BY <1>1, <1>2, <1>3, <1>4, <1>5, <1>6

(* f goes through q and collects what is for the shard s.                  *)
Parts(f, q, s, n) ==
  f = [i \in 0..n |-> IF i = 0 THEN <<>>
                      ELSE IF q[i].s = s THEN Append(f[i - 1], q[i]) ELSE f[i - 1]]

Own(T, s) == {x \in T : x.s = s}

LEMMA PartsStep ==
  ASSUME NEW f, NEW q, NEW s, NEW n \in Nat, Parts(f, q, s, n)
  PROVE  /\ f[0] = <<>>
         /\ \A i \in 0..(n - 1) :
              f[i + 1] = IF q[i + 1].s = s THEN Append(f[i], q[i + 1]) ELSE f[i]
  <1>1. f[0] = <<>>
    BY DEF Parts
  <1>2. ASSUME NEW i \in 0..(n - 1)
        PROVE  f[i + 1] = IF q[i + 1].s = s THEN Append(f[i], q[i + 1]) ELSE f[i]
    <2>1. i + 1 \in 0..n /\ i + 1 # 0 /\ (i + 1) - 1 = i
      OBVIOUS
    <2> QED BY <2>1 DEF Parts
  <1> QED BY <1>1, <1>2

LEMMA OwnSeq ==
  ASSUME NEW T, NEW s
  PROVE  Seq(Own(T, s)) \subseteq Seq(T)
  BY DEF Own

LEMMA PartsExist ==
  ASSUME NEW T, NEW q \in Seq(T), NEW s
  PROVE  \E f : Parts(f, q, s, Len(q))
  <1> DEFINE P == {n \in 0..Len(q) : \E f : Parts(f, q, s, n)}
  <1>1. 0 \in P
    <2> DEFINE f == [i \in 0..0 |-> <<>>]
    <2>1. Parts(f, q, s, 0)
      BY DEF Parts
    <2> QED BY <2>1
  <1>2. ASSUME NEW n \in 0..(Len(q) - 1), n \in P PROVE n + 1 \in P
    <2>1. PICK f : Parts(f, q, s, n)
      BY <1>2
    <2> DEFINE g == [i \in 0..(n + 1) |->
                       IF i <= n THEN f[i]
                       ELSE IF q[n + 1].s = s THEN Append(f[n], q[n + 1]) ELSE f[n]]
    <2>2. \A i \in 0..(n + 1) :
            g[i] = IF i = 0 THEN <<>>
                   ELSE IF q[i].s = s THEN Append(g[i - 1], q[i]) ELSE g[i - 1]
      <3> SUFFICES ASSUME NEW i \in 0..(n + 1)
                   PROVE  g[i] = IF i = 0 THEN <<>>
                                 ELSE IF q[i].s = s THEN Append(g[i - 1], q[i]) ELSE g[i - 1]
        OBVIOUS
      <3>1. CASE i <= n
        <4>1. i \in 0..n /\ (i # 0 => i - 1 \in 0..(n + 1) /\ i - 1 <= n)
          BY <3>1
        <4>2. g[i] = f[i] /\ (i # 0 => g[i - 1] = f[i - 1])
          BY <4>1, <3>1
        <4>3. f[i] = IF i = 0 THEN <<>>
                     ELSE IF q[i].s = s THEN Append(f[i - 1], q[i]) ELSE f[i - 1]
          BY <2>1, <4>1 DEF Parts
        <4> QED BY <4>2, <4>3
      <3>2. CASE i = n + 1
        BY <3>2
      <3> QED BY <3>1, <3>2
    <2>3. g = [i \in 0..(n + 1) |-> g[i]]
      OBVIOUS
    <2> HIDE DEF g
    <2>4. Parts(g, q, s, n + 1)
      BY <2>2, <2>3 DEF Parts
    <2> QED BY <2>4
  <1>3. Len(q) \in P
    <2> HIDE DEF P
    <2>1. Len(q) \in Nat /\ Len(q) \in 0..Len(q)
      OBVIOUS
    <2> QED BY <1>1, <1>2, <2>1, UpTo
  <1> QED BY <1>3

LEMMA PartIs ==
  ASSUME NEW T, NEW q \in Seq(T), NEW s
  PROVE  \E f : Parts(f, q, s, Len(q)) /\ Part(q, s) = f[Len(q)]
  <1> DEFINE h == CHOOSE f : Parts(f, q, s, Len(q))
  <1>1. Parts(h, q, s, Len(q))
    BY PartsExist
  <1>2. Part(q, s) = h[Len(q)]
    BY Zenon DEF Part, Parts
  <1> HIDE DEF h
  <1> QED BY <1>1, <1>2

(* What is collected on the way.                                           *)
LEMMA PartsTyped ==
  ASSUME NEW T, NEW q \in Seq(T), NEW s, NEW f, NEW n \in 0..Len(q), Parts(f, q, s, n)
  PROVE  \A i \in 0..n : f[i] \in Seq(Own(T, s))
  <1> DEFINE P == {i \in 0..n : f[i] \in Seq(Own(T, s))}
  <1>1. 0 \in P
    BY DEF Parts
  <1>2. ASSUME NEW i \in 0..(n - 1), i \in P PROVE i + 1 \in P
    <2>0. i + 1 \in 0..n /\ i + 1 # 0 /\ (i + 1) - 1 = i /\ n \in Nat
      OBVIOUS
    <2>1. f[i + 1] = IF q[i + 1].s = s THEN Append(f[i], q[i + 1]) ELSE f[i]
      BY <2>0 DEF Parts
    <2>2. q[i + 1] \in T
      OBVIOUS
    <2>3. q[i + 1].s = s => q[i + 1] \in Own(T, s)
      BY <2>2 DEF Own
    <2>4. f[i] \in Seq(Own(T, s))
      BY <1>2
    <2>5. f[i + 1] \in Seq(Own(T, s))
      BY <2>1, <2>3, <2>4
    <2> QED BY <2>5
  <1>3. \A i \in 0..n : i \in P
    <2> HIDE DEF P
    <2> QED BY <1>1, <1>2, UpTo
  <1> QED BY <1>3

LEMMA PartType ==
  ASSUME NEW T, NEW q \in Seq(T), NEW s
  PROVE  Part(q, s) \in Seq(Own(T, s)) /\ Part(q, s) \in Seq(T)
  <1>1. Part(q, s) \in Seq(Own(T, s))
    BY PartIs, PartsTyped
  <1> QED BY <1>1 DEF Own

LEMMA PartEmpty ==
  ASSUME NEW s
  PROVE  Part(<<>>, s) = <<>>
  <1>1. PICK f : Parts(f, <<>>, s, 0) /\ Part(<<>>, s) = f[0]
    <2>1. <<>> \in Seq({}) /\ Len(<<>>) = 0
      OBVIOUS
    <2> QED BY <2>1, PartIs
  <1> QED BY <1>1 DEF Parts

LEMMA PartAppend ==
  ASSUME NEW T, NEW q \in Seq(T), NEW s, NEW x \in T
  PROVE  Part(Append(q, x), s) = IF x.s = s THEN Append(Part(q, s), x) ELSE Part(q, s)
  <1> DEFINE r == Append(q, x)
             n == Len(q)
  <1>1. /\ r \in Seq(T) /\ Len(r) = n + 1 /\ n \in Nat /\ r[n + 1] = x
        /\ \A i \in 1..n : r[i] = q[i]
    OBVIOUS
  <1> HIDE DEF r
  <1>2. PICK f : Parts(f, r, s, n + 1) /\ Part(r, s) = f[n + 1]
    BY <1>1, PartIs
  <1>3. PICK g : Parts(g, q, s, n) /\ Part(q, s) = g[n]
    BY PartIs
  <1> DEFINE P == {i \in 0..n : f[i] = g[i]}
  <1>4. 0 \in P
    BY <1>1, <1>2, <1>3 DEF Parts
  <1>5. ASSUME NEW i \in 0..(n - 1), i \in P PROVE i + 1 \in P
    <2>1. i + 1 \in 0..n /\ i + 1 \in 0..(n + 1) /\ i + 1 # 0 /\ (i + 1) - 1 = i /\ r[i + 1] = q[i + 1]
      BY <1>1
    <2>2. f[i + 1] = IF r[i + 1].s = s THEN Append(f[i], r[i + 1]) ELSE f[i]
      BY <1>2, <2>1 DEF Parts
    <2>3. g[i + 1] = IF q[i + 1].s = s THEN Append(g[i], q[i + 1]) ELSE g[i]
      BY <1>3, <2>1 DEF Parts
    <2> QED BY <1>5, <2>1, <2>2, <2>3
  <1>6. f[n] = g[n]
    <2>1. \A i \in 0..n : i \in P
      <3> HIDE DEF P
      <3> QED BY <1>1, <1>4, <1>5, UpTo
    <2> QED BY <1>1, <2>1
  <1>7. f[n + 1] = IF r[n + 1].s = s THEN Append(f[n], r[n + 1]) ELSE f[n]
    <2>1. n + 1 \in 0..(n + 1) /\ n + 1 # 0 /\ (n + 1) - 1 = n
      BY <1>1
    <2> QED BY <1>2, <2>1 DEF Parts
  <1> QED BY <1>1, <1>2, <1>3, <1>6, <1>7 DEF r

LEMMA PartCons ==
  ASSUME NEW T, NEW q \in Seq(T), NEW s, NEW x \in T
  PROVE  Part(<<x>> \o q, s) = IF x.s = s THEN <<x>> \o Part(q, s) ELSE Part(q, s)
  <1> DEFINE r == <<x>> \o q
             n == Len(q)
             e == IF x.s = s THEN <<x>> ELSE <<>>
  <1>1. /\ r \in Seq(T) /\ Len(r) = n + 1 /\ n \in Nat /\ r[1] = x
        /\ \A i \in 1..n : r[i + 1] = q[i]
        /\ \A i \in 1..n : q[i] \in T
    OBVIOUS
  <1> HIDE DEF r
  <1>2. PICK f : Parts(f, r, s, n + 1) /\ Part(r, s) = f[n + 1]
    BY <1>1, PartIs
  <1>3. PICK g : Parts(g, q, s, n) /\ Part(q, s) = g[n]
    BY PartIs
  <1>g. \A i \in 0..n : g[i] \in Seq(Own(T, s))
    <2>1. n \in 0..Len(q)
      BY <1>1
    <2> QED BY <1>3, <2>1, PartsTyped
  <1>e. e \in Seq(T)
    OBVIOUS
  <1> DEFINE P == {i \in 0..n : f[i + 1] = e \o g[i]}
  <1>4. 0 \in P
    <2>1. 1 \in 0..(n + 1) /\ 0 \in 0..(n + 1) /\ 0 \in 0..n
      BY <1>1
    <2>2. 0 \in 0..((n + 1) - 1) /\ 0 + 1 = 1 /\ n + 1 \in Nat
      BY <1>1
    <2>3. f[0] = <<>> /\ f[1] = IF r[1].s = s THEN Append(f[0], r[1]) ELSE f[0]
      BY <1>2, <2>2, PartsStep
    <2>4. g[0] = <<>>
      BY <1>1, <1>3, PartsStep
    <2>5. f[1] = e \o <<>>
      BY <1>1, <2>3
    <2> QED BY <2>1, <2>2, <2>4, <2>5
  <1>5. ASSUME NEW i \in 0..(n - 1), i \in P PROVE i + 1 \in P
    <2>1. /\ i + 1 \in 0..n /\ i + 2 \in 0..(n + 1) /\ i + 1 # 0 /\ (i + 1) - 1 = i /\ (i + 2) - 1 = i + 1
          /\ i + 1 \in 1..n /\ i + 2 # 0 /\ (i + 1) + 1 = i + 2 /\ i \in 0..n
      BY <1>1
    <2>4. r[i + 2] = q[i + 1] /\ q[i + 1] \in T
      BY <1>1, <2>1
    <2>r. n + 1 \in Nat /\ i + 1 \in 0..((n + 1) - 1)
      BY <1>1
    <2>2. f[i + 2] = IF r[i + 2].s = s THEN Append(f[i + 1], r[i + 2]) ELSE f[i + 1]
      <3>1. (i + 1) + 1 = i + 2
        OBVIOUS
      <3> QED BY <1>2, <2>r, <3>1, PartsStep
    <2>3. g[i + 1] = IF q[i + 1].s = s THEN Append(g[i], q[i + 1]) ELSE g[i]
      BY <1>1, <1>3, PartsStep
    <2>5. f[i + 1] = e \o g[i] /\ g[i] \in Seq(T)
      BY <1>5, <1>g, <2>1, OwnSeq
    <2>6. Append(e \o g[i], q[i + 1]) = e \o Append(g[i], q[i + 1])
      <3>1. \A a \in Seq(T), b \in Seq(T), y \in T : Append(a \o b, y) = a \o Append(b, y)
        BY SMTT(40)
      <3> HIDE DEF e
      <3> QED BY <1>e, <2>4, <2>5, <3>1
    <2>7. f[i + 2] = e \o g[i + 1]
      <3> HIDE DEF e
      <3> QED BY <2>2, <2>3, <2>4, <2>5, <2>6
    <2> QED BY <2>1, <2>7
  <1>6. f[n + 1] = e \o g[n]
    <2>1. \A i \in 0..n : i \in P
      <3> HIDE DEF P
      <3> QED BY <1>1, <1>4, <1>5, UpTo
    <2>2. n \in P
      <3> HIDE DEF P
      <3> QED BY <1>1, <2>1
    <2> QED BY <2>2
  <1>7. g[n] \in Seq(T)
    BY <1>g, <1>1, OwnSeq
  <1>8. Part(<<x>> \o q, s) = e \o Part(q, s) /\ Part(q, s) \in Seq(T)
    BY <1>2, <1>3, <1>6, <1>7 DEF r
  <1>9. <<>> \o Part(q, s) = Part(q, s)
    BY <1>8
  <1> QED BY <1>8, <1>9

(* f joins the sequences of q.                                             *)
Flats(f, q, n) == f = [i \in 1..n |-> IF i = 1 THEN q[i] ELSE f[i - 1] \o q[i]]

LEMMA FlatsExist ==
  ASSUME NEW T, NEW q \in Seq(Seq(T))
  PROVE  \E f : Flats(f, q, Len(q))
  <1> DEFINE P == {n \in 0..Len(q) : \E f : Flats(f, q, n)}
  <1>1. 0 \in P
    <2> DEFINE f == [i \in 1..0 |-> <<>>]
    <2>1. Flats(f, q, 0)
      BY DEF Flats
    <2> QED BY <2>1
  <1>2. ASSUME NEW n \in 0..(Len(q) - 1), n \in P PROVE n + 1 \in P
    <2>1. PICK f : Flats(f, q, n)
      BY <1>2
    <2> DEFINE g == [i \in 1..(n + 1) |->
                       IF i <= n THEN f[i] ELSE IF i = 1 THEN q[i] ELSE f[n] \o q[i]]
    <2>2. \A i \in 1..(n + 1) : g[i] = IF i = 1 THEN q[i] ELSE g[i - 1] \o q[i]
      <3> SUFFICES ASSUME NEW i \in 1..(n + 1)
                   PROVE  g[i] = IF i = 1 THEN q[i] ELSE g[i - 1] \o q[i]
        OBVIOUS
      <3>1. CASE i <= n
        <4>1. i \in 1..n /\ (i # 1 => i - 1 \in 1..(n + 1) /\ i - 1 <= n)
          BY <3>1
        <4>2. g[i] = f[i] /\ (i # 1 => g[i - 1] = f[i - 1])
          BY <4>1, <3>1
        <4>3. f[i] = IF i = 1 THEN q[i] ELSE f[i - 1] \o q[i]
          BY <2>1, <4>1 DEF Flats
        <4> QED BY <4>2, <4>3
      <3>2. CASE i = n + 1
        <4>1. g[i] = IF i = 1 THEN q[i] ELSE f[n] \o q[i]
          BY <3>2
        <4>2. i # 1 => i - 1 = n /\ n \in 1..(n + 1) /\ n <= n
          BY <3>2
        <4>3. i # 1 => g[i - 1] = f[n]
          BY <4>2
        <4> QED BY <4>1, <4>3
      <3> QED BY <3>1, <3>2
    <2>3. g = [i \in 1..(n + 1) |-> g[i]]
      OBVIOUS
    <2> HIDE DEF g
    <2>4. Flats(g, q, n + 1)
      BY <2>2, <2>3 DEF Flats
    <2> QED BY <2>4
  <1>3. Len(q) \in P
    <2> HIDE DEF P
    <2>1. Len(q) \in Nat /\ Len(q) \in 0..Len(q)
      OBVIOUS
    <2> QED BY <1>1, <1>2, <2>1, UpTo
  <1> QED BY <1>3

LEMMA FlatIs ==
  ASSUME NEW T, NEW q \in Seq(Seq(T)), Len(q) # 0
  PROVE  \E f : Flats(f, q, Len(q)) /\ FlattenSeq(q) = f[Len(q)]
  <1> DEFINE h == CHOOSE f : Flats(f, q, Len(q))
  <1>1. Flats(h, q, Len(q))
    BY FlatsExist
  <1>2. FlattenSeq(q) = h[Len(q)]
    BY Zenon DEF FlattenSeq, Flats
  <1> HIDE DEF h
  <1> QED BY <1>1, <1>2

(* The same from the empty sequence on: g[i] joins the first i ones.       *)
Joins(g, q, n) == g[0] = <<>> /\ \A i \in 0..(n - 1) : g[i + 1] = g[i] \o q[i + 1]

LEMMA FlatSteps ==
  ASSUME NEW T, NEW q \in Seq(Seq(T))
  PROVE  \E g : Joins(g, q, Len(q)) /\ FlattenSeq(q) = g[Len(q)]
  <1>1. CASE Len(q) = 0
    <2> DEFINE g == [i \in 0..0 |-> <<>>]
    <2>1. Joins(g, q, Len(q))
      BY <1>1 DEF Joins
    <2>2. FlattenSeq(q) = q /\ q = <<>>
      BY <1>1 DEF FlattenSeq
    <2>3. g[Len(q)] = <<>>
      BY <1>1
    <2> QED BY <2>1, <2>2, <2>3
  <1>2. CASE Len(q) # 0
    <2>1. PICK f : Flats(f, q, Len(q)) /\ FlattenSeq(q) = f[Len(q)]
      BY <1>2, FlatIs
    <2> DEFINE n == Len(q)
               g == [i \in 0..n |-> IF i = 0 THEN <<>> ELSE f[i]]
    <2>2. n \in Nat /\ n # 0 /\ n \in 0..n /\ 0 \in 0..n
      BY <1>2
    <2>3. g[0] = <<>> /\ g[n] = f[n]
      BY <2>2
    <2>4. ASSUME NEW i \in 0..(n - 1) PROVE g[i + 1] = g[i] \o q[i + 1]
      <3>1. i + 1 \in 1..n /\ i + 1 \in 0..n /\ i \in 0..n /\ (i + 1) - 1 = i /\ i + 1 # 0
        BY <2>2
      <3>2. f[i + 1] = IF i + 1 = 1 THEN q[i + 1] ELSE f[i] \o q[i + 1]
        BY <2>1, <3>1 DEF Flats
      <3>3. g[i + 1] = f[i + 1] /\ g[i] = IF i = 0 THEN <<>> ELSE f[i]
        BY <3>1
      <3>4. q[i + 1] \in Seq(T)
        BY <3>1
      <3>5. <<>> \o q[i + 1] = q[i + 1]
        BY <3>4
      <3> HIDE DEF g
      <3>6. CASE i = 0
        <4>1. i + 1 = 1
          BY <3>6
        <4> QED BY <3>2, <3>3, <3>5, <3>6, <4>1
      <3>7. CASE i # 0
        <4>1. i + 1 # 1
          BY <3>7
        <4> QED BY <3>2, <3>3, <3>7, <4>1
      <3> QED BY <3>6, <3>7
    <2> HIDE DEF g
    <2>5. Joins(g, q, n)
      BY <2>3, <2>4 DEF Joins
    <2> QED BY <2>1, <2>3, <2>5
  <1> QED BY <1>1, <1>2

LEMMA JoinsTyped ==
  ASSUME NEW T, NEW q \in Seq(Seq(T)), NEW g, NEW n \in 0..Len(q), Joins(g, q, n)
  PROVE  \A i \in 0..n : g[i] \in Seq(T)
  <1> DEFINE P == {i \in 0..n : g[i] \in Seq(T)}
  <1>1. 0 \in P
    <2>1. 0 \in 0..n /\ <<>> \in Seq(T)
      OBVIOUS
    <2> QED BY <2>1 DEF Joins
  <1>2. ASSUME NEW i \in 0..(n - 1), i \in P PROVE i + 1 \in P
    <2>0. i + 1 \in 0..n
      OBVIOUS
    <2>1. g[i + 1] = g[i] \o q[i + 1]
      BY DEF Joins
    <2>2. q[i + 1] \in Seq(T) /\ g[i] \in Seq(T)
      BY <1>2
    <2>3. g[i] \o q[i + 1] \in Seq(T)
      BY <2>2
    <2> QED BY <2>0, <2>1, <2>3
  <1>3. \A i \in 0..n : i \in P
    <2> HIDE DEF P
    <2>1. n \in Nat
      OBVIOUS
    <2> QED BY <1>1, <1>2, <2>1, UpTo
  <1> QED BY <1>3

LEMMA FlatType ==
  ASSUME NEW T, NEW q \in Seq(Seq(T))
  PROVE  FlattenSeq(q) \in Seq(T)
  <1>1. Len(q) \in Nat /\ Len(q) \in 0..Len(q)
    OBVIOUS
  <1> QED BY <1>1, FlatSteps, JoinsTyped

LEMMA FlatEmpty == FlattenSeq(<<>>) = <<>>
  BY DEF FlattenSeq

LEMMA FlatAppend ==
  ASSUME NEW T, NEW q \in Seq(Seq(T)), NEW x \in Seq(T)
  PROVE  FlattenSeq(Append(q, x)) = FlattenSeq(q) \o x
  <1> DEFINE r == Append(q, x)
             n == Len(q)
  <1>1. /\ r \in Seq(Seq(T)) /\ Len(r) = n + 1 /\ n \in Nat /\ r[n + 1] = x
        /\ \A i \in 1..n : r[i] = q[i]
    OBVIOUS
  <1> HIDE DEF r
  <1>2. PICK f : Joins(f, r, n + 1) /\ FlattenSeq(r) = f[n + 1]
    BY <1>1, FlatSteps
  <1>3. PICK g : Joins(g, q, n) /\ FlattenSeq(q) = g[n]
    BY FlatSteps
  <1> DEFINE P == {i \in 0..n : f[i] = g[i]}
  <1>4. 0 \in P
    BY <1>1, <1>2, <1>3 DEF Joins
  <1>5. ASSUME NEW i \in 0..(n - 1), i \in P PROVE i + 1 \in P
    <2>1. i + 1 \in 0..n /\ i + 1 \in 1..n /\ i \in 0..((n + 1) - 1) /\ r[i + 1] = q[i + 1]
      BY <1>1
    <2>2. f[i + 1] = f[i] \o r[i + 1] /\ g[i + 1] = g[i] \o q[i + 1]
      BY <1>2, <1>3, <2>1 DEF Joins
    <2> QED BY <1>5, <2>1, <2>2
  <1>6. f[n] = g[n]
    <2>1. \A i \in 0..n : i \in P
      <3> HIDE DEF P
      <3> QED BY <1>1, <1>4, <1>5, UpTo
    <2> QED BY <1>1, <2>1
  <1>7. f[n + 1] = f[n] \o r[n + 1]
    <2>1. n \in 0..((n + 1) - 1)
      BY <1>1
    <2> QED BY <1>2, <2>1 DEF Joins
  <1> QED BY <1>1, <1>2, <1>3, <1>6, <1>7 DEF r

LEMMA FlatCons ==
  ASSUME NEW T, NEW q \in Seq(Seq(T)), NEW x \in Seq(T)
  PROVE  FlattenSeq(<<x>> \o q) = x \o FlattenSeq(q)
  <1> DEFINE r == <<x>> \o q
             n == Len(q)
  <1>1. /\ r \in Seq(Seq(T)) /\ Len(r) = n + 1 /\ n \in Nat /\ r[1] = x
        /\ \A i \in 1..n : r[i + 1] = q[i]
        /\ \A i \in 1..n : q[i] \in Seq(T)
    OBVIOUS
  <1> HIDE DEF r
  <1>2. PICK f : Joins(f, r, n + 1) /\ FlattenSeq(r) = f[n + 1]
    BY <1>1, FlatSteps
  <1>3. PICK g : Joins(g, q, n) /\ FlattenSeq(q) = g[n]
    BY FlatSteps
  <1>g. \A i \in 0..n : g[i] \in Seq(T)
    <2>1. n \in 0..Len(q)
      BY <1>1
    <2> QED BY <1>3, <2>1, JoinsTyped
  <1> DEFINE P == {i \in 0..n : f[i + 1] = x \o g[i]}
  <1>4. 0 \in P
    <2>1. 0 \in 0..((n + 1) - 1) /\ 0 + 1 = 1 /\ 0 \in 0..n
      BY <1>1
    <2>2. f[1] = f[0] \o r[1] /\ f[0] = <<>> /\ g[0] = <<>>
      BY <1>2, <1>3, <2>1 DEF Joins
    <2>3. f[1] = x \o <<>>
      BY <1>1, <2>2
    <2> QED BY <2>1, <2>2, <2>3
  <1>5. ASSUME NEW i \in 0..(n - 1), i \in P PROVE i + 1 \in P
    <2>1. /\ i + 1 \in 0..n /\ i + 1 \in 1..n /\ i + 1 \in 0..((n + 1) - 1) /\ i \in 0..n
          /\ r[(i + 1) + 1] = q[i + 1] /\ q[i + 1] \in Seq(T)
      BY <1>1
    <2>2. f[(i + 1) + 1] = f[i + 1] \o q[i + 1] /\ g[i + 1] = g[i] \o q[i + 1]
      BY <1>2, <1>3, <2>1 DEF Joins
    <2>3. f[i + 1] = x \o g[i] /\ g[i] \in Seq(T)
      BY <1>5, <1>g, <2>1
    <2>4. (x \o g[i]) \o q[i + 1] = x \o (g[i] \o q[i + 1])
      <3>1. \A a \in Seq(T), b \in Seq(T), c \in Seq(T) : (a \o b) \o c = a \o (b \o c)
        BY SMTT(40)
      <3> QED BY <2>1, <2>3, <3>1
    <2> QED BY <2>1, <2>2, <2>3, <2>4
  <1>6. f[n + 1] = x \o g[n]
    <2>1. \A i \in 0..n : i \in P
      <3> HIDE DEF P
      <3> QED BY <1>1, <1>4, <1>5, UpTo
    <2>2. n \in P
      <3> HIDE DEF P
      <3> QED BY <1>1, <2>1
    <2> QED BY <2>2
  <1> QED BY <1>1, <1>2, <1>3, <1>6 DEF r

LEMMA FlatOne ==
  ASSUME NEW T, NEW x \in Seq(T)
  PROVE  FlattenSeq(<<x>>) = x
  <1>1. <<>> \in Seq(Seq(T)) /\ <<x>> \o <<>> = <<x>> /\ x \o <<>> = x
    OBVIOUS
  <1> QED BY <1>1, FlatCons, FlatEmpty

-----------------------------------------------------------------------------
(* What the operations do to the parts of a line.                          *)
LEMMA FcnSeq ==
  ASSUME NEW C, NEW n \in Nat, NEW f \in [1..n -> C]
  PROVE  f \in Seq(C) /\ Len(f) = n
  OBVIOUS

CallsOf(r) == [i \in DOMAIN r |-> r[i].call]

LEMMA CallsOfType ==
  ASSUME NEW C, NEW R, \A y \in R : y.call \in C, NEW q \in Seq(R)
  PROVE  CallsOf(q) \in Seq(C) /\ Len(CallsOf(q)) = Len(q)
         /\ \A i \in 1..Len(q) : CallsOf(q)[i] = q[i].call
  <1>1. DOMAIN q = 1..Len(q) /\ Len(q) \in Nat /\ \A i \in 1..Len(q) : q[i] \in R
    OBVIOUS
  <1>2. \A i \in 1..Len(q) : CallsOf(q)[i] = q[i].call
    BY <1>1 DEF CallsOf
  <1>3. CallsOf(q) \in [1..Len(q) -> C]
    BY <1>1 DEF CallsOf
  <1> HIDE DEF CallsOf
  <1> QED BY <1>1, <1>2, <1>3, FcnSeq

LEMMA CallsOfAppend ==
  ASSUME NEW R, NEW r \in Seq(R), NEW x \in R
  PROVE  CallsOf(Append(r, x)) = Append(CallsOf(r), x.call)
  <1> DEFINE C == {y.call : y \in R}
  <1>0. \A y \in R : y.call \in C
    OBVIOUS
  <1> HIDE DEF C
  <1>1. \A q \in Seq(R) : CallsOf(q) \in Seq(C) /\ Len(CallsOf(q)) = Len(q)
                           /\ \A i \in 1..Len(q) : CallsOf(q)[i] = q[i].call
    BY <1>0, CallsOfType
  <1>2. CallsOf(Append(r, x)) = Append(CallsOf(r), x.call)
    <2> DEFINE a == Append(r, x)
    <2>1. a \in Seq(R) /\ Len(a) = Len(r) + 1
          /\ \A i \in 1..Len(a) : a[i] = IF i = Len(r) + 1 THEN x ELSE r[i]
      OBVIOUS
    <2> HIDE DEF a
    <2>2. CallsOf(a) \in Seq(C) /\ Len(CallsOf(a)) = Len(r) + 1
          /\ \A i \in 1..Len(a) : CallsOf(a)[i] = a[i].call
      BY <1>1, <2>1
    <2> DEFINE b == Append(CallsOf(r), x.call)
    <2>3. x.call \in C
      BY <1>0
    <2>c. CallsOf(r) \in Seq(C) /\ Len(CallsOf(r)) = Len(r)
      BY <1>1
    <2>4. b \in Seq(C) /\ Len(b) = Len(r) + 1
          /\ \A i \in 1..Len(b) : b[i] = IF i = Len(r) + 1 THEN x.call ELSE CallsOf(r)[i]
      <3>1. \A u \in Seq(C), y \in C :
              Append(u, y) \in Seq(C) /\ Len(Append(u, y)) = Len(u) + 1
              /\ \A i \in 1..(Len(u) + 1) :
                   Append(u, y)[i] = IF i = Len(u) + 1 THEN y ELSE u[i]
        OBVIOUS
      <3> HIDE DEF CallsOf
      <3> QED BY <2>c, <2>3, <3>1
    <2> HIDE DEF b
    <2>5. \A i \in 1..Len(b) : CallsOf(a)[i] = b[i]
      <3> SUFFICES ASSUME NEW i \in 1..Len(b) PROVE CallsOf(a)[i] = b[i]
        OBVIOUS
      <3>1. i \in 1..Len(a) /\ Len(r) \in Nat /\ (i # Len(r) + 1 => i \in 1..Len(r))
        BY <2>1, <2>4
      <3> QED BY <1>1, <2>1, <2>2, <2>4, <3>1
    <2>6. CallsOf(a) = b
      BY <2>2, <2>4, <2>5, SameSeq
    <2> QED BY <2>6 DEF a, b
  <1> QED BY <1>2

LEMMA CallsOfHead ==
  ASSUME NEW R, NEW r \in Seq(R), r # <<>>
  PROVE  CallsOf(r) = <<Head(r).call>> \o CallsOf(Tail(r))
  <1> DEFINE C == {y.call : y \in R}
  <1>0. \A y \in R : y.call \in C
    OBVIOUS
  <1> HIDE DEF C
  <1>1. \A q \in Seq(R) : CallsOf(q) \in Seq(C) /\ Len(CallsOf(q)) = Len(q)
                           /\ \A i \in 1..Len(q) : CallsOf(q)[i] = q[i].call
    BY <1>0, CallsOfType
  <1>3. CallsOf(r) = <<Head(r).call>> \o CallsOf(Tail(r))
    <2> DEFINE t == Tail(r)
               b == <<Head(r).call>> \o CallsOf(t)
    <2>1. t \in Seq(R) /\ Len(t) = Len(r) - 1 /\ Len(r) \in Nat /\ Len(r) # 0
          /\ Head(r) = r[1] /\ \A i \in 1..Len(t) : t[i] = r[i + 1]
      OBVIOUS
    <2> HIDE DEF t
    <2>h. Head(r) \in R
      OBVIOUS
    <2>2. Head(r).call \in C
      BY <1>0, <2>h
    <2>3. CallsOf(t) \in Seq(C) /\ Len(CallsOf(t)) = Len(t)
      BY <1>1, <2>1
    <2>4. b \in Seq(C) /\ Len(b) = Len(r)
          /\ \A i \in 1..Len(b) : b[i] = IF i = 1 THEN Head(r).call ELSE CallsOf(t)[i - 1]
      BY <2>1, <2>2, <2>3
    <2> HIDE DEF b
    <2>5. \A i \in 1..Len(r) : CallsOf(r)[i] = b[i]
      <3> SUFFICES ASSUME NEW i \in 1..Len(r) PROVE CallsOf(r)[i] = b[i]
        OBVIOUS
      <3>1. CASE i = 1
        BY <1>1, <2>1, <2>4, <3>1
      <3>2. CASE i # 1
        <4>1. i - 1 \in 1..Len(t) /\ (i - 1) + 1 = i /\ i \in 1..Len(b)
          BY <2>1, <2>4, <3>2
        <4>2. b[i] = CallsOf(t)[i - 1] /\ CallsOf(t)[i - 1] = t[i - 1].call
          BY <1>1, <2>1, <2>4, <3>2, <4>1
        <4>3. t[i - 1] = r[i]
          BY <2>1, <4>1
        <4>4. CallsOf(r)[i] = r[i].call
          BY <1>1
        <4> QED BY <4>2, <4>3, <4>4
      <3> QED BY <3>1, <3>2
    <2>6. CallsOf(r) = b
      BY <1>1, <2>4, <2>5, SameSeq
    <2> QED BY <2>6 DEF b, t
  <1> QED BY <1>3

PartsOf(p, s) == [i \in DOMAIN p |-> Part(p[i], s)]

LEMMA PartsOfType ==
  ASSUME NEW T, NEW p \in Seq(Seq(T)), NEW s
  PROVE  /\ PartsOf(p, s) \in Seq(Seq(T)) /\ Len(PartsOf(p, s)) = Len(p)
         /\ \A i \in 1..Len(p) : PartsOf(p, s)[i] = Part(p[i], s)
  <1>1. \A i \in 1..Len(p) : Part(p[i], s) \in Seq(T)
    <2> SUFFICES ASSUME NEW i \in 1..Len(p) PROVE Part(p[i], s) \in Seq(T)
      OBVIOUS
    <2>1. p[i] \in Seq(T)
      OBVIOUS
    <2> QED BY <2>1, PartType
  <1>2. DOMAIN p = 1..Len(p)
    OBVIOUS
  <1>3. \A i \in 1..Len(p) : PartsOf(p, s)[i] = Part(p[i], s)
    BY <1>2 DEF PartsOf
  <1>4. PartsOf(p, s) \in [1..Len(p) -> Seq(T)] /\ Len(p) \in Nat
    BY <1>1, <1>2 DEF PartsOf
  <1>5. PartsOf(p, s) \in Seq(Seq(T)) /\ Len(PartsOf(p, s)) = Len(p)
    <2> HIDE DEF PartsOf
    <2> QED BY <1>4, FcnSeq
  <1> QED BY <1>3, <1>5

LEMMA PartsOfSteps ==
  ASSUME NEW T, NEW p \in Seq(Seq(T)), NEW s, NEW x \in Seq(T)
  PROVE  /\ PartsOf(Append(p, x), s) = Append(PartsOf(p, s), Part(x, s))
         /\ p # <<>> => PartsOf(p, s) = <<Part(Head(p), s)>> \o PartsOf(Tail(p), s)
  <1>1. PartsOf(Append(p, x), s) = Append(PartsOf(p, s), Part(x, s))
    <2> DEFINE a == Append(p, x)
               b == Append(PartsOf(p, s), Part(x, s))
    <2>1. a \in Seq(Seq(T)) /\ Len(a) = Len(p) + 1 /\ Len(p) \in Nat
          /\ \A i \in 1..Len(a) : a[i] = IF i = Len(p) + 1 THEN x ELSE p[i]
      OBVIOUS
    <2> HIDE DEF a
    <2>2. /\ PartsOf(a, s) \in Seq(Seq(T)) /\ Len(PartsOf(a, s)) = Len(p) + 1
          /\ \A i \in 1..Len(a) : PartsOf(a, s)[i] = Part(a[i], s)
      BY <2>1, PartsOfType
    <2>3. Part(x, s) \in Seq(T)
      BY PartType
    <2>4. /\ PartsOf(p, s) \in Seq(Seq(T)) /\ Len(PartsOf(p, s)) = Len(p)
          /\ \A i \in 1..Len(p) : PartsOf(p, s)[i] = Part(p[i], s)
      BY PartsOfType
    <2>5. b \in Seq(Seq(T)) /\ Len(b) = Len(p) + 1
          /\ \A i \in 1..Len(b) : b[i] = IF i = Len(p) + 1 THEN Part(x, s) ELSE PartsOf(p, s)[i]
      BY <2>3, <2>4
    <2> HIDE DEF b
    <2>6. \A i \in 1..Len(b) : PartsOf(a, s)[i] = b[i]
      <3> SUFFICES ASSUME NEW i \in 1..Len(b) PROVE PartsOf(a, s)[i] = b[i]
        OBVIOUS
      <3>1. i \in 1..Len(a) /\ (i # Len(p) + 1 => i \in 1..Len(p))
        BY <2>1, <2>5
      <3> QED BY <2>1, <2>2, <2>4, <2>5, <3>1
    <2>7. PartsOf(a, s) = b
      BY <2>2, <2>5, <2>6, SameSeq
    <2> QED BY <2>7 DEF a, b
  <1>2. ASSUME p # <<>>
        PROVE  PartsOf(p, s) = <<Part(Head(p), s)>> \o PartsOf(Tail(p), s)
    <2> DEFINE t == Tail(p)
               b == <<Part(Head(p), s)>> \o PartsOf(t, s)
    <2>1. t \in Seq(Seq(T)) /\ Len(t) = Len(p) - 1 /\ Len(p) \in Nat /\ Len(p) # 0
          /\ Head(p) = p[1] /\ Head(p) \in Seq(T) /\ \A i \in 1..Len(t) : t[i] = p[i + 1]
      BY <1>2
    <2> HIDE DEF t
    <2>2. Part(Head(p), s) \in Seq(T)
      BY <2>1, PartType
    <2>3. /\ PartsOf(t, s) \in Seq(Seq(T)) /\ Len(PartsOf(t, s)) = Len(t)
          /\ \A i \in 1..Len(t) : PartsOf(t, s)[i] = Part(t[i], s)
      BY <2>1, PartsOfType
    <2>4. b \in Seq(Seq(T)) /\ Len(b) = Len(p)
          /\ \A i \in 1..Len(b) : b[i] = IF i = 1 THEN Part(Head(p), s) ELSE PartsOf(t, s)[i - 1]
      BY <2>1, <2>2, <2>3
    <2> HIDE DEF b
    <2>p. /\ PartsOf(p, s) \in Seq(Seq(T)) /\ Len(PartsOf(p, s)) = Len(p)
          /\ \A i \in 1..Len(p) : PartsOf(p, s)[i] = Part(p[i], s)
      BY PartsOfType
    <2>5. \A i \in 1..Len(p) : PartsOf(p, s)[i] = b[i]
      <3> SUFFICES ASSUME NEW i \in 1..Len(p) PROVE PartsOf(p, s)[i] = b[i]
        OBVIOUS
      <3>1. CASE i = 1
        <4>1. i \in 1..Len(b)
          BY <2>4
        <4> QED BY <2>p, <2>1, <2>4, <3>1, <4>1
      <3>2. CASE i # 1
        <4>1. i - 1 \in 1..Len(t) /\ (i - 1) + 1 = i /\ i \in 1..Len(b)
          BY <2>1, <2>4, <3>2
        <4> QED BY <2>p, <2>1, <2>3, <2>4, <3>2, <4>1
      <3> QED BY <3>1, <3>2
    <2>6. PartsOf(p, s) = b
      BY <2>p, <2>4, <2>5, SameSeq
    <2> QED BY <2>6 DEF b, t
  <1> QED BY <1>1, <1>2

(* What waits for the plock.                                               *)
LEMMA TodoAppend ==
  ASSUME NEW T, NEW p \in Seq(Seq(T)), NEW s, NEW x \in Seq(T)
  PROVE  FlattenSeq(PartsOf(Append(p, x), s)) = FlattenSeq(PartsOf(p, s)) \o Part(x, s)
  <1>1. PartsOf(p, s) \in Seq(Seq(T)) /\ Part(x, s) \in Seq(T)
    BY PartsOfType, PartType
  <1>2. PartsOf(Append(p, x), s) = Append(PartsOf(p, s), Part(x, s))
    BY PartsOfSteps
  <1> QED BY <1>1, <1>2, FlatAppend

LEMMA TodoHead ==
  ASSUME NEW T, NEW p \in Seq(Seq(T)), NEW s, p # <<>>
  PROVE  /\ FlattenSeq(PartsOf(p, s)) = Part(Head(p), s) \o FlattenSeq(PartsOf(Tail(p), s))
         /\ FlattenSeq(PartsOf(Tail(p), s)) \in Seq(T)
  <1>1. Head(p) \in Seq(T) /\ Tail(p) \in Seq(Seq(T))
    OBVIOUS
  <1>2. Part(Head(p), s) \in Seq(T) /\ PartsOf(Tail(p), s) \in Seq(Seq(T))
    BY <1>1, PartType, PartsOfType
  <1>3. PartsOf(p, s) = <<Part(Head(p), s)>> \o PartsOf(Tail(p), s)
    BY <1>1, PartsOfSteps
  <1> QED BY <1>2, <1>3, FlatCons, FlatType

-----------------------------------------------------------------------------
(* The invariant.                                                          *)
Cmd == [c : Caller, s : Shard, n : Nat]

Lists == {l \in [Shard -> Seq(Cmd)] : \A s \in Shard : l[s] \in Seq(Own(Cmd, s))}

Batch == [id : Nat, list : Lists]

ShapeInv ==
  /\ thread \in BOOLEAN /\ calls \in 0..MaxCall /\ waiting \subseteq Caller
  /\ queue1 \in Seq(Cmd) /\ plock \in Seq(Seq(Cmd) \ {<<>>})
  /\ wire \in [Shard -> Seq(Cmd)] /\ replies \in [Shard -> Seq(Cmd)] /\ down \subseteq Shard
  /\ queue2 \in Seq(Batch) /\ worker \in Seq(Batch)
  /\ res1 \in Seq([call : Cmd, reply : Cmd]) /\ res2 \in Seq(Nat)

(* The commands for the shard s of the batch that is under way and that    *)
(* the reader has not assigned an answer to.                               *)
Flight(s) ==
  IF worker # <<>> THEN worker[1].list[s]
  ELSE IF queue2 # <<>> THEN queue2[1].list[s] ELSE <<>>

(* There is one such batch at most, and what is on a connection that works *)
(* are the answers to a part of it and then the rest of it.                *)
BatchInv ==
  /\ Len(queue2) + Len(worker) + Len(res2) <= 1
  /\ hold = {} => queue2 = <<>> /\ worker = <<>> /\ res2 = <<>>
  /\ \A s \in Shard : IF s \in down THEN wire[s] = <<>> /\ replies[s] = <<>>
                      ELSE replies[s] \o wire[s] = Flight(s)

AnswerInv == \A i \in 1..Len(res1) : res1[i].reply = res1[i].call

(* The calls without an answer, as Calls has them when there is one batch. *)
Todo(s) == FlattenSeq([i \in DOMAIN plock |-> Part(plock[i], s)])

Line(s) == Part(Resumed, s) \o (Flight(s) \o (Todo(s) \o Part(queue1, s)))

(* Each one has a caller of its own, who waits.                            *)
Waits(line, w) ==
  /\ \A s \in Shard : \A i \in 1..Len(line[s]) : line[s][i].c \in w
  /\ \A s, t \in Shard : \A i \in 1..Len(line[s]), j \in 1..Len(line[t]) :
       line[s][i].c = line[t][j].c => s = t /\ i = j

Lines == [s \in Shard |-> Line(s)]

CoInv == ShapeInv /\ BatchInv /\ AnswerInv /\ Waits(Lines, waiting)

LEMMA BatchTyped ==
  ASSUME NEW b \in Batch, NEW s \in Shard
  PROVE  /\ b.list \in Lists /\ b.list \in [Shard -> Seq(Cmd)]
         /\ b.list[s] \in Seq(Own(Cmd, s)) /\ b.list[s] \in Seq(Cmd)
  <1>1. b.list \in Lists
    BY DEF Batch
  <1>2. b.list \in [Shard -> Seq(Cmd)] /\ b.list[s] \in Seq(Own(Cmd, s))
    BY <1>1 DEF Lists
  <1> QED BY <1>1, <1>2

(* The parts of a line have their types.                                   *)
LEMMA PartsTypes ==
  ASSUME ShapeInv, NEW s \in Shard
  PROVE  /\ Resumed \in Seq(Cmd) /\ Part(Resumed, s) \in Seq(Cmd) /\ Part(queue1, s) \in Seq(Cmd)
         /\ plock \in Seq(Seq(Cmd)) /\ Todo(s) \in Seq(Cmd)
         /\ Todo(s) = FlattenSeq(PartsOf(plock, s)) /\ Resumed = CallsOf(res1)
         /\ Flight(s) \in Seq(Own(Cmd, s)) /\ Flight(s) \in Seq(Cmd)
  <1>1. Resumed = CallsOf(res1) /\ Todo(s) = FlattenSeq(PartsOf(plock, s))
    BY DEF Resumed, CallsOf, Todo, PartsOf
  <1>2. Resumed \in Seq(Cmd)
    <2>1. \A y \in [call : Cmd, reply : Cmd] : y.call \in Cmd
      OBVIOUS
    <2>2. res1 \in Seq([call : Cmd, reply : Cmd])
      BY DEF ShapeInv
    <2>3. CASE res1 = <<>>
      BY <1>1, <2>3 DEF CallsOf
    <2>4. CASE res1 # <<>>
      <3> DEFINE R == [call : Cmd, reply : Cmd]
      <3>0. res1 \in Seq(R) /\ \A y \in R : y.call \in Cmd
        BY <2>1, <2>2
      <3> HIDE DEF R
      <3>1. Head(res1) \in R
        BY <3>0, <2>4
      <3> QED BY <1>1, <3>0, CallsOfType
    <2> QED BY <2>3, <2>4
  <1>3. plock \in Seq(Seq(Cmd)) /\ queue1 \in Seq(Cmd)
    <2>1. \A T : \A q \in Seq(Seq(T) \ {<<>>}) : q \in Seq(Seq(T))
      OBVIOUS
    <2> QED BY <2>1 DEF ShapeInv
  <1>4. Part(Resumed, s) \in Seq(Cmd) /\ Part(queue1, s) \in Seq(Cmd)
    BY <1>2, <1>3, PartType
  <1>5. Todo(s) \in Seq(Cmd)
    <2>1. PartsOf(plock, s) \in Seq(Seq(Cmd))
      BY <1>3, PartsOfType
    <2> QED BY <1>1, <2>1, FlatType
  <1>6. Flight(s) \in Seq(Own(Cmd, s))
    <2>1. CASE worker # <<>>
      <3>1. worker[1] \in Batch
        BY <2>1 DEF ShapeInv
      <3>2. worker[1].list[s] \in Seq(Own(Cmd, s))
        BY <3>1, BatchTyped
      <3> QED BY <2>1, <3>2 DEF Flight
    <2>2. CASE worker = <<>> /\ queue2 # <<>>
      <3>1. queue2[1] \in Batch
        BY <2>2 DEF ShapeInv
      <3>2. queue2[1].list[s] \in Seq(Own(Cmd, s))
        BY <3>1, BatchTyped
      <3> QED BY <2>2, <3>2 DEF Flight
    <2>3. CASE worker = <<>> /\ queue2 = <<>>
      BY <2>3 DEF Flight
    <2> QED BY <2>1, <2>2, <2>3
  <1> QED BY <1>1, <1>2, <1>3, <1>4, <1>5, <1>6, OwnSeq

LEMMA LineType ==
  ASSUME ShapeInv, NEW s \in Shard
  PROVE  Line(s) \in Seq(Cmd)
  <1>1. \A T : \A a, b, c, d \in Seq(T) : a \o (b \o (c \o d)) \in Seq(T)
    OBVIOUS
  <1>2. Line(s) = Part(Resumed, s) \o (Flight(s) \o (Todo(s) \o Part(queue1, s)))
    BY DEF Line
  <1> QED BY <1>1, <1>2, PartsTypes

(* There is room for one batch.                                            *)
LEMMA One ==
  ASSUME ShapeInv, BatchInv
  PROVE  /\ worker # <<>> => /\ worker[1] \in Batch /\ worker = <<worker[1]>> /\ Len(worker) = 1
                             /\ queue2 = <<>> /\ res2 = <<>> /\ hold # {}
         /\ queue2 # <<>> => /\ queue2[1] \in Batch /\ queue2 = <<queue2[1]>> /\ Len(queue2) = 1
                             /\ worker = <<>> /\ res2 = <<>> /\ hold # {}
         /\ res2 # <<>> => /\ worker = <<>> /\ queue2 = <<>> /\ hold # {} /\ Len(res2) = 1
                           /\ Head(res2) \in Nat
  <1>1. \A A, B, C : \A a \in Seq(A), b \in Seq(B), c \in Seq(C) :
          Len(a) + Len(b) + Len(c) <= 1 /\ a # <<>>
            => a[1] \in A /\ a = <<a[1]>> /\ Len(a) = 1 /\ b = <<>> /\ c = <<>>
    <2> SUFFICES ASSUME NEW A, NEW B, NEW C, NEW a \in Seq(A), NEW b \in Seq(B), NEW c \in Seq(C),
                        Len(a) + Len(b) + Len(c) <= 1, a # <<>>
                 PROVE  a[1] \in A /\ a = <<a[1]>> /\ Len(a) = 1 /\ b = <<>> /\ c = <<>>
      OBVIOUS
    <2>0. \A T : \A q \in Seq(T) : Len(q) \in Nat /\ (q # <<>> => Len(q) # 0)
      OBVIOUS
    <2>1. Len(a) \in Nat /\ Len(b) \in Nat /\ Len(c) \in Nat /\ Len(a) # 0
      BY <2>0
    <2>2. Len(a) = 1 /\ Len(b) = 0 /\ Len(c) = 0
      <3>1. \A x, y, z \in Nat : x + y + z <= 1 /\ x # 0 => x = 1 /\ y = 0 /\ z = 0
        OBVIOUS
      <3> QED BY <2>1, <3>1
    <2>3. a[1] \in A /\ b = <<>> /\ c = <<>>
      BY <2>2
    <2>4. a = <<a[1]>>
      BY <2>2, <2>3
    <2> QED BY <2>2, <2>3, <2>4
  <1>2. /\ queue2 \in Seq(Batch) /\ worker \in Seq(Batch) /\ res2 \in Seq(Nat)
        /\ Len(queue2) + Len(worker) + Len(res2) <= 1
        /\ hold = {} => queue2 = <<>> /\ worker = <<>> /\ res2 = <<>>
    BY DEF ShapeInv, BatchInv
  <1>3. Len(queue2) \in Nat /\ Len(worker) \in Nat /\ Len(res2) \in Nat
    BY <1>2
  <1>4. ASSUME worker # <<>>
        PROVE  /\ worker[1] \in Batch /\ worker = <<worker[1]>> /\ Len(worker) = 1
               /\ queue2 = <<>> /\ res2 = <<>> /\ hold # {}
    <2>1. Len(worker) + Len(queue2) + Len(res2) <= 1
      BY <1>2, <1>3
    <2> QED BY <1>1, <1>2, <1>4, <2>1
  <1>5. ASSUME queue2 # <<>>
        PROVE  /\ queue2[1] \in Batch /\ queue2 = <<queue2[1]>> /\ Len(queue2) = 1
               /\ worker = <<>> /\ res2 = <<>> /\ hold # {}
    BY <1>1, <1>2, <1>5
  <1>6. ASSUME res2 # <<>>
        PROVE  worker = <<>> /\ queue2 = <<>> /\ hold # {} /\ Len(res2) = 1 /\ Head(res2) \in Nat
    <2>1. Len(res2) + Len(queue2) + Len(worker) <= 1
      BY <1>2, <1>3
    <2>2. res2[1] \in Nat /\ Len(res2) = 1 /\ worker = <<>> /\ queue2 = <<>>
      BY <1>1, <1>2, <1>6, <2>1
    <2> QED BY <1>2, <1>6, <2>2
  <1> QED BY <1>4, <1>5, <1>6

LEMMA Assoc ==
  ASSUME NEW T, NEW x \in Seq(T), NEW y \in Seq(T), NEW z \in Seq(T)
  PROVE  x \o y \in Seq(T) /\ (x \o y) \o z = x \o (y \o z)
  OBVIOUS

(* With one batch, Calls is Line.                                          *)
LEMMA CallsLine ==
  ShapeInv /\ BatchInv => \A s \in Shard : Calls(s) = Line(s)
<1> SUFFICES ASSUME ShapeInv, BatchInv, NEW s \in Shard
             PROVE  Calls(s) = Line(s)
  OBVIOUS
<1> DEFINE sent == [i \in DOMAIN worker |-> worker[i].list[s]]
           more == [i \in DOMAIN queue2 |-> queue2[i].list[s]]
<1>1. Calls(s) = Part(Resumed, s) \o FlattenSeq(sent) \o FlattenSeq(more) \o Todo(s) \o Part(queue1, s)
  BY DEF Calls, Todo
<1>2. worker = <<>> => FlattenSeq(sent) = <<>>
  <2>1. worker = <<>> => sent = <<>>
    OBVIOUS
  <2> QED BY <2>1, FlatEmpty
<1>3. queue2 = <<>> => FlattenSeq(more) = <<>>
  <2>1. queue2 = <<>> => more = <<>>
    OBVIOUS
  <2> QED BY <2>1, FlatEmpty
<1>4. worker # <<>> => FlattenSeq(sent) = worker[1].list[s]
  <2> SUFFICES ASSUME worker # <<>> PROVE FlattenSeq(sent) = worker[1].list[s]
    OBVIOUS
  <2>1. worker = <<worker[1]>> /\ worker[1].list[s] \in Seq(Cmd)
    BY One, BatchTyped
  <2>2. sent = <<worker[1].list[s]>>
    BY <2>1
  <2> QED BY <2>1, <2>2, FlatOne
<1>5. queue2 # <<>> => FlattenSeq(more) = queue2[1].list[s]
  <2> SUFFICES ASSUME queue2 # <<>> PROVE FlattenSeq(more) = queue2[1].list[s]
    OBVIOUS
  <2>1. queue2 = <<queue2[1]>> /\ queue2[1].list[s] \in Seq(Cmd)
    BY One, BatchTyped
  <2>2. more = <<queue2[1].list[s]>>
    BY <2>1
  <2> QED BY <2>1, <2>2, FlatOne
<1> HIDE DEF sent, more
<1>6. \/ FlattenSeq(sent) = Flight(s) /\ FlattenSeq(more) = <<>>
      \/ FlattenSeq(sent) = <<>> /\ FlattenSeq(more) = Flight(s)
  BY <1>2, <1>3, <1>4, <1>5, One DEF Flight
<1>7. /\ Part(Resumed, s) \in Seq(Cmd) /\ Flight(s) \in Seq(Cmd) /\ Todo(s) \in Seq(Cmd)
      /\ Part(queue1, s) \in Seq(Cmd)
  BY PartsTypes
<1>8. FlattenSeq(sent) \o FlattenSeq(more) = Flight(s)
      /\ FlattenSeq(sent) \in Seq(Cmd) /\ FlattenSeq(more) \in Seq(Cmd)
  <2>1. <<>> \in Seq(Cmd) /\ Flight(s) \o <<>> = Flight(s) /\ <<>> \o Flight(s) = Flight(s)
    BY <1>7
  <2> QED BY <1>6, <1>7, <2>1
<1>9. Part(Resumed, s) \o FlattenSeq(sent) \o FlattenSeq(more) \o Todo(s) \o Part(queue1, s)
        = Part(Resumed, s) \o ((FlattenSeq(sent) \o FlattenSeq(more)) \o (Todo(s) \o Part(queue1, s)))
  <2> DEFINE p == Part(Resumed, s)
             t == Todo(s)
             q == Part(queue1, s)
             u == FlattenSeq(sent)
             v == FlattenSeq(more)
             uv == u \o v
  <2>2. p \in Seq(Cmd) /\ t \in Seq(Cmd) /\ q \in Seq(Cmd) /\ u \in Seq(Cmd) /\ v \in Seq(Cmd)
    BY <1>7, <1>8
  <2> HIDE DEF p, t, q, u, v
  <2>3. (p \o u) \o v = p \o uv /\ uv \in Seq(Cmd)
    BY <2>2
  <2> HIDE DEF uv
  <2> DEFINE tq == t \o q
  <2>4. p \o uv \in Seq(Cmd) /\ tq \in Seq(Cmd)
    BY <2>2, <2>3, Assoc
  <2>5. ((p \o uv) \o t) \o q = (p \o uv) \o tq
    BY <2>2, <2>4, SMTT(40)
  <2> HIDE DEF tq
  <2>6. (p \o uv) \o tq = p \o (uv \o tq)
    BY <2>2, <2>3, <2>4
  <2>7. (((p \o u) \o v) \o t) \o q = p \o (uv \o tq)
    BY <2>3, <2>5, <2>6
  <2> QED BY <2>7 DEF p, t, q, u, v, uv, tq
<1> QED BY <1>1, <1>8, <1>9 DEF Line

-----------------------------------------------------------------------------
(* What a step does to the lines.                                          *)
LEMMA MoveFirst ==
  ASSUME NEW T, NEW a \in Seq(T), NEW b \in Seq(T), NEW c \in Seq(T), NEW x \in T
  PROVE  Append(a, x) \o (b \o c) = a \o ((<<x>> \o b) \o c)
  <1> DEFINE bc == b \o c
  <1>1. (<<x>> \o b) \o c = <<x>> \o bc /\ bc \in Seq(T)
    BY SMTT(30)
  <1> HIDE DEF bc
  <1>2. Append(a, x) \o bc = a \o (<<x>> \o bc)
    BY <1>1, Joined
  <1> QED BY <1>1, <1>2 DEF bc

LEMMA TakeFirst ==
  ASSUME NEW T, NEW a \in Seq(T), NEW b \in Seq(T), NEW x \in T
  PROVE  /\ (<<x>> \o a) \o b # <<>>
         /\ Head((<<x>> \o a) \o b) = x /\ Tail((<<x>> \o a) \o b) = a \o b
  <1> DEFINE xa == <<x>> \o a
  <1>1. xa \in Seq(T) /\ xa # <<>> /\ Head(xa) = x /\ Tail(xa) = a
    OBVIOUS
  <1> HIDE DEF xa
  <1>2. Head(xa \o b) = Head(xa) /\ Tail(xa \o b) = Tail(xa) \o b /\ xa \o b # <<>>
    BY <1>1
  <1> QED BY <1>1, <1>2 DEF xa

LEMMA LinesType ==
  ASSUME ShapeInv
  PROVE  Lines \in [Shard -> Seq(Cmd)]
  <1>1. \A s \in Shard : Line(s) \in Seq(Cmd)
    BY LineType
  <1> QED BY <1>1 DEF Lines

LEMMA CallLines ==
  ASSUME ShapeInv, NEW c \in Caller, NEW s \in Shard, redis_co(c, s)
  PROVE  Lines' = [Lines EXCEPT ![s] = Append(@, [c |-> c, s |-> s, n |-> calls])]
  <1> DEFINE x == [c |-> c, s |-> s, n |-> calls]
  <1>1. x \in Cmd /\ x.s = s /\ queue1 \in Seq(Cmd)
    BY RedisCoAssumption DEF ShapeInv, Cmd
  <1>2. queue1' = Append(queue1, x) /\ UNCHANGED <<plock, queue2, worker, res1>>
    BY DEF redis_co
  <1> HIDE DEF x
  <1>3. \A t \in Shard : Resumed' = Resumed /\ Flight(t)' = Flight(t) /\ Todo(t)' = Todo(t)
    BY <1>2 DEF Resumed, Flight, Todo
  <1>4. ASSUME NEW t \in Shard
        PROVE  Line(t)' = IF t = s THEN Append(Line(t), x) ELSE Line(t)
    <2>1. Part(queue1', t) = IF x.s = t THEN Append(Part(queue1, t), x) ELSE Part(queue1, t)
      BY <1>1, <1>2, PartAppend
    <2>2. Line(t)' = Part(Resumed, t) \o (Flight(t) \o (Todo(t) \o Part(queue1', t)))
      BY <1>3 DEF Line
    <2>3. Part(Resumed, t) \in Seq(Cmd) /\ Flight(t) \in Seq(Cmd) /\ Todo(t) \in Seq(Cmd) /\ Part(queue1, t) \in Seq(Cmd)
      BY PartsTypes
    <2>4. Part(Resumed, t) \o (Flight(t) \o (Todo(t) \o Append(Part(queue1, t), x))) = Append(Line(t), x)
      <3> DEFINE a == Part(Resumed, t)
                 f == Flight(t)
                 u == Todo(t)
                 q == Part(queue1, t)
      <3>1. a \in Seq(Cmd) /\ f \in Seq(Cmd) /\ u \in Seq(Cmd) /\ q \in Seq(Cmd)
        BY <2>3
      <3> HIDE DEF a, f, u, q
      <3>2. a \o (f \o (u \o Append(q, x))) = Append(a \o (f \o (u \o q)), x)
        <4> DEFINE uq == u \o q
        <4>1. u \o Append(q, x) = Append(uq, x) /\ uq \in Seq(Cmd)
          BY <1>1, <3>1, Joined
        <4> HIDE DEF uq
        <4> DEFINE fuq == f \o uq
        <4>2. f \o Append(uq, x) = Append(fuq, x) /\ fuq \in Seq(Cmd)
          BY <1>1, <3>1, <4>1, Joined
        <4> HIDE DEF fuq
        <4>3. a \o Append(fuq, x) = Append(a \o fuq, x)
          BY <1>1, <3>1, <4>2, Joined
        <4> QED BY <4>1, <4>2, <4>3 DEF fuq, uq
      <3> QED BY <3>2 DEF Line, a, f, u, q
    <2> QED BY <1>1, <2>1, <2>2, <2>4 DEF Line
  <1>5. Lines' = [Lines EXCEPT ![s] = Append(@, x)]
    BY <1>4 DEF Lines
  <1> QED BY <1>5 DEF x

LEMMA RunTaskLines ==
  ASSUME ShapeInv, RunTask
  PROVE  Lines' = Lines
  <1>1. queue1' = <<>> /\ plock' = Append(plock, queue1) /\ UNCHANGED <<queue2, worker, res1>>
    BY DEF RunTask
  <1>2. ASSUME NEW t \in Shard PROVE Line(t)' = Line(t)
    <2>1. Resumed' = Resumed /\ Flight(t)' = Flight(t)
      BY <1>1 DEF Resumed, Flight
    <2>2. plock \in Seq(Seq(Cmd)) /\ queue1 \in Seq(Cmd) /\ Todo(t) = FlattenSeq(PartsOf(plock, t))
      BY PartsTypes DEF ShapeInv
    <2>3. Todo(t)' = FlattenSeq(PartsOf(plock', t))
      BY DEF Todo, PartsOf
    <2>4. Todo(t)' = Todo(t) \o Part(queue1, t)
      <3>1. FlattenSeq(PartsOf(Append(plock, queue1), t))
              = FlattenSeq(PartsOf(plock, t)) \o Part(queue1, t)
        BY <2>2, TodoAppend
      <3> QED BY <1>1, <2>2, <2>3, <3>1
    <2>5. Part(queue1', t) = <<>>
      BY <1>1, PartEmpty
    <2>6. Line(t)' = Part(Resumed, t) \o (Flight(t) \o ((Todo(t) \o Part(queue1, t)) \o <<>>))
      BY <2>1, <2>4, <2>5 DEF Line
    <2>7. Part(Resumed, t) \in Seq(Cmd) /\ Flight(t) \in Seq(Cmd) /\ Todo(t) \in Seq(Cmd) /\ Part(queue1, t) \in Seq(Cmd)
      BY PartsTypes
    <2>8. (Todo(t) \o Part(queue1, t)) \o <<>> = Todo(t) \o Part(queue1, t)
      <3>1. Todo(t) \o Part(queue1, t) \in Seq(Cmd)
        BY <2>7, Assoc
      <3> QED BY <3>1
    <2> QED BY <2>6, <2>8 DEF Line
  <1> QED BY <1>2 DEF Lines

(* A batch that is sent; the second thread or the core gets it.            *)
LEMMA ExecFacts ==
  ASSUME ShapeInv, BatchInv, Exec
  PROVE  \E b \in Batch :
           /\ b.list = [s \in Shard |-> Part(Head(plock), s)]
           /\ plock' = Tail(plock) /\ plock # <<>> /\ hold' = hold \cup {b.id}
           /\ wire' = [s \in Shard |-> IF s \in down THEN <<>> ELSE wire[s] \o b.list[s]]
           /\ queue2 = <<>> /\ worker = <<>> /\ res2 = <<>>
           /\ \/ queue2' = <<b>> /\ worker' = <<>>
              \/ worker' = <<b>> /\ queue2' = <<>>
           /\ UNCHANGED <<thread, calls, waiting, got, queue1, replies, down, res1, res2>>
  <1> DEFINE b == [id |-> Head(plock)[1].n, list |-> [s \in Shard |-> Part(Head(plock), s)]]
             l == [s \in Shard |-> Part(Head(plock), s)]
  <1>1. plock # <<>> /\ hold = {} /\ Sent
    BY DEF Exec
  <1>2. queue2 = <<>> /\ worker = <<>> /\ res2 = <<>>
    BY <1>1 DEF BatchInv
  <1>3. Head(plock) \in Seq(Cmd) /\ Head(plock) # <<>>
    <2>1. plock \in Seq(Seq(Cmd) \ {<<>>})
      BY DEF ShapeInv
    <2>2. Head(plock) \in Seq(Cmd) \ {<<>>}
      BY <1>1, <2>1
    <2> QED BY <2>2
  <1>4. Head(plock)[1].n \in Nat
    <2>1. Head(plock)[1] \in Cmd
      BY <1>3
    <2> QED BY <2>1 DEF Cmd
  <1>5. l \in Lists
    <2>1. \A s \in Shard : Part(Head(plock), s) \in Seq(Own(Cmd, s)) /\ Part(Head(plock), s) \in Seq(Cmd)
      BY <1>3, PartType
    <2> QED BY <2>1 DEF Lists
  <1>6. b \in Batch /\ b.list = l
    BY <1>4, <1>5 DEF Batch
  <1>7. /\ plock' = Tail(plock) /\ hold' = hold \cup {b.id}
        /\ wire' = [s \in Shard |-> IF s \in down THEN <<>> ELSE wire[s] \o b.list[s]]
        /\ IF thread THEN queue2' = Append(queue2, b) /\ worker' = worker
           ELSE worker' = <<b>> /\ queue2' = queue2
        /\ UNCHANGED <<thread, calls, waiting, got, queue1, replies, down, res1, res2>>
    BY <1>1 DEF Sent
  <1> HIDE DEF b
  <1>8. Append(<<>>, b) = <<b>>
    OBVIOUS
  <1>9. \/ queue2' = <<b>> /\ worker' = <<>>
        \/ worker' = <<b>> /\ queue2' = <<>>
    BY <1>2, <1>7, <1>8
  <1> QED BY <1>1, <1>2, <1>6, <1>7, <1>9

LEMMA ExecLines ==
  ASSUME ShapeInv, BatchInv, Exec
  PROVE  Lines' = Lines
  <1>1. PICK b \in Batch :
           /\ b.list = [s \in Shard |-> Part(Head(plock), s)]
           /\ plock' = Tail(plock) /\ plock # <<>>
           /\ queue2 = <<>> /\ worker = <<>>
           /\ \/ queue2' = <<b>> /\ worker' = <<>>
              \/ worker' = <<b>> /\ queue2' = <<>>
           /\ UNCHANGED <<queue1, res1>>
    BY ExecFacts
  <1>2. ASSUME NEW t \in Shard PROVE Line(t)' = Line(t)
    <2>1. Resumed' = Resumed /\ Part(queue1', t) = Part(queue1, t) /\ Flight(t) = <<>>
      BY <1>1 DEF Resumed, Flight
    <2>2. Flight(t)' = Part(Head(plock), t)
      <3>1. b.list[t] = Part(Head(plock), t)
        BY <1>1
      <3>2. <<b>> # <<>> /\ <<b>>[1] = b
        OBVIOUS
      <3> QED BY <1>1, <3>1, <3>2, Zenon DEF Flight
    <2>3. plock \in Seq(Seq(Cmd)) /\ Todo(t) = FlattenSeq(PartsOf(plock, t))
      BY PartsTypes
    <2>4. Todo(t)' = FlattenSeq(PartsOf(plock', t))
      BY DEF Todo, PartsOf
    <2>5. /\ FlattenSeq(PartsOf(plock, t)) = Part(Head(plock), t) \o FlattenSeq(PartsOf(Tail(plock), t))
          /\ FlattenSeq(PartsOf(Tail(plock), t)) \in Seq(Cmd)
      BY <1>1, <2>3, TodoHead
    <2>6. Todo(t) = Part(Head(plock), t) \o Todo(t)' /\ Todo(t)' \in Seq(Cmd)
      BY <1>1, <2>3, <2>4, <2>5
    <2>7. Head(plock) \in Seq(Cmd)
      BY <1>1, <2>3
    <2>8. Part(Head(plock), t) \in Seq(Cmd) /\ Todo(t)' \in Seq(Cmd)
      BY <2>6, <2>7, PartType
    <2>9. Part(Resumed, t) \in Seq(Cmd) /\ Part(queue1, t) \in Seq(Cmd)
      BY PartsTypes
    <2>10. Line(t)' = Part(Resumed, t) \o (Part(Head(plock), t) \o (Todo(t)' \o Part(queue1, t)))
      BY <2>1, <2>2 DEF Line
    <2>11. Line(t) = Part(Resumed, t) \o (<<>> \o ((Part(Head(plock), t) \o Todo(t)') \o Part(queue1, t)))
      BY <2>1, <2>6 DEF Line
    <2> DEFINE p == Part(Head(plock), t)
               u == Todo(t)'
               q == Part(queue1, t)
    <2>12. p \in Seq(Cmd) /\ u \in Seq(Cmd) /\ q \in Seq(Cmd)
      BY <2>8, <2>9
    <2> HIDE DEF p, u, q
    <2>13. <<>> \o ((p \o u) \o q) = p \o (u \o q)
      <3>1. (p \o u) \o q = p \o (u \o q) /\ (p \o u) \o q \in Seq(Cmd)
        BY <2>12, SMTT(30)
      <3> QED BY <3>1
    <2>14. <<>> \o ((Part(Head(plock), t) \o Todo(t)') \o Part(queue1, t))
             = Part(Head(plock), t) \o (Todo(t)' \o Part(queue1, t))
      BY <2>13 DEF p, u, q
    <2> QED BY <2>10, <2>11, <2>14
  <1> QED BY <1>2 DEF Lines

LEMMA SameLines ==
  ASSUME UNCHANGED <<queue1, plock, queue2, worker, res1>>
  PROVE  Lines' = Lines
  BY DEF Lines, Line, Resumed, Flight, Todo

LEMMA SpliceLines ==
  ASSUME Splice
  PROVE  /\ \A s \in Shard : Flight(s)' = Flight(s)
         /\ Lines' = Lines
  <1>1. /\ worker = <<>> /\ queue2 # <<>> /\ worker' = queue2 /\ queue2' = <<>>
        /\ UNCHANGED <<queue1, plock, res1>>
    BY DEF Splice
  <1>2. \A s \in Shard : Flight(s)' = Flight(s)
    BY <1>1 DEF Flight
  <1>3. \A s \in Shard : Resumed' = Resumed /\ Todo(s)' = Todo(s)
    BY <1>1 DEF Resumed, Todo
  <1>4. \A s \in Shard : Line(s)' = Line(s)
    BY <1>1, <1>2, <1>3 DEF Line
  <1> QED BY <1>2, <1>4 DEF Lines

LEMMA RecvEndLines ==
  ASSUME ShapeInv, BatchInv, RecvEnd
  PROVE  /\ worker' = <<>> /\ queue2' = <<>> /\ \A s \in Shard : Flight(s) = <<>> /\ Flight(s)' = <<>>
         /\ Lines' = Lines
  <1>1. /\ worker # <<>> /\ Head(worker).list = Nothing /\ worker' = Tail(worker)
        /\ UNCHANGED <<queue1, plock, queue2, res1>>
    BY DEF RecvEnd
  <1>2. worker = <<worker[1]>> /\ queue2 = <<>>
    BY <1>1, One
  <1>3. Head(worker) = worker[1] /\ Tail(worker) = <<>>
    <2>1. \A x : Head(<<x>>) = x /\ Tail(<<x>>) = <<>>
      OBVIOUS
    <2> QED BY <1>2, <2>1
  <1>4. worker' = <<>> /\ queue2' = <<>>
    BY <1>1, <1>2, <1>3
  <1>5. \A s \in Shard : Flight(s) = <<>> /\ Flight(s)' = <<>>
    BY <1>1, <1>3, <1>4 DEF Flight, Nothing
  <1>6. \A s \in Shard : Resumed' = Resumed /\ Todo(s)' = Todo(s)
    BY <1>1 DEF Resumed, Todo
  <1>7. \A s \in Shard : Line(s)' = Line(s)
    BY <1>1, <1>5, <1>6 DEF Line
  <1> QED BY <1>4, <1>5, <1>7 DEF Lines

(* An answer that is read is the answer to the first call of the list.     *)
LEMMA RecvFacts ==
  ASSUME ShapeInv, BatchInv, NEW s \in Shard, Recv(s)
  PROVE  \E x \in Cmd :
           /\ x.s = s /\ s \notin down
           /\ Flight(s) # <<>> /\ Head(Flight(s)) = x
           /\ replies[s] # <<>> /\ Head(replies[s]) = x
           /\ res1' = Append(res1, [call |-> x, reply |-> x])
           /\ replies' = [replies EXCEPT ![s] = Tail(@)]
           /\ worker # <<>> /\ worker' # <<>> /\ worker' \in Seq(Batch) /\ Len(worker') = 1
           /\ \A t \in Shard : Flight(t)' = IF t = s THEN Tail(Flight(t)) ELSE Flight(t)
  <1> DEFINE b == worker[1]
             c == [b EXCEPT !.list[s] = Tail(@)]
             x == Head(b.list[s])
  <1>1. /\ worker # <<>> /\ Head(worker).list[s] # <<>> /\ replies[s] # <<>>
        /\ res1' = Append(res1, [call |-> Head(Head(worker).list[s]), reply |-> Head(replies[s])])
        /\ replies' = [replies EXCEPT ![s] = Tail(@)]
        /\ worker' = [worker EXCEPT ![1].list[s] = Tail(@)]
        /\ UNCHANGED <<thread, calls, waiting, got, queue1, plock, hold, wire, down, queue2, res2>>
    BY DEF Recv
  <1>2. worker = <<b>> /\ b \in Batch
    BY <1>1, One
  <1>3. Head(worker) = b
    <2>1. \A y : Head(<<y>>) = y
      OBVIOUS
    <2> QED BY <1>2, <2>1
  <1>4. worker' = <<c>>
    <2>1. worker' = [worker EXCEPT ![1] = c]
      BY <1>1
    <2> HIDE DEF c
    <2>2. \A w : [<<w>> EXCEPT ![1] = c] = <<c>>
      OBVIOUS
    <2> QED BY <1>2, <2>1, <2>2
  <1>5. b.list \in Lists /\ b.list[s] \in Seq(Own(Cmd, s)) /\ b.list \in [Shard -> Seq(Cmd)] /\ b.id \in Nat
    BY <1>2, BatchTyped DEF Batch
  <1>6. \A T : \A q \in Seq(T) : q # <<>> => Head(q) \in T /\ Tail(q) \in Seq(T)
    OBVIOUS
  <1>7. x \in Own(Cmd, s) /\ Tail(b.list[s]) \in Seq(Own(Cmd, s))
    BY <1>1, <1>3, <1>5, <1>6
  <1>8. c.id = b.id /\ c.list = [b.list EXCEPT ![s] = Tail(@)] /\ c = [id |-> b.id, list |-> [b.list EXCEPT ![s] = Tail(@)]]
    <2>1. c = [b EXCEPT !.list = [b.list EXCEPT ![s] = Tail(b.list[s])]]
      OBVIOUS
    <2>2. \A m : [b EXCEPT !.list = m] = [id |-> b.id, list |-> m]
      <3> SUFFICES ASSUME NEW m PROVE [b EXCEPT !.list = m] = [id |-> b.id, list |-> m]
        OBVIOUS
      <3> QED BY <1>2 DEF Batch
    <2>3. [b.list EXCEPT ![s] = Tail(@)] = [b.list EXCEPT ![s] = Tail(b.list[s])]
      OBVIOUS
    <2>4. c = [id |-> b.id, list |-> [b.list EXCEPT ![s] = Tail(@)]]
      BY <2>1, <2>2, <2>3
    <2> QED BY <2>4
  <1> HIDE DEF c
  <1>9. c \in Batch
    <2>1. Tail(b.list[s]) \in Seq(Cmd)
      BY <1>7, OwnSeq
    <2>2. c.list \in [Shard -> Seq(Cmd)]
      BY <1>5, <1>8, <2>1
    <2>3. \A t \in Shard : c.list[t] \in Seq(Own(Cmd, t))
      BY <1>5, <1>7, <1>8 DEF Lists
    <2> QED BY <1>5, <1>8, <2>2, <2>3 DEF Batch, Lists
  <1>10. /\ Flight(s) = b.list[s]
         /\ \A t \in Shard : Flight(t)' = IF t = s THEN Tail(Flight(t)) ELSE Flight(t)
    <2>1. \A t \in Shard : Flight(t) = b.list[t]
      BY <1>1 DEF Flight
    <2>2. <<c>> # <<>> /\ <<c>>[1] = c
      OBVIOUS
    <2>3. \A t \in Shard : Flight(t)' = c.list[t]
      BY <1>4, <2>2 DEF Flight
    <2> QED BY <1>5, <1>8, <2>1, <2>3
  <1>11. s \notin down /\ replies[s] \o wire[s] = b.list[s]
    BY <1>1, <1>10 DEF BatchInv
  <1>12. Head(replies[s]) = x
    <2>1. replies[s] \in Seq(Cmd) /\ wire[s] \in Seq(Cmd)
      BY DEF ShapeInv
    <2>2. \A T : \A p, q \in Seq(T) : p # <<>> => Head(p \o q) = Head(p)
      OBVIOUS
    <2> QED BY <1>1, <1>11, <2>1, <2>2
  <1>13. x \in Cmd /\ x.s = s
    BY <1>7 DEF Own
  <1>14. <<c>> \in Seq(Batch) /\ Len(<<c>>) = 1 /\ <<c>> # <<>>
    BY <1>9
  <1> HIDE DEF x
  <1>15. res1' = Append(res1, [call |-> x, reply |-> x])
    BY <1>1, <1>3, <1>12 DEF x
  <1> QED BY <1>1, <1>3, <1>4, <1>10, <1>11, <1>12, <1>13, <1>14, <1>15 DEF x

LEMMA RecvLines ==
  ASSUME ShapeInv, BatchInv, NEW s \in Shard, Recv(s)
  PROVE  /\ Lines' = Lines
         /\ Len(replies[s]') + Len(Part(Resumed', s)) = Len(replies[s]) + Len(Part(Resumed, s))
         /\ \A t \in Shard : t # s => replies[t]' = replies[t] /\ Part(Resumed', t) = Part(Resumed, t)
  <1>1. PICK x \in Cmd :
           /\ x.s = s
           /\ Flight(s) # <<>> /\ Head(Flight(s)) = x
           /\ replies[s] # <<>>
           /\ res1' = Append(res1, [call |-> x, reply |-> x])
           /\ replies' = [replies EXCEPT ![s] = Tail(@)]
           /\ \A t \in Shard : Flight(t)' = IF t = s THEN Tail(Flight(t)) ELSE Flight(t)
    BY RecvFacts
  <1>2. UNCHANGED <<queue1, plock>>
    BY DEF Recv
  <1>3. Resumed \in Seq(Cmd) /\ Resumed' = Append(Resumed, x)
    <2> DEFINE R == [call : Cmd, reply : Cmd]
               y == [call |-> x, reply |-> x]
    <2>1. res1 \in Seq(R) /\ y \in R /\ y.call = x /\ \A z \in R : z.call \in Cmd
      BY DEF ShapeInv
    <2>2. res1' = Append(res1, y)
      BY <1>1
    <2> HIDE DEF R, y
    <2>3. CallsOf(Append(res1, y)) = Append(CallsOf(res1), y.call) /\ CallsOf(res1) \in Seq(Cmd)
      <3> HIDE DEF Cmd
      <3>1. CallsOf(res1) \in Seq(Cmd)
        BY <2>1, CallsOfType
      <3>2. CallsOf(Append(res1, y)) = Append(CallsOf(res1), y.call)
        BY <2>1, CallsOfAppend
      <3> QED BY <3>1, <3>2
    <2>4. Resumed' = CallsOf(res1') /\ Resumed = CallsOf(res1)
      BY DEF Resumed, CallsOf
    <2> QED BY <2>1, <2>2, <2>3, <2>4
  <1>4. ASSUME NEW t \in Shard
        PROVE  /\ Part(Resumed', t) = IF t = s THEN Append(Part(Resumed, t), x) ELSE Part(Resumed, t)
               /\ Line(t)' = Line(t)
    <2>1. Part(Resumed', t) = IF x.s = t THEN Append(Part(Resumed, t), x) ELSE Part(Resumed, t)
      BY <1>3, PartAppend
    <2>2. Todo(t)' = Todo(t)
      BY <1>2 DEF Todo
    <2>3. CASE t # s
      BY <1>1, <1>2, <2>1, <2>2, <2>3 DEF Line
    <2>4. CASE t = s
      <3> DEFINE a == Part(Resumed, s)
                 f == Flight(s)
                 g == Tail(Flight(s))
                 u == Todo(s)
                 q == Part(queue1, s)
                 r == u \o q
      <3>1. a \in Seq(Cmd) /\ f \in Seq(Cmd) /\ u \in Seq(Cmd) /\ q \in Seq(Cmd)
        BY PartsTypes
      <3>2. f # <<>> /\ Head(f) = x /\ g = Tail(f)
        BY <1>1
      <3>3. Line(s)' = Append(a, x) \o (g \o r)
        BY <1>1, <1>2, <2>1, <2>2, <2>4 DEF Line
      <3>4. Line(s) = a \o (f \o r)
        BY DEF Line
      <3> HIDE DEF a, f, g, u, q
      <3>5. g \in Seq(Cmd) /\ f = <<x>> \o g
        BY <3>1, <3>2
      <3>6. r \in Seq(Cmd)
        BY <3>1, Assoc
      <3> HIDE DEF r
      <3> DEFINE gr == g \o r
      <3>7. gr \in Seq(Cmd) /\ (<<x>> \o g) \o r = <<x>> \o gr
        BY <3>5, <3>6, SMTT(30)
      <3> HIDE DEF gr
      <3>8. Append(a, x) \o gr = a \o (<<x>> \o gr)
        BY <3>1, <3>7, Joined
      <3>9. Append(a, x) \o (g \o r) = a \o (f \o r)
        BY <3>5, <3>7, <3>8 DEF gr
      <3> QED BY <1>1, <2>1, <2>4, <3>3, <3>4, <3>9
    <2> QED BY <2>3, <2>4
  <1>5. Lines' = Lines
    BY <1>4 DEF Lines
  <1>6. replies \in [Shard -> Seq(Cmd)] /\ Part(Resumed, s) \in Seq(Cmd)
    BY PartsTypes DEF ShapeInv
  <1>7. replies[s]' = Tail(replies[s]) /\ \A t \in Shard : t # s => replies[t]' = replies[t]
    BY <1>1, <1>6
  <1>8. Len(replies[s]') + Len(Part(Resumed', s)) = Len(replies[s]) + Len(Part(Resumed, s))
    <2>1. \A T : \A p \in Seq(T), q \in Seq(T), y \in T : p # <<>> =>
            Len(Tail(p)) + Len(Append(q, y)) = Len(p) + Len(q)
      OBVIOUS
    <2>2. Part(Resumed', s) = Append(Part(Resumed, s), x) /\ replies[s] \in Seq(Cmd)
      BY <1>4, <1>6
    <2> QED BY <1>1, <1>6, <1>7, <2>1, <2>2
  <1> QED BY <1>4, <1>5, <1>7, <1>8

(* The coroutine that returns had the first call of its line.              *)
LEMMA ReturnLines ==
  ASSUME ShapeInv, AnswerInv, Return
  PROVE  \E x \in Cmd :
           /\ waiting' = waiting \ {x.c} /\ got' = [got EXCEPT ![x.c] = <<x>>]
           /\ Line(x.s) # <<>> /\ Head(Line(x.s)) = x
           /\ Lines' = [Lines EXCEPT ![x.s] = Tail(@)]
           /\ Part(Resumed, x.s) = <<x>> \o Part(Resumed', x.s)
           /\ \A t \in Shard : t # x.s => Part(Resumed', t) = Part(Resumed, t)
  <1> DEFINE R == [call : Cmd, reply : Cmd]
             x == Head(res1).call
  <1>1. /\ res1 # <<>> /\ res1' = Tail(res1)
        /\ waiting' = waiting \ {x.c} /\ got' = [got EXCEPT ![x.c] = <<Head(res1).reply>>]
        /\ UNCHANGED <<queue1, plock, queue2, worker>>
    BY DEF Return
  <1>2. res1 \in Seq(R) /\ \A z \in R : z.call \in Cmd
    BY DEF ShapeInv
  <1>3. Head(res1).reply = x
    <2>1. Len(res1) \in Nat /\ 1 \in 1..Len(res1) /\ Head(res1) = res1[1]
      BY <1>1, <1>2
    <2> QED BY <2>1 DEF AnswerInv
  <1> HIDE DEF R
  <1>4. Head(res1) \in R /\ Tail(res1) \in Seq(R)
    BY <1>1, <1>2
  <1>5. x \in Cmd
    BY <1>2, <1>4
  <1>6. Resumed = <<x>> \o Resumed' /\ Resumed' \in Seq(Cmd)
    <2>1. Resumed' = CallsOf(res1') /\ Resumed = CallsOf(res1)
      BY DEF Resumed, CallsOf
    <2>2. CallsOf(res1) = <<x>> \o CallsOf(Tail(res1))
      BY <1>1, <1>2, CallsOfHead DEF x
    <2>3. CallsOf(Tail(res1)) \in Seq(Cmd)
      BY <1>2, <1>4, CallsOfType
    <2> QED BY <1>1, <2>1, <2>2, <2>3
  <1>x. x.s \in Shard
    BY <1>5 DEF Cmd
  <1> HIDE DEF x
  <1>7. ASSUME NEW t \in Shard
        PROVE  /\ t # x.s => Part(Resumed', t) = Part(Resumed, t) /\ Line(t)' = Line(t)
               /\ t = x.s => /\ Part(Resumed, t) = <<x>> \o Part(Resumed', t)
                             /\ Line(t) # <<>> /\ Head(Line(t)) = x /\ Line(t)' = Tail(Line(t))
    <2>1. Part(<<x>> \o Resumed', t) = IF x.s = t THEN <<x>> \o Part(Resumed', t) ELSE Part(Resumed', t)
      BY <1>5, <1>6, PartCons
    <2>2. Part(Resumed, t) = IF x.s = t THEN <<x>> \o Part(Resumed', t) ELSE Part(Resumed', t)
      BY <1>6, <2>1
    <2>3. Flight(t)' = Flight(t) /\ Todo(t)' = Todo(t) /\ Part(queue1', t) = Part(queue1, t)
      BY <1>1 DEF Flight, Todo
    <2>4. CASE t # x.s
      BY <2>2, <2>3, <2>4 DEF Line
    <2>5. CASE t = x.s
      <3> DEFINE a == Part(Resumed', t)
                 f == Flight(t)
                 u == Todo(t)
                 q == Part(queue1, t)
                 uq == u \o q
                 r == f \o uq
      <3>1. f \in Seq(Cmd) /\ u \in Seq(Cmd) /\ q \in Seq(Cmd) /\ a \in Seq(Cmd)
        BY <1>6, PartType, PartsTypes
      <3>2. Line(t) = (<<x>> \o a) \o r /\ Line(t)' = a \o r
        BY <2>2, <2>3, <2>5 DEF Line
      <3> HIDE DEF a, f, u, q
      <3>3. uq \in Seq(Cmd)
        BY <3>1, Assoc
      <3> HIDE DEF uq
      <3>4. r \in Seq(Cmd)
        BY <3>1, <3>3, Assoc
      <3> HIDE DEF r
      <3>5. (<<x>> \o a) \o r # <<>> /\ Head((<<x>> \o a) \o r) = x /\ Tail((<<x>> \o a) \o r) = a \o r
        <4> DEFINE xa == <<x>> \o a
        <4>1. xa \in Seq(Cmd) /\ xa # <<>> /\ Head(xa) = x /\ Tail(xa) = a
          BY <1>5, <3>1
        <4> HIDE DEF xa
        <4>2. Head(xa \o r) = Head(xa) /\ Tail(xa \o r) = Tail(xa) \o r /\ xa \o r # <<>>
          BY <3>4, <4>1
        <4> QED BY <4>1, <4>2 DEF xa
      <3> QED BY <2>2, <2>5, <3>2, <3>5 DEF a
    <2> QED BY <2>4, <2>5
  <1>8. Lines' = [Lines EXCEPT ![x.s] = Tail(@)]
    BY <1>7, <1>x DEF Lines
  <1> QED BY <1>1, <1>3, <1>5, <1>7, <1>8, <1>x DEF x

-----------------------------------------------------------------------------
(* The invariant is inductive.                                             *)
LEMMA WaitsCall ==
  ASSUME NEW line \in [Shard -> Seq(Cmd)], NEW w, Waits(line, w),
         NEW x \in Cmd, x.c \notin w
  PROVE  Waits([line EXCEPT ![x.s] = Append(@, x)], w \cup {x.c})
  <1> DEFINE new == [line EXCEPT ![x.s] = Append(@, x)]
  <1>0. x.s \in Shard
    BY DEF Cmd
  <1>1. ASSUME NEW t \in Shard
        PROVE  /\ Len(line[t]) \in Nat
               /\ t # x.s => new[t] = line[t]
               /\ t = x.s => /\ Len(new[t]) = Len(line[t]) + 1
                             /\ \A i \in 1..Len(new[t]) :
                                  new[t][i] = IF i = Len(line[t]) + 1 THEN x ELSE line[t][i]
    <2>1. \A q \in Seq(Cmd) : /\ Len(q) \in Nat /\ Len(Append(q, x)) = Len(q) + 1
                              /\ \A i \in 1..(Len(q) + 1) :
                                   Append(q, x)[i] = IF i = Len(q) + 1 THEN x ELSE q[i]
      OBVIOUS
    <2>2. line[t] \in Seq(Cmd) /\ new[t] = IF t = x.s THEN Append(line[t], x) ELSE line[t]
      OBVIOUS
    <2> HIDE DEF new
    <2> QED BY <2>1, <2>2
  <1> HIDE DEF new
  <1>2. ASSUME NEW s \in Shard, NEW i \in 1..Len(new[s])
        PROVE  \/ i \in 1..Len(line[s]) /\ new[s][i] = line[s][i]
               \/ s = x.s /\ i = Len(line[s]) + 1 /\ new[s][i] = x
    BY <1>1
  <1>3. \A s \in Shard : \A i \in 1..Len(line[s]) : line[s][i].c \in w
    BY DEF Waits
  <1>4. ASSUME NEW s \in Shard, NEW i \in 1..Len(new[s]) PROVE new[s][i].c \in w \cup {x.c}
    BY <1>2, <1>3
  <1>5. ASSUME NEW s \in Shard, NEW t \in Shard, NEW i \in 1..Len(new[s]), NEW j \in 1..Len(new[t]),
               new[s][i].c = new[t][j].c
        PROVE  s = t /\ i = j
    <2>1. CASE i \in 1..Len(line[s]) /\ new[s][i] = line[s][i]
      <3>1. new[s][i].c \in w
        BY <1>3, <2>1
      <3>2. j \in 1..Len(line[t]) /\ new[t][j] = line[t][j]
        BY <1>2, <1>5, <3>1
      <3> QED BY <1>5, <2>1, <3>2 DEF Waits
    <2>2. CASE s = x.s /\ i = Len(line[s]) + 1 /\ new[s][i] = x
      <3>1. new[t][j].c \notin w
        BY <1>5, <2>2
      <3> QED BY <1>2, <1>3, <2>2, <3>1
    <2> QED BY <1>2, <2>1, <2>2
  <1>6. Waits(new, w \cup {x.c})
    BY <1>4, <1>5 DEF Waits
  <1> QED BY <1>6 DEF new

LEMMA WaitsReturn ==
  ASSUME NEW line \in [Shard -> Seq(Cmd)], NEW w, Waits(line, w),
         NEW s \in Shard, line[s] # <<>>, NEW x, x = Head(line[s])
  PROVE  Waits([line EXCEPT ![s] = Tail(@)], w \ {x.c})
  <1> DEFINE new == [line EXCEPT ![s] = Tail(@)]
  <1>1. /\ 1 \in 1..Len(line[s]) /\ line[s][1] = x
        /\ new[s] = Tail(line[s]) /\ \A t \in Shard : t # s => new[t] = line[t]
    OBVIOUS
  <1>2. \A i \in 1..Len(new[s]) : i + 1 \in 1..Len(line[s]) /\ new[s][i] = line[s][i + 1] /\ i + 1 # 1
    <2>1. \A q \in Seq(Cmd) : q # <<>> =>
            \A i \in 1..Len(Tail(q)) : i + 1 \in 1..Len(q) /\ Tail(q)[i] = q[i + 1] /\ i + 1 # 1
      OBVIOUS
    <2>2. line[s] \in Seq(Cmd)
      OBVIOUS
    <2> QED BY <1>1, <2>1, <2>2
  <1> HIDE DEF new
  <1> DEFINE at(t, i) == IF t = s THEN i + 1 ELSE i
  <1>3. ASSUME NEW t \in Shard, NEW i \in 1..Len(new[t])
        PROVE  /\ at(t, i) \in 1..Len(line[t]) /\ new[t][i] = line[t][at(t, i)]
               /\ t = s => at(t, i) # 1
    BY <1>1, <1>2
  <1>4. ASSUME NEW t \in Shard, NEW i \in 1..Len(new[t])
        PROVE  new[t][i].c \in w \ {x.c}
    <2>1. line[t][at(t, i)].c \in w
      BY <1>3 DEF Waits
    <2>2. line[t][at(t, i)].c = line[s][1].c => t = s /\ at(t, i) = 1
      <3> HIDE DEF at
      <3> QED BY <1>1, <1>3 DEF Waits
    <2>3. line[t][at(t, i)].c # x.c
      <3> HIDE DEF at
      <3> QED BY <1>1, <1>3, <2>2
    <2> HIDE DEF at
    <2> QED BY <1>3, <2>1, <2>3
  <1>5. ASSUME NEW t \in Shard, NEW u \in Shard, NEW i \in 1..Len(new[t]), NEW j \in 1..Len(new[u]),
               new[t][i].c = new[u][j].c
        PROVE  t = u /\ i = j
    <2>1. t = u /\ at(t, i) = at(u, j)
      <3> HIDE DEF at
      <3>1. line[t][at(t, i)].c = line[u][at(u, j)].c
        BY <1>3, <1>5
      <3>2. at(t, i) \in 1..Len(line[t]) /\ at(u, j) \in 1..Len(line[u])
        BY <1>3
      <3> QED BY <3>1, <3>2 DEF Waits
    <2> QED BY <2>1
  <1>6. Waits(new, w \ {x.c})
    BY <1>4, <1>5 DEF Waits
  <1> QED BY <1>6 DEF new

LEMMA InitCo == Init => CoInv
<1> SUFFICES ASSUME Init PROVE CoInv
  OBVIOUS
<1>0. \A T : <<>> \in Seq(T)
  OBVIOUS
<1>1. ShapeInv
  <2>1. Nothing \in [Shard -> Seq(Cmd)]
    BY <1>0 DEF Nothing
  <2>2. 0 \in 0..MaxCall
    BY RedisCoAssumption
  <2> QED BY <1>0, <2>1, <2>2 DEF Init, ShapeInv
<1>2. \A s \in Shard : Flight(s) = <<>>
  BY DEF Init, Flight
<1>3. BatchInv
  <2>1. Len(queue2) + Len(worker) + Len(res2) <= 1
    BY DEF Init
  <2>2. \A s \in Shard : wire[s] = <<>> /\ replies[s] = <<>>
    BY DEF Init, Nothing
  <2>3. <<>> \o <<>> = <<>>
    OBVIOUS
  <2>4. queue2 = <<>> /\ worker = <<>> /\ res2 = <<>>
    BY DEF Init
  <2> QED BY <1>2, <2>1, <2>2, <2>3, <2>4 DEF BatchInv
<1>4. AnswerInv
  <2>1. Len(res1) = 0
    BY DEF Init
  <2> QED BY <2>1 DEF AnswerInv
<1>5. \A s \in Shard : Line(s) = <<>>
  <2> TAKE s \in Shard
  <2>1. Resumed = <<>> /\ Part(<<>>, s) = <<>> /\ Part(queue1, s) = <<>>
    BY PartEmpty DEF Init, Resumed
  <2>2. [i \in DOMAIN plock |-> Part(plock[i], s)] = <<>>
    BY DEF Init
  <2>3. Todo(s) = <<>>
    BY <2>2, FlatEmpty DEF Todo
  <2>4. <<>> \o (<<>> \o (<<>> \o <<>>)) = <<>>
    OBVIOUS
  <2> QED BY <1>2, <2>1, <2>3, <2>4 DEF Line
<1>6. Waits(Lines, waiting)
  <2>1. \A s \in Shard : Len(Lines[s]) = 0
    BY <1>5 DEF Lines
  <2> QED BY <2>1 DEF Waits
<1> QED BY <1>1, <1>3, <1>4, <1>6 DEF CoInv

LEMMA SameBatch ==
  ASSUME BatchInv, UNCHANGED <<queue2, worker, res2, hold, wire, replies, down>>
  PROVE  BatchInv'
  <1>1. \A s \in Shard : Flight(s)' = Flight(s)
    BY DEF Flight
  <1> QED BY <1>1 DEF BatchInv

LEMMA CallCo ==
  ASSUME CoInv, NEW c \in Caller, NEW s \in Shard, redis_co(c, s)
  PROVE  CoInv'
  <1> DEFINE x == [c |-> c, s |-> s, n |-> calls]
  <1>1. ShapeInv /\ BatchInv /\ AnswerInv /\ Waits(Lines, waiting)
    BY DEF CoInv
  <1>2. /\ c \notin waiting /\ calls < MaxCall /\ calls' = calls + 1 /\ waiting' = waiting \cup {c}
        /\ queue1' = Append(queue1, x)
        /\ UNCHANGED <<thread, got, plock, hold, redis, queue2, worker, res1, res2>>
    BY DEF redis_co
  <1>3. x \in Cmd /\ x.c = c /\ x.s = s
    BY <1>1, RedisCoAssumption DEF ShapeInv, Cmd
  <1>4. Lines' = [Lines EXCEPT ![x.s] = Append(@, x)]
    BY <1>1, <1>3, CallLines
  <1> HIDE DEF x
  <1>5. ShapeInv'
    <2>1. calls + 1 \in 0..MaxCall /\ waiting \cup {c} \subseteq Caller
      BY <1>1, <1>2, RedisCoAssumption DEF ShapeInv
    <2>2. Append(queue1, x) \in Seq(Cmd)
      BY <1>1, <1>3 DEF ShapeInv
    <2> QED BY <1>1, <1>2, <2>1, <2>2 DEF ShapeInv, redis
  <1>6. BatchInv' /\ AnswerInv'
    BY <1>1, <1>2, SameBatch DEF redis, AnswerInv
  <1>7. Waits(Lines', waiting')
    <2>1. Lines \in [Shard -> Seq(Cmd)]
      BY <1>1, LinesType
    <2>2. Waits([Lines EXCEPT ![x.s] = Append(@, x)], waiting \cup {x.c})
      BY <1>1, <1>2, <1>3, <2>1, WaitsCall
    <2> QED BY <1>2, <1>3, <1>4, <2>2
  <1>8. Waits(Lines, waiting)'
    BY <1>7 DEF Waits
  <1> QED BY <1>5, <1>6, <1>8 DEF CoInv

LEMMA ReturnCo ==
  ASSUME CoInv, Return
  PROVE  CoInv'
  <1>1. ShapeInv /\ BatchInv /\ AnswerInv /\ Waits(Lines, waiting)
    BY DEF CoInv
  <1>2. /\ res1 # <<>> /\ res1' = Tail(res1)
        /\ UNCHANGED <<thread, calls, queue1, plock, hold, redis, queue2, worker, res2>>
    BY DEF Return
  <1>3. PICK x \in Cmd :
           /\ waiting' = waiting \ {x.c}
           /\ Line(x.s) # <<>> /\ Head(Line(x.s)) = x
           /\ Lines' = [Lines EXCEPT ![x.s] = Tail(@)]
    BY <1>1, ReturnLines
  <1>4. \A T : \A q \in Seq(T) : q # <<>> =>
          Tail(q) \in Seq(T) /\ \A i \in 1..Len(Tail(q)) : i + 1 \in 1..Len(q) /\ Tail(q)[i] = q[i + 1]
    OBVIOUS
  <1>5. ShapeInv'
    BY <1>1, <1>2, <1>3, <1>4 DEF ShapeInv, redis
  <1>6. BatchInv'
    BY <1>1, <1>2, SameBatch DEF redis
  <1>7. AnswerInv'
    <2>1. res1 \in Seq([call : Cmd, reply : Cmd])
      BY <1>1 DEF ShapeInv
    <2>2. \A i \in 1..Len(res1') : i + 1 \in 1..Len(res1) /\ res1'[i] = res1[i + 1]
      BY <1>2, <1>4, <2>1
    <2>3. \A i \in 1..Len(res1) : res1[i].reply = res1[i].call
      BY <1>1 DEF AnswerInv
    <2>4. \A i \in 1..Len(res1') : res1'[i].reply = res1'[i].call
      BY <2>2, <2>3
    <2> QED BY <2>4 DEF AnswerInv
  <1>8. Waits(Lines', waiting')
    <2>1. Lines \in [Shard -> Seq(Cmd)] /\ x.s \in Shard
      BY <1>1, LinesType DEF Cmd
    <2>2. Lines[x.s] # <<>> /\ x = Head(Lines[x.s])
      BY <1>3, <2>1 DEF Lines
    <2>3. Waits([Lines EXCEPT ![x.s] = Tail(@)], waiting \ {x.c})
      BY <1>1, <2>1, <2>2, WaitsReturn
    <2> QED BY <1>3, <2>3
  <1>9. Waits(Lines, waiting)'
    BY <1>8 DEF Waits
  <1> QED BY <1>5, <1>6, <1>7, <1>9 DEF CoInv

(* A step that keeps the lines and the waiting coroutines.                 *)
LEMMA KeepWaits ==
  ASSUME Waits(Lines, waiting), Lines' = Lines, waiting' = waiting
  PROVE  Waits(Lines, waiting)'
  BY DEF Waits

LEMMA RunTaskCo ==
  ASSUME CoInv, RunTask
  PROVE  CoInv'
  <1>1. ShapeInv /\ BatchInv /\ AnswerInv /\ Waits(Lines, waiting)
    BY DEF CoInv
  <1>2. /\ queue1 # <<>> /\ plock' = Append(plock, queue1) /\ queue1' = <<>>
        /\ UNCHANGED <<thread, calls, waiting, got, hold, redis, queue2, worker, res1, res2>>
    BY DEF RunTask
  <1>3. ShapeInv'
    <2>1. queue1 \in Seq(Cmd) \ {<<>>} /\ plock \in Seq(Seq(Cmd) \ {<<>>})
      BY <1>1, <1>2 DEF ShapeInv
    <2>2. Append(plock, queue1) \in Seq(Seq(Cmd) \ {<<>>}) /\ <<>> \in Seq(Cmd)
      BY <2>1
    <2> QED BY <1>1, <1>2, <2>2 DEF ShapeInv, redis
  <1>4. BatchInv' /\ AnswerInv'
    BY <1>1, <1>2, SameBatch DEF redis, AnswerInv
  <1>5. Waits(Lines, waiting)'
    BY <1>1, <1>2, RunTaskLines, KeepWaits
  <1> QED BY <1>3, <1>4, <1>5 DEF CoInv

LEMMA ExecCo ==
  ASSUME CoInv, Exec
  PROVE  CoInv'
  <1>1. ShapeInv /\ BatchInv /\ AnswerInv /\ Waits(Lines, waiting)
    BY DEF CoInv
  <1>2. PICK b \in Batch :
           /\ b.list = [s \in Shard |-> Part(Head(plock), s)]
           /\ plock' = Tail(plock) /\ plock # <<>> /\ hold' = hold \cup {b.id}
           /\ wire' = [s \in Shard |-> IF s \in down THEN <<>> ELSE wire[s] \o b.list[s]]
           /\ queue2 = <<>> /\ worker = <<>> /\ res2 = <<>>
           /\ \/ queue2' = <<b>> /\ worker' = <<>>
              \/ worker' = <<b>> /\ queue2' = <<>>
           /\ UNCHANGED <<thread, calls, waiting, got, queue1, replies, down, res1, res2>>
    BY <1>1, ExecFacts
  <1>3. \A s \in Shard : b.list[s] \in Seq(Cmd)
    BY BatchTyped
  <1>4. /\ wire \in [Shard -> Seq(Cmd)] /\ replies \in [Shard -> Seq(Cmd)]
        /\ plock \in Seq(Seq(Cmd) \ {<<>>})
    BY <1>1 DEF ShapeInv
  <1>5. \A y : <<y>> # <<>> /\ Len(<<y>>) = 1 /\ <<y>>[1] = y /\ Len(<<>>) = 0
    OBVIOUS
  <1>6. ShapeInv'
    <2>1. Tail(plock) \in Seq(Seq(Cmd) \ {<<>>})
      BY <1>2, <1>4
    <2>2. wire' \in [Shard -> Seq(Cmd)]
      <3>1. \A s \in Shard : wire[s] \o b.list[s] \in Seq(Cmd)
        BY <1>3, <1>4, Assoc
      <3>2. <<>> \in Seq(Cmd)
        OBVIOUS
      <3> QED BY <1>2, <3>1, <3>2
    <2>3. <<b>> \in Seq(Batch) /\ <<>> \in Seq(Batch)
      OBVIOUS
    <2> QED BY <1>1, <1>2, <2>1, <2>2, <2>3 DEF ShapeInv
  <1>7. BatchInv'
    <2>1. Len(queue2') + Len(worker') + Len(res2') <= 1
      <3>1. Len(<<b>>) = 1 /\ Len(<<>>) = 0
        BY <1>5
      <3>2. res2' = <<>>
        BY <1>2
      <3>3. CASE queue2' = <<b>> /\ worker' = <<>>
        BY <3>1, <3>2, <3>3
      <3>4. CASE worker' = <<b>> /\ queue2' = <<>>
        BY <3>1, <3>2, <3>4
      <3> QED BY <1>2, <3>3, <3>4
    <2>2. hold' # {}
      BY <1>2
    <2>3. ASSUME NEW s \in Shard
          PROVE  IF s \in down' THEN wire[s]' = <<>> /\ replies[s]' = <<>>
                 ELSE replies[s]' \o wire[s]' = Flight(s)'
      <3>1. Flight(s) = <<>>
        BY <1>2 DEF Flight
      <3>2. Flight(s)' = b.list[s]
        BY <1>2, <1>5, Zenon DEF Flight
      <3>3. wire[s]' = IF s \in down THEN <<>> ELSE wire[s] \o b.list[s]
        BY <1>2
      <3>4. CASE s \in down
        BY <1>1, <1>2, <3>3, <3>4 DEF BatchInv
      <3>5. CASE s \notin down
        <4>1. replies[s] \o wire[s] = <<>>
          BY <1>1, <3>1, <3>5 DEF BatchInv
        <4>2. \A p, q \in Seq(Cmd) : p \o q = <<>> => p = <<>> /\ q = <<>>
          OBVIOUS
        <4>3. replies[s] = <<>> /\ wire[s] = <<>>
          BY <1>4, <4>1, <4>2
        <4>4. <<>> \o b.list[s] = b.list[s]
          BY <1>3
        <4>5. replies[s]' = <<>> /\ wire[s]' = b.list[s]
          BY <1>2, <3>3, <3>5, <4>3, <4>4
        <4> QED BY <1>2, <3>2, <3>5, <4>4, <4>5
      <3> QED BY <3>4, <3>5
    <2> QED BY <2>1, <2>2, <2>3 DEF BatchInv
  <1>8. AnswerInv'
    BY <1>1, <1>2 DEF AnswerInv
  <1>9. Waits(Lines, waiting)'
    BY <1>1, <1>2, ExecLines, KeepWaits
  <1> QED BY <1>6, <1>7, <1>8, <1>9 DEF CoInv

LEMMA ExecuteCo ==
  ASSUME CoInv, NEW s \in Shard, Execute(s)
  PROVE  CoInv'
  <1>1. ShapeInv /\ BatchInv /\ AnswerInv /\ Waits(Lines, waiting)
    BY DEF CoInv
  <1>2. /\ wire[s] # <<>> /\ replies' = [replies EXCEPT ![s] = Append(@, Head(wire[s]))]
        /\ wire' = [wire EXCEPT ![s] = Tail(@)]
        /\ UNCHANGED <<thread, calls, waiting, got, queue1, plock, hold, down, queue2, worker, res1, res2>>
    BY DEF Execute
  <1>3. wire \in [Shard -> Seq(Cmd)] /\ replies \in [Shard -> Seq(Cmd)]
    BY <1>1 DEF ShapeInv
  <1>4. \A p, q \in Seq(Cmd) : q # <<>> =>
          /\ Append(p, Head(q)) \in Seq(Cmd) /\ Tail(q) \in Seq(Cmd)
          /\ Append(p, Head(q)) \o Tail(q) = p \o q
    <2> SUFFICES ASSUME NEW p \in Seq(Cmd), NEW q \in Seq(Cmd), q # <<>>
                 PROVE  /\ Append(p, Head(q)) \in Seq(Cmd) /\ Tail(q) \in Seq(Cmd)
                        /\ Append(p, Head(q)) \o Tail(q) = p \o q
      OBVIOUS
    <2>1. Head(q) \in Cmd /\ Tail(q) \in Seq(Cmd) /\ q = <<Head(q)>> \o Tail(q)
      OBVIOUS
    <2>2. Append(p, Head(q)) \o Tail(q) = p \o (<<Head(q)>> \o Tail(q))
      BY <2>1, Joined
    <2> QED BY <2>1, <2>2
  <1>5. ShapeInv'
    <2>1. wire' \in [Shard -> Seq(Cmd)] /\ replies' \in [Shard -> Seq(Cmd)]
      BY <1>2, <1>3, <1>4
    <2> QED BY <1>1, <1>2, <2>1 DEF ShapeInv
  <1>6. BatchInv'
    <2>1. \A t \in Shard : Flight(t)' = Flight(t)
      BY <1>2 DEF Flight
    <2>2. ASSUME NEW t \in Shard
          PROVE  IF t \in down' THEN wire[t]' = <<>> /\ replies[t]' = <<>>
                 ELSE replies[t]' \o wire[t]' = Flight(t)'
      <3>1. CASE t = s
        <4>1. s \notin down /\ replies[s] \o wire[s] = Flight(s)
          BY <1>1, <1>2 DEF BatchInv
        <4>2. replies[s]' = Append(replies[s], Head(wire[s])) /\ wire[s]' = Tail(wire[s])
          BY <1>2, <1>3
        <4>3. replies[s]' \o wire[s]' = replies[s] \o wire[s]
          BY <1>2, <1>3, <1>4, <4>2
        <4> QED BY <1>2, <2>1, <3>1, <4>1, <4>3
      <3>2. CASE t # s
        <4>1. replies[t]' = replies[t] /\ wire[t]' = wire[t]
          BY <1>2, <1>3, <3>2
        <4> QED BY <1>1, <1>2, <2>1, <4>1 DEF BatchInv
      <3> QED BY <3>1, <3>2
    <2> QED BY <1>1, <1>2, <2>2 DEF BatchInv
  <1>7. AnswerInv'
    BY <1>1, <1>2 DEF AnswerInv
  <1>8. Waits(Lines, waiting)'
    BY <1>1, <1>2, SameLines, KeepWaits
  <1> QED BY <1>5, <1>6, <1>7, <1>8 DEF CoInv

LEMMA ResetCo ==
  ASSUME CoInv, NEW s \in Shard, Reset(s)
  PROVE  CoInv'
  <1>1. ShapeInv /\ BatchInv /\ AnswerInv /\ Waits(Lines, waiting)
    BY DEF CoInv
  <1>2. /\ down' = down \cup {s}
        /\ wire' = [wire EXCEPT ![s] = <<>>] /\ replies' = [replies EXCEPT ![s] = <<>>]
        /\ UNCHANGED <<thread, calls, waiting, got, queue1, plock, hold, queue2, worker, res1, res2>>
    BY DEF Reset
  <1>3. wire \in [Shard -> Seq(Cmd)] /\ replies \in [Shard -> Seq(Cmd)]
    BY <1>1 DEF ShapeInv
  <1>4. ShapeInv'
    <2>1. <<>> \in Seq(Cmd)
      OBVIOUS
    <2>2. wire' \in [Shard -> Seq(Cmd)] /\ replies' \in [Shard -> Seq(Cmd)]
      BY <1>2, <1>3, <2>1
    <2> QED BY <1>1, <1>2, <2>2 DEF ShapeInv
  <1>5. BatchInv'
    <2>1. \A t \in Shard : Flight(t)' = Flight(t)
      BY <1>2 DEF Flight
    <2>2. ASSUME NEW t \in Shard
          PROVE  IF t \in down' THEN wire[t]' = <<>> /\ replies[t]' = <<>>
                 ELSE replies[t]' \o wire[t]' = Flight(t)'
      <3>1. CASE t = s
        BY <1>2, <1>3, <3>1
      <3>2. CASE t # s
        <4>1. replies[t]' = replies[t] /\ wire[t]' = wire[t] /\ (t \in down' <=> t \in down)
          BY <1>2, <1>3, <3>2
        <4> QED BY <1>1, <2>1, <4>1 DEF BatchInv
      <3> QED BY <3>1, <3>2
    <2> QED BY <1>1, <1>2, <2>2 DEF BatchInv
  <1>6. AnswerInv'
    BY <1>1, <1>2 DEF AnswerInv
  <1>7. Waits(Lines, waiting)'
    BY <1>1, <1>2, SameLines, KeepWaits
  <1> QED BY <1>4, <1>5, <1>6, <1>7 DEF CoInv

LEMMA SpliceCo ==
  ASSUME CoInv, Splice
  PROVE  CoInv'
  <1>1. ShapeInv /\ BatchInv /\ AnswerInv /\ Waits(Lines, waiting)
    BY DEF CoInv
  <1>2. /\ worker = <<>> /\ queue2 # <<>> /\ worker' = queue2 /\ queue2' = <<>>
        /\ UNCHANGED <<thread, calls, waiting, got, queue1, plock, hold, redis, res1, res2>>
    BY DEF Splice
  <1>3. ShapeInv'
    <2>1. <<>> \in Seq(Batch)
      OBVIOUS
    <2> QED BY <1>1, <1>2, <2>1 DEF ShapeInv, redis
  <1>4. BatchInv'
    <2>1. Len(queue2) = 1 /\ res2 = <<>> /\ hold # {}
      BY <1>1, <1>2, One
    <2>2. Len(queue2') + Len(worker') + Len(res2') <= 1
      <3>1. Len(<<>>) = 0
        OBVIOUS
      <3> QED BY <1>2, <2>1, <3>1
    <2>3. \A s \in Shard : Flight(s)' = Flight(s)
      BY SpliceLines
    <2> QED BY <1>1, <1>2, <2>1, <2>2, <2>3 DEF BatchInv, redis
  <1>5. AnswerInv'
    BY <1>1, <1>2 DEF AnswerInv
  <1>6. Waits(Lines, waiting)'
    BY <1>1, <1>2, SpliceLines, KeepWaits
  <1> QED BY <1>3, <1>4, <1>5, <1>6 DEF CoInv

LEMMA RecvCo ==
  ASSUME CoInv, NEW s \in Shard, Recv(s)
  PROVE  CoInv'
  <1>1. ShapeInv /\ BatchInv /\ AnswerInv /\ Waits(Lines, waiting)
    BY DEF CoInv
  <1>2. PICK x \in Cmd :
           /\ s \notin down
           /\ Flight(s) # <<>> /\ replies[s] # <<>>
           /\ res1' = Append(res1, [call |-> x, reply |-> x])
           /\ replies' = [replies EXCEPT ![s] = Tail(@)]
           /\ worker # <<>> /\ worker' # <<>> /\ worker' \in Seq(Batch) /\ Len(worker') = 1
           /\ \A t \in Shard : Flight(t)' = IF t = s THEN Tail(Flight(t)) ELSE Flight(t)
    BY <1>1, RecvFacts
  <1>3. UNCHANGED <<thread, calls, waiting, got, queue1, plock, hold, wire, down, queue2, res2>>
    BY DEF Recv
  <1>4. /\ wire \in [Shard -> Seq(Cmd)] /\ replies \in [Shard -> Seq(Cmd)]
        /\ res1 \in Seq([call : Cmd, reply : Cmd])
    BY <1>1 DEF ShapeInv
  <1> DEFINE R == [call : Cmd, reply : Cmd]
             y == [call |-> x, reply |-> x]
  <1>5. y \in R /\ y.call = y.reply /\ res1 \in Seq(R) /\ res1' = Append(res1, y)
    BY <1>2, <1>4
  <1> HIDE DEF y
  <1>6. ShapeInv'
    <2>1. replies' \in [Shard -> Seq(Cmd)]
      <3>1. Tail(replies[s]) \in Seq(Cmd)
        BY <1>2, <1>4
      <3> QED BY <1>2, <1>4, <3>1
    <2>2. Append(res1, y) \in Seq(R)
      <3> HIDE DEF R
      <3> QED BY <1>5
    <2> QED BY <1>1, <1>2, <1>3, <1>5, <2>1, <2>2 DEF ShapeInv
  <1> HIDE DEF R
  <1>7. BatchInv'
    <2>1. queue2 = <<>> /\ res2 = <<>> /\ hold # {}
      BY <1>1, <1>2, One
    <2>2. Len(queue2') + Len(worker') + Len(res2') <= 1
      <3>1. Len(<<>>) = 0
        OBVIOUS
      <3> QED BY <1>2, <1>3, <2>1, <3>1
    <2>3. ASSUME NEW t \in Shard
          PROVE  IF t \in down' THEN wire[t]' = <<>> /\ replies[t]' = <<>>
                 ELSE replies[t]' \o wire[t]' = Flight(t)'
      <3>1. CASE t = s
        <4>1. replies[s] \o wire[s] = Flight(s)
          BY <1>1, <1>2 DEF BatchInv
        <4>2. \A p, q \in Seq(Cmd) : p # <<>> => Tail(p \o q) = Tail(p) \o q
          OBVIOUS
        <4>3. replies[s]' = Tail(replies[s])
          BY <1>2, <1>4
        <4>4. Tail(replies[s] \o wire[s]) = Tail(replies[s]) \o wire[s]
          BY <1>2, <1>4, <4>2
        <4> QED BY <1>2, <1>3, <3>1, <4>1, <4>3, <4>4
      <3>2. CASE t # s
        <4>1. replies[t]' = replies[t] /\ wire[t]' = wire[t] /\ down' = down /\ Flight(t)' = Flight(t)
          BY <1>2, <1>3, <1>4, <3>2
        <4> QED BY <1>1, <4>1 DEF BatchInv
      <3> QED BY <3>1, <3>2
    <2> QED BY <1>2, <1>3, <2>1, <2>2, <2>3 DEF BatchInv
  <1>8. AnswerInv'
    <2>1. \A i \in 1..Len(Append(res1, y)) :
            Append(res1, y)[i] = y \/ (i \in 1..Len(res1) /\ Append(res1, y)[i] = res1[i])
      BY <1>5
    <2>2. \A i \in 1..Len(res1) : res1[i].reply = res1[i].call
      BY <1>1 DEF AnswerInv
    <2>3. \A i \in 1..Len(res1') : res1'[i].reply = res1'[i].call
      BY <1>5, <2>1, <2>2
    <2> QED BY <2>3 DEF AnswerInv
  <1>9. Waits(Lines, waiting)'
    BY <1>1, <1>3, RecvLines, KeepWaits
  <1> QED BY <1>6, <1>7, <1>8, <1>9 DEF CoInv

LEMMA RecvEndCo ==
  ASSUME CoInv, RecvEnd
  PROVE  CoInv'
  <1>1. ShapeInv /\ BatchInv /\ AnswerInv /\ Waits(Lines, waiting)
    BY DEF CoInv
  <1>2. /\ worker # <<>>
        /\ IF ~thread THEN hold' = hold \ {Head(worker).id} /\ res2' = res2
           ELSE /\ hold' = hold
                /\ res2' = IF Len(worker) = 1 THEN Append(res2, Head(worker).id) ELSE res2
        /\ UNCHANGED <<thread, calls, waiting, got, queue1, plock, redis, queue2, res1>>
    BY DEF RecvEnd
  <1>3. worker' = <<>> /\ queue2' = <<>> /\ \A s \in Shard : Flight(s) = <<>> /\ Flight(s)' = <<>>
    BY <1>1, RecvEndLines
  <1>4. /\ worker = <<worker[1]>> /\ Len(worker) = 1 /\ worker[1] \in Batch
        /\ res2 = <<>> /\ hold # {}
    BY <1>1, <1>2, One
  <1>5. Head(worker) = worker[1] /\ worker[1].id \in Nat
    <2>1. \A y : Head(<<y>>) = y
      OBVIOUS
    <2> QED BY <1>4, <2>1 DEF Batch
  <1>6. res2' \in Seq(Nat) /\ Len(res2') <= 1 /\ (hold' = {} => res2' = <<>>)
    <2>1. Append(<<>>, worker[1].id) \in Seq(Nat) /\ Len(Append(<<>>, worker[1].id)) = 1
          /\ <<>> \in Seq(Nat) /\ Len(<<>>) = 0
      BY <1>5
    <2>2. CASE ~thread
      BY <1>2, <1>4, <2>1, <2>2
    <2>3. CASE thread
      <3>1. res2' = Append(<<>>, worker[1].id) /\ hold' = hold
        BY <1>2, <1>4, <1>5, <2>3
      <3> QED BY <1>4, <2>1, <3>1
    <2> QED BY <2>2, <2>3
  <1>7. ShapeInv'
    <2>1. <<>> \in Seq(Batch)
      OBVIOUS
    <2> QED BY <1>1, <1>2, <1>3, <1>6, <2>1 DEF ShapeInv, redis
  <1>8. BatchInv'
    <2>1. Len(queue2') + Len(worker') + Len(res2') <= 1
      <3>1. Len(<<>>) = 0 /\ Len(res2') \in Nat
        BY <1>6
      <3> QED BY <1>3, <1>6, <3>1
    <2>2. \A s \in Shard : IF s \in down' THEN wire[s]' = <<>> /\ replies[s]' = <<>>
                           ELSE replies[s]' \o wire[s]' = Flight(s)'
      BY <1>1, <1>2, <1>3 DEF BatchInv, redis
    <2> QED BY <1>3, <1>6, <2>1, <2>2 DEF BatchInv
  <1>9. AnswerInv'
    BY <1>1, <1>2 DEF AnswerInv
  <1>10. Waits(Lines, waiting)'
    BY <1>1, <1>2, RecvEndLines, KeepWaits
  <1> QED BY <1>7, <1>8, <1>9, <1>10 DEF CoInv

LEMMA ReleaseCo ==
  ASSUME CoInv, Release
  PROVE  CoInv'
  <1>1. ShapeInv /\ BatchInv /\ AnswerInv /\ Waits(Lines, waiting)
    BY DEF CoInv
  <1>2. /\ res2 # <<>> /\ res2' = Tail(res2)
        /\ UNCHANGED <<thread, calls, waiting, got, queue1, plock, redis, queue2, worker, res1>>
    BY DEF Release
  <1>3. worker = <<>> /\ queue2 = <<>> /\ Len(res2) = 1
    BY <1>1, <1>2, One
  <1>4. res2' = <<>>
    <2>1. res2 \in Seq(Nat)
      BY <1>1 DEF ShapeInv
    <2> QED BY <1>2, <1>3, <2>1
  <1>5. ShapeInv'
    <2>1. <<>> \in Seq(Nat)
      OBVIOUS
    <2> QED BY <1>1, <1>2, <1>4, <2>1 DEF ShapeInv, redis
  <1>6. BatchInv'
    <2>1. Len(queue2') + Len(worker') + Len(res2') <= 1
      <3>1. Len(<<>>) = 0
        OBVIOUS
      <3> QED BY <1>2, <1>3, <1>4, <3>1
    <2>2. \A s \in Shard : Flight(s)' = Flight(s)
      BY <1>2 DEF Flight
    <2> QED BY <1>1, <1>2, <1>3, <1>4, <2>1, <2>2 DEF BatchInv, redis
  <1>7. AnswerInv'
    BY <1>1, <1>2 DEF AnswerInv
  <1>8. Waits(Lines, waiting)'
    BY <1>1, <1>2, SameLines, KeepWaits
  <1> QED BY <1>5, <1>6, <1>7, <1>8 DEF CoInv

LEMMA NextCo == CoInv /\ [Next]_vars => CoInv'
<1> SUFFICES ASSUME CoInv, [Next]_vars PROVE CoInv'
  OBVIOUS
<1>1. ASSUME NEW c \in Caller, NEW s \in Shard, redis_co(c, s) PROVE CoInv'
  BY <1>1, CallCo
<1>2. CASE RunTask
  BY <1>2, RunTaskCo
<1>3. CASE Exec
  BY <1>3, ExecCo
<1>4. CASE Release
  BY <1>4, ReleaseCo
<1>5. CASE Return
  BY <1>5, ReturnCo
<1>6. CASE Splice
  BY <1>6, SpliceCo
<1>7. CASE RecvEnd
  BY <1>7, RecvEndCo
<1>8. ASSUME NEW s \in Shard, Recv(s) PROVE CoInv'
  BY <1>8, RecvCo
<1>9. ASSUME NEW s \in Shard, Execute(s) PROVE CoInv'
  BY <1>9, ExecuteCo
<1>10. ASSUME NEW s \in Shard, Reset(s) PROVE CoInv'
  BY <1>10, ResetCo
<1>11. CASE UNCHANGED vars
  <2>1. ShapeInv /\ BatchInv /\ AnswerInv /\ Waits(Lines, waiting)
    BY DEF CoInv
  <2>2. UNCHANGED <<thread, calls, waiting, queue1, plock, hold, redis, queue2, worker, res1, res2>>
    BY <1>11 DEF vars
  <2>3. ShapeInv'
    BY <2>1, <2>2 DEF ShapeInv, redis
  <2>4. BatchInv' /\ AnswerInv'
    BY <2>1, <2>2, SameBatch DEF AnswerInv, redis
  <2>5. Waits(Lines, waiting)'
    BY <2>1, <2>2, SameLines, KeepWaits
  <2> QED BY <2>3, <2>4, <2>5 DEF CoInv
<1> QED BY <1>1, <1>2, <1>3, <1>4, <1>5, <1>6, <1>7, <1>8, <1>9, <1>10, <1>11 DEF Next, Core, Reader

LEMMA CoInvHolds == Spec => []CoInv
  BY InitCo, NextCo, PTL DEF Spec

-----------------------------------------------------------------------------
(* One batch at a time is in the hands of the reader, so that it may       *)
(* resume the task of the last batch of its list and no other              *)
(* (__redis_co_recv): for any number of coroutines, shards and calls.      *)
THEOREM OneBatchHolds == Spec => []OneBatch
<1>1. CoInv => OneBatch
  <2> SUFFICES ASSUME CoInv PROVE OneBatch
    OBVIOUS
  <2>1. ShapeInv /\ BatchInv
    BY DEF CoInv
  <2>2. ASSUME hold = {}
        PROVE  queue2 = <<>> /\ worker = <<>> /\ res2 = <<>> /\ wire = Nothing /\ replies = Nothing
    <3>1. queue2 = <<>> /\ worker = <<>> /\ res2 = <<>>
      BY <2>1, <2>2 DEF BatchInv
    <3>2. wire \in [Shard -> Seq(Cmd)] /\ replies \in [Shard -> Seq(Cmd)]
      BY <2>1 DEF ShapeInv
    <3>3. \A s \in Shard : wire[s] = <<>> /\ replies[s] = <<>>
      <4> TAKE s \in Shard
      <4>1. Flight(s) = <<>>
        BY <3>1 DEF Flight
      <4>2. \A p, q \in Seq(Cmd) : p \o q = <<>> => p = <<>> /\ q = <<>>
        OBVIOUS
      <4>3. s \notin down => replies[s] \o wire[s] = <<>>
        BY <2>1, <4>1 DEF BatchInv
      <4>4. s \in down => wire[s] = <<>> /\ replies[s] = <<>>
        BY <2>1 DEF BatchInv
      <4> QED BY <3>2, <4>2, <4>3, <4>4
    <3>4. wire = Nothing /\ replies = Nothing
      BY <3>2, <3>3 DEF Nothing
    <3> QED BY <3>1, <3>4
  <2> QED BY <2>1, <2>2 DEF OneBatch, BatchInv
<1> QED BY <1>1, CoInvHolds, PTL

-----------------------------------------------------------------------------
(* The client implements RedisFifo.                                        *)
Answers == [s \in Shard |-> Len(replies[s]) + Len(Part(Resumed, s))]

LEMMA LinesAre == CoInv => [s \in Shard |-> Calls(s)] = Lines
  BY CallsLine DEF CoInv, Lines

LEMMA LinesAreNext == CoInv' => ([s \in Shard |-> Calls(s)] = Lines)'
  BY LinesAre, PTL

(* The abstract state, in the terms of the proof.                          *)
LEMMA AnswersType ==
  ASSUME ShapeInv, NEW s \in Shard
  PROVE  /\ Len(replies[s]) \in Nat /\ Len(Part(Resumed, s)) \in Nat /\ Len(wire[s]) \in Nat
         /\ Answers[s] = Len(replies[s]) + Len(Part(Resumed, s)) /\ Answers[s] \in Nat
  <1>1. replies[s] \in Seq(Cmd) /\ wire[s] \in Seq(Cmd) /\ Part(Resumed, s) \in Seq(Cmd)
    BY PartsTypes DEF ShapeInv
  <1>2. \A q \in Seq(Cmd) : Len(q) \in Nat
    OBVIOUS
  <1>3. Len(replies[s]) \in Nat /\ Len(Part(Resumed, s)) \in Nat /\ Len(wire[s]) \in Nat
    BY <1>1, <1>2
  <1>4. Answers[s] = Len(replies[s]) + Len(Part(Resumed, s))
    BY DEF Answers
  <1> QED BY <1>3, <1>4

LEMMA CallFifo ==
  ASSUME CoInv, NEW c \in Caller, NEW s \in Shard, redis_co(c, s)
  PROVE  /\ \A t \in Shard : \A i \in 1..Len(Lines[t]) : Lines[t][i].c # c
         /\ \E n \in 0..MaxCall : Lines' = [Lines EXCEPT ![s] = Append(@, [c |-> c, s |-> s, n |-> n])]
         /\ UNCHANGED <<Answers, got, down>>
  <1>1. ShapeInv /\ Waits(Lines, waiting)
    BY DEF CoInv
  <1>2. c \notin waiting /\ UNCHANGED <<got, redis, res1>>
    BY DEF redis_co
  <1>3. \A t \in Shard : \A i \in 1..Len(Lines[t]) : Lines[t][i].c # c
    BY <1>1, <1>2 DEF Waits
  <1>4. calls \in 0..MaxCall
    BY <1>1 DEF ShapeInv
  <1>5. Lines' = [Lines EXCEPT ![s] = Append(@, [c |-> c, s |-> s, n |-> calls])]
    BY <1>1, CallLines
  <1>6. Answers' = Answers
    BY <1>2 DEF Answers, Resumed, redis
  <1> QED BY <1>2, <1>3, <1>4, <1>5, <1>6 DEF redis

LEMMA ExecuteFifo ==
  ASSUME CoInv, NEW s \in Shard, Execute(s)
  PROVE  /\ s \notin down /\ Answers[s] < Len(Lines[s])
         /\ Answers' = [Answers EXCEPT ![s] = @ + 1]
         /\ UNCHANGED <<Lines, got, down>>
  <1>1. ShapeInv /\ BatchInv
    BY DEF CoInv
  <1>2. /\ wire[s] # <<>> /\ replies' = [replies EXCEPT ![s] = Append(@, Head(wire[s]))]
        /\ UNCHANGED <<got, queue1, plock, down, queue2, worker, res1>>
    BY DEF Execute
  <1>3. wire \in [Shard -> Seq(Cmd)] /\ replies \in [Shard -> Seq(Cmd)]
    BY <1>1 DEF ShapeInv
  <1>4. s \notin down /\ replies[s] \o wire[s] = Flight(s)
    BY <1>1, <1>2 DEF BatchInv
  <1>5. Len(wire[s]) \in Nat /\ Len(wire[s]) # 0 /\ Len(Flight(s)) = Len(replies[s]) + Len(wire[s])
    <2>1. \A p, q \in Seq(Cmd) : Len(q) \in Nat /\ (q # <<>> => Len(q) # 0) /\ Len(p \o q) = Len(p) + Len(q)
      OBVIOUS
    <2>2. Len(replies[s] \o wire[s]) = Len(replies[s]) + Len(wire[s])
      BY <1>3, <2>1
    <2> QED BY <1>2, <1>3, <1>4, <2>1, <2>2
  <1>6. Answers[s] < Len(Lines[s])
    <2> DEFINE a == Part(Resumed, s)
               f == Flight(s)
               u == Todo(s)
               q == Part(queue1, s)
               uq == u \o q
               r == f \o uq
    <2>1. a \in Seq(Cmd) /\ f \in Seq(Cmd) /\ u \in Seq(Cmd) /\ q \in Seq(Cmd)
      BY <1>1, PartsTypes
    <2>2. Lines[s] = a \o r
      BY DEF Lines, Line
    <2>3. Len(f) = Len(replies[s]) + Len(wire[s])
      BY <1>5
    <2>4. Answers[s] = Len(replies[s]) + Len(a) /\ Len(replies[s]) \in Nat
      BY <1>1, AnswersType
    <2> HIDE DEF a, f, u, q
    <2>5. uq \in Seq(Cmd)
      BY <2>1, Assoc
    <2> HIDE DEF uq
    <2>l. \A y, z \in Seq(Cmd) : Len(y) \in Nat /\ Len(y \o z) = Len(y) + Len(z)
      OBVIOUS
    <2>6. r \in Seq(Cmd) /\ Len(r) = Len(f) + Len(uq)
      BY <2>1, <2>5, <2>l, Assoc
    <2> HIDE DEF r
    <2>7. Len(a \o r) = Len(a) + Len(r)
      BY <2>1, <2>6, <2>l
    <2>8. Len(a) \in Nat /\ Len(uq) \in Nat
      BY <2>1, <2>5, <2>l
    <2>9. \A v, w, x, y \in Nat : v # 0 => w + x < x + ((w + v) + y)
      OBVIOUS
    <2>10. Len(replies[s]) + Len(a) < Len(a) + ((Len(replies[s]) + Len(wire[s])) + Len(uq))
      BY <1>5, <2>4, <2>8, <2>9
    <2>11. Len(Lines[s]) = Len(a) + ((Len(replies[s]) + Len(wire[s])) + Len(uq))
      BY <2>2, <2>3, <2>6, <2>7
    <2> QED BY <2>4, <2>10, <2>11
  <1>7. Lines' = Lines
    BY <1>2, SameLines
  <1>8. Answers' = [Answers EXCEPT ![s] = @ + 1]
    <2>1. Resumed' = Resumed
      BY <1>2 DEF Resumed
    <2>2. \A p \in Seq(Cmd), x \in Cmd : Len(Append(p, x)) = Len(p) + 1
      OBVIOUS
    <2>3. Head(wire[s]) \in Cmd
      BY <1>2, <1>3
    <2>4. Len(replies[s]') = Len(replies[s]) + 1 /\ \A t \in Shard : t # s => replies[t]' = replies[t]
      BY <1>2, <1>3, <2>2, <2>3
    <2>5. \A t \in Shard : Answers'[t] = Len(replies[t]') + Len(Part(Resumed', t))
      BY DEF Answers
    <2>6. \A t \in Shard : Answers'[t] = IF t = s THEN Answers[t] + 1 ELSE Answers[t]
      <3>1. \A x, y \in Nat : (x + 1) + y = (x + y) + 1
        OBVIOUS
      <3>2. \A t \in Shard : /\ Len(replies[t]) \in Nat /\ Len(Part(Resumed, t)) \in Nat
                          /\ Answers[t] = Len(replies[t]) + Len(Part(Resumed, t))
        BY <1>1, AnswersType
      <3> TAKE t \in Shard
      <3>3. CASE t = s
        <4>1. Answers'[s] = (Len(replies[s]) + 1) + Len(Part(Resumed, s))
          BY <2>1, <2>4, <2>5
        <4>2. Answers'[s] = (Len(replies[s]) + Len(Part(Resumed, s))) + 1
          <5>1. Len(replies[s]) \in Nat /\ Len(Part(Resumed, s)) \in Nat
            BY <3>2
          <5> QED BY <3>1, <4>1, <5>1
        <4> QED BY <3>2, <3>3, <4>2
      <3>4. CASE t # s
        BY <2>1, <2>4, <2>5, <3>2, <3>4
      <3> QED BY <3>3, <3>4
    <2> QED BY <2>6 DEF Answers
  <1> QED BY <1>2, <1>4, <1>6, <1>7, <1>8

LEMMA ResetFifo ==
  ASSUME CoInv, NEW s \in Shard, Reset(s)
  PROVE  /\ s \notin down /\ down' = down \cup {s}
         /\ \E n \in 0..Answers[s] : Answers' = [Answers EXCEPT ![s] = n]
         /\ UNCHANGED <<Lines, got>>
  <1>1. ShapeInv
    BY DEF CoInv
  <1>2. /\ s \notin down /\ down' = down \cup {s} /\ replies' = [replies EXCEPT ![s] = <<>>]
        /\ UNCHANGED <<got, queue1, plock, queue2, worker, res1>>
    BY DEF Reset
  <1>3. Lines' = Lines
    BY <1>2, SameLines
  <1>4. Resumed' = Resumed /\ replies \in [Shard -> Seq(Cmd)]
    BY <1>1, <1>2 DEF Resumed, ShapeInv
  <1> DEFINE n == Len(Part(Resumed, s))
  <1>5. n \in 0..Answers[s] /\ n \in Nat
    BY <1>1, AnswersType
  <1>6. Answers' = [Answers EXCEPT ![s] = n]
    <2>1. \A t \in Shard : replies[t]' = IF t = s THEN <<>> ELSE replies[t]
      BY <1>2, <1>4
    <2>2. Len(<<>>) = 0
      OBVIOUS
    <2>3. \A t \in Shard : Answers'[t] = Len(replies[t]') + Len(Part(Resumed', t))
      BY DEF Answers
    <2>4. \A t \in Shard : Answers'[t] = IF t = s THEN n ELSE Answers[t]
      <3>1. \A x \in Nat : 0 + x = x
        OBVIOUS
      <3>2. \A t \in Shard : /\ Len(replies[t]) \in Nat /\ Len(Part(Resumed, t)) \in Nat
                          /\ Answers[t] = Len(replies[t]) + Len(Part(Resumed, t))
        BY <1>1, AnswersType
      <3> TAKE t \in Shard
      <3>3. CASE t = s
        BY <1>4, <2>1, <2>2, <2>3, <3>1, <3>2, <3>3
      <3>4. CASE t # s
        BY <1>4, <2>1, <2>3, <3>2, <3>4
      <3> QED BY <3>3, <3>4
    <2> HIDE DEF n
    <2> QED BY <2>4 DEF Answers
  <1> QED BY <1>2, <1>3, <1>5, <1>6

LEMMA ReturnFifo ==
  ASSUME CoInv, Return
  PROVE  \E s \in Shard :
           /\ Answers[s] > 0
           /\ got' = [got EXCEPT ![Head(Lines[s]).c] = <<Head(Lines[s])>>]
           /\ Lines' = [Lines EXCEPT ![s] = Tail(@)]
           /\ Answers' = [Answers EXCEPT ![s] = @ - 1]
           /\ UNCHANGED down
  <1>1. ShapeInv /\ AnswerInv
    BY DEF CoInv
  <1>2. UNCHANGED <<down, replies>>
    BY DEF Return, redis
  <1>3. PICK x \in Cmd :
           /\ got' = [got EXCEPT ![x.c] = <<x>>]
           /\ Line(x.s) # <<>> /\ Head(Line(x.s)) = x
           /\ Lines' = [Lines EXCEPT ![x.s] = Tail(@)]
           /\ Part(Resumed, x.s) = <<x>> \o Part(Resumed', x.s)
           /\ \A t \in Shard : t # x.s => Part(Resumed', t) = Part(Resumed, t)
    BY <1>1, ReturnLines
  <1>4. x.s \in Shard /\ Lines[x.s] = Line(x.s)
    BY DEF Cmd, Lines
  <1>5. Len(Part(Resumed, x.s)) = Len(Part(Resumed', x.s)) + 1 /\ Len(Part(Resumed', x.s)) \in Nat
    <2>1. Part(Resumed', x.s) \in Seq(Cmd)
      <3>1. Resumed' = CallsOf(res1')
        BY DEF Resumed, CallsOf
      <3>2. res1 # <<>> /\ res1' = Tail(res1)
        BY DEF Return
      <3> DEFINE R == [call : Cmd, reply : Cmd]
      <3>3. res1 \in Seq(R) /\ \A y \in R : y.call \in Cmd
        BY <1>1 DEF ShapeInv
      <3> HIDE DEF R
      <3>4. res1' \in Seq(R)
        BY <3>2, <3>3
      <3>5. Resumed' \in Seq(Cmd)
        BY <3>1, <3>3, <3>4, CallsOfType
      <3> QED BY <3>5, PartType
    <2>2. \A p \in Seq(Cmd) : Len(<<x>> \o p) = Len(p) + 1 /\ Len(p) \in Nat
      OBVIOUS
    <2> QED BY <1>3, <2>1, <2>2
  <1>6. \A t \in Shard : Answers'[t] = IF t = x.s THEN Answers[t] - 1 ELSE Answers[t]
    <2>1. \A t \in Shard : Answers'[t] = Len(replies[t]) + Len(Part(Resumed', t))
      BY <1>2 DEF Answers
    <2>2. \A t \in Shard : /\ Len(replies[t]) \in Nat /\ Len(Part(Resumed, t)) \in Nat
                          /\ Answers[t] = Len(replies[t]) + Len(Part(Resumed, t))
      BY <1>1, AnswersType
    <2>3. \A k, m \in Nat : (k + (m + 1)) - 1 = k + m
      OBVIOUS
    <2> TAKE t \in Shard
    <2>4. CASE t = x.s
      BY <1>5, <2>1, <2>2, <2>3, <2>4
    <2>5. CASE t # x.s
      BY <1>3, <2>1, <2>2, <2>5
    <2> QED BY <2>4, <2>5
  <1>7. Answers' = [Answers EXCEPT ![x.s] = @ - 1]
    BY <1>6 DEF Answers
  <1>8. Answers[x.s] > 0
    BY <1>1, <1>4, <1>5, AnswersType
  <1> QED BY <1>2, <1>3, <1>4, <1>7, <1>8

(* The other steps are invisible.                                          *)
LEMMA StutterFifo ==
  ASSUME CoInv, RunTask \/ Exec \/ Release \/ Splice \/ RecvEnd \/ \E s \in Shard : Recv(s)
  PROVE  UNCHANGED <<Lines, Answers, got, down>>
  <1>1. ShapeInv /\ BatchInv
    BY DEF CoInv
  <1>2. ASSUME UNCHANGED <<replies, res1>> PROVE Answers' = Answers
    BY <1>2 DEF Answers, Resumed
  <1>3. CASE RunTask
    BY <1>1, <1>2, <1>3, RunTaskLines DEF RunTask, redis
  <1>4. CASE Exec
    <2>1. UNCHANGED <<got, replies, down, res1>>
      BY <1>4 DEF Exec, Sent
    <2> QED BY <1>1, <1>2, <1>4, <2>1, ExecLines
  <1>5. CASE Release
    <2>1. UNCHANGED <<got, queue1, plock, redis, queue2, worker, res1>>
      BY <1>5 DEF Release
    <2> QED BY <1>2, <2>1, SameLines DEF redis
  <1>6. CASE Splice
    BY <1>1, <1>2, <1>6, SpliceLines DEF Splice, redis
  <1>7. CASE RecvEnd
    BY <1>1, <1>2, <1>7, RecvEndLines DEF RecvEnd, redis
  <1>8. ASSUME NEW s \in Shard, Recv(s) PROVE UNCHANGED <<Lines, Answers, got, down>>
    <2>1. UNCHANGED <<got, down>>
      BY <1>8 DEF Recv
    <2>2. /\ Lines' = Lines
          /\ Len(replies[s]') + Len(Part(Resumed', s)) = Len(replies[s]) + Len(Part(Resumed, s))
          /\ \A t \in Shard : t # s => replies[t]' = replies[t] /\ Part(Resumed', t) = Part(Resumed, t)
      BY <1>1, <1>8, RecvLines
    <2>3. \A t \in Shard : Len(replies[t]') + Len(Part(Resumed', t)) = Len(replies[t]) + Len(Part(Resumed, t))
      BY <2>2
    <2>4. Answers' = Answers
      BY <2>3 DEF Answers
    <2> QED BY <2>1, <2>2, <2>4
  <1> QED BY <1>3, <1>4, <1>5, <1>6, <1>7, <1>8

LEMMA InitFifo == Init => Fifo!Init
<1> SUFFICES ASSUME Init PROVE Fifo!Init
  OBVIOUS
<1>1. CoInv
  BY InitCo
<1>2. [s \in Shard |-> Calls(s)] = Lines
  BY <1>1, LinesAre
<1>3. \A s \in Shard : Line(s) = <<>> /\ Part(Resumed, s) = <<>> /\ replies[s] = <<>>
  <2> TAKE s \in Shard
  <2>1. Resumed = <<>> /\ Part(<<>>, s) = <<>> /\ Part(queue1, s) = <<>> /\ Flight(s) = <<>>
    BY PartEmpty DEF Init, Resumed, Flight
  <2>2. [i \in DOMAIN plock |-> Part(plock[i], s)] = <<>>
    BY DEF Init
  <2>3. Todo(s) = <<>>
    BY <2>2, FlatEmpty DEF Todo
  <2>4. <<>> \o (<<>> \o (<<>> \o <<>>)) = <<>>
    OBVIOUS
  <2>5. replies[s] = <<>>
    BY DEF Init, Nothing
  <2> QED BY <2>1, <2>3, <2>4, <2>5 DEF Line
<1>4. Lines = [s \in Shard |-> <<>>]
  BY <1>3 DEF Lines
<1>5. \A s \in Shard : Len(replies[s]) + Len(Part(Resumed, s)) = 0
  BY <1>3
<1>6. [s \in Shard |-> Len(replies[s]) + Len(Part(Resumed, s))] = [s \in Shard |-> 0]
  BY <1>5
<1>7. got = [c \in Caller |-> <<>>] /\ down = {}
  BY DEF Init
<1> QED BY <1>2, <1>4, <1>6, <1>7 DEF Fifo!Init

LEMMA NextFifo == CoInv /\ CoInv' /\ [Next]_vars => [Fifo!Next]_Fifo!vars
<1> SUFFICES ASSUME CoInv, CoInv', [Next]_vars PROVE [Fifo!Next]_Fifo!vars
  OBVIOUS
<1>1. [s \in Shard |-> Calls(s)] = Lines /\ [s \in Shard |-> Calls(s)]' = Lines'
  <2>1. [s \in Shard |-> Calls(s)] = Lines
    BY LinesAre
  <2>2. ([s \in Shard |-> Calls(s)] = Lines)'
    BY LinesAreNext
  <2> QED BY <2>1, <2>2
<1>2. [s \in Shard |-> Len(replies[s]) + Len(Part(Resumed, s))] = Answers
      /\ [s \in Shard |-> Len(replies[s]) + Len(Part(Resumed, s))]' = Answers'
  BY DEF Answers
<1>3. ASSUME NEW c \in Caller, NEW s \in Shard, redis_co(c, s) PROVE Fifo!Next
  <2>0. /\ \A t \in Shard : \A i \in 1..Len(Lines[t]) : Lines[t][i].c # c
        /\ \E n \in 0..MaxCall : Lines' = [Lines EXCEPT ![s] = Append(@, [c |-> c, s |-> s, n |-> n])]
        /\ UNCHANGED <<Answers, got, down>>
    BY <1>3, CallFifo
  <2>1. Fifo!Call(c, s)
    BY <1>1, <1>2, <2>0, Zenon DEF Fifo!Call
  <2> QED BY <2>1 DEF Fifo!Next
<1>4. ASSUME NEW s \in Shard, Execute(s) PROVE Fifo!Next
  <2>1. Fifo!Execute(s)
    BY <1>1, <1>2, <1>4, ExecuteFifo DEF Fifo!Execute
  <2> QED BY <2>1 DEF Fifo!Next
<1>5. ASSUME NEW s \in Shard, Reset(s) PROVE Fifo!Next
  <2>1. Fifo!Break(s)
    BY <1>1, <1>2, <1>5, ResetFifo DEF Fifo!Break
  <2> QED BY <2>1 DEF Fifo!Next
<1>6. ASSUME Return PROVE Fifo!Next
  <2>1. PICK s \in Shard :
           /\ Answers[s] > 0
           /\ got' = [got EXCEPT ![Head(Lines[s]).c] = <<Head(Lines[s])>>]
           /\ Lines' = [Lines EXCEPT ![s] = Tail(@)]
           /\ Answers' = [Answers EXCEPT ![s] = @ - 1]
           /\ UNCHANGED down
    BY <1>6, ReturnFifo
  <2>2. Fifo!Answer(s)
    BY <1>1, <1>2, <2>1 DEF Fifo!Answer
  <2> QED BY <2>2 DEF Fifo!Next
<1>7. ASSUME UNCHANGED <<Lines, Answers, got, down>> PROVE UNCHANGED Fifo!vars
  BY <1>1, <1>2, <1>7 DEF Fifo!vars
<1>8. CASE RunTask \/ Exec \/ Release \/ Splice \/ RecvEnd \/ \E s \in Shard : Recv(s)
  BY <1>7, <1>8, StutterFifo
<1>9. CASE UNCHANGED vars
  <2>1. UNCHANGED <<queue1, plock, queue2, worker, res1, replies, got, down>>
    BY <1>9 DEF vars, redis
  <2>2. Answers' = Answers
    BY <2>1 DEF Answers, Resumed
  <2> QED BY <1>7, <2>1, <2>2, SameLines
<1> QED BY <1>3, <1>4, <1>5, <1>6, <1>8, <1>9 DEF Next, Core, Reader

(* The batches, the sorting by shard, the plock and the second thread      *)
(* together keep the order of the calls of each shard and give every       *)
(* caller the answer to its own command, for any number of coroutines,     *)
(* shards and calls and whichever connections break: the client implements *)
(* RedisFifo.                                                              *)
THEOREM FifoImplemented == Spec => ImplementsFifo
<1>1. Init => Fifo!Init
  BY InitFifo
<1>2. CoInv /\ CoInv' /\ [Next]_vars => [Fifo!Next]_Fifo!vars
  BY NextFifo
<1> QED BY <1>1, <1>2, CoInvHolds, PTL DEF Spec, ImplementsFifo, Fifo!Spec

=============================================================================
