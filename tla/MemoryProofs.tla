---------------------------- MODULE MemoryProofs ----------------------------
(***************************************************************************)
(* The allocators keep their promises for memory of any size.              *)
(***************************************************************************)
EXTENDS Memory, CommonLemmas

(* Chunks as freelist.c keeps them in a region of n bytes. *)
ChunkType == [at : Nat, size : Nat]

FitsIn(c, n) ==
  /\ c.at % 8 = 0
  /\ c.size >= NodeSize
  /\ End(c) <= n
  /\ End(c) % 8 = 0 \/ End(c) = n

(* In address order; only the chunks of loose touch the next one. *)
InOrder(list, loose) ==
  \A j, k \in 1 .. Len(list) : j < k =>
    /\ End(list[j]) <= list[k].at
    /\ End(list[j]) = list[k].at => k = j + 1 /\ j \in loose

IsFreeList(list, n, loose) ==
  /\ list \in Seq(ChunkType)
  /\ \A k \in 1 .. Len(list) : FitsIn(list[k], n)
  /\ InOrder(list, loose)

Covers(list, a) == \E k \in 1 .. Len(list) : list[k].at <= a /\ a < End(list[k])

NoneFree(list, from, to) == \A a \in Int : from <= a /\ a < to => ~ Covers(list, a)

(* What lies from from up to to belongs behind the first p chunks. *)
Between(list, p, from, to) ==
  /\ p \in 0 .. Len(list)
  /\ \A k \in 1 .. Len(list) : /\ k <= p => End(list[k]) <= from
                               /\ k > p => list[k].at >= to

(* The same memory is free, and no node is where none was. *)
SameMemory(new, list) ==
  /\ list # << >> => new # << >>
  /\ \A a \in Int : Covers(new, a) <=> Covers(list, a)
  /\ \A i \in 1 .. Len(new) : \E j \in 1 .. Len(list) : new[i].at = list[j].at

(* The chunk c is free as well. *)
AlsoFree(new, list, c) ==
  /\ new # << >>
  /\ \A a \in Int : Covers(new, a) <=> Covers(list, a) \/ (c.at <= a /\ a < End(c))
  /\ \A i \in 1 .. Len(new) :
       new[i].at = c.at \/ \E j \in 1 .. Len(list) : new[i].at = list[j].at

HasRoom(list, k, total) == k \in 1 .. Len(list) /\ list[k].size >= total

(* What was taken of the chunk c is not free any more. *)
LessFree(new, list, c, total) ==
  /\ \A a \in Int : Covers(new, a) <=>
                      Covers(list, a) /\ ~ (c.at <= a /\ a < c.at + Taken(c, total))
  /\ \A i \in 1 .. Len(new) :
       \/ \E j \in 1 .. Len(list) : new[i].at = list[j].at
       \/ IsSplit(c, total) /\ new[i].at = c.at + total

-----------------------------------------------------------------------------
(* What the community modules' operators do to a sequence. *)

LEMMA RemoveAtIs ==
  ASSUME NEW S, NEW s \in Seq(S), NEW k \in 1 .. Len(s)
  PROVE  /\ RemoveAt(s, k) \in Seq(S)
         /\ Len(RemoveAt(s, k)) = Len(s) - 1
         /\ \A i \in 1 .. Len(s) - 1 :
              /\ i < k => RemoveAt(s, k)[i] = s[i]
              /\ i >= k => RemoveAt(s, k)[i] = s[i + 1]
  <1> DEFINE n == Len(s)
             l == SubSeq(s, 1, k - 1)
             r == SubSeq(s, k + 1, n)
  <1>1. n \in Nat /\ k \in 1 .. n /\ \A i \in 1 .. n : s[i] \in S
    BY LenProperties, ElementOfSeq
  <1>2. /\ 1 \in Int /\ k - 1 \in Int /\ \A i \in 1 .. k - 1 : s[i] \in S
        /\ k + 1 \in Int /\ n \in Int /\ \A i \in k + 1 .. n : s[i] \in S
    BY <1>1
  <1> HIDE DEF n
  <1>3. /\ l \in Seq(S) /\ Len(l) = IF 1 <= k - 1 THEN k - 1 - 1 + 1 ELSE 0
        /\ \A i \in 1 .. k - 1 - 1 + 1 : l[i] = s[1 + i - 1]
    BY <1>2, SubSeqProperties
  <1>4. /\ r \in Seq(S) /\ Len(r) = IF k + 1 <= n THEN n - (k + 1) + 1 ELSE 0
        /\ \A i \in 1 .. n - (k + 1) + 1 : r[i] = s[k + 1 + i - 1]
    BY <1>2, SubSeqProperties
  <1>5. Len(l) = k - 1 /\ Len(r) = n - k
    BY <1>1, <1>3, <1>4
  <1> HIDE DEF l, r
  <1>6. /\ l \o r \in Seq(S) /\ Len(l \o r) = Len(l) + Len(r)
        /\ \A i \in 1 .. Len(l) + Len(r) :
             (l \o r)[i] = IF i <= Len(l) THEN l[i] ELSE r[i - Len(l)]
    BY <1>3, <1>4, ConcatProperties
  <1>7. RemoveAt(s, k) = l \o r
    BY DEF RemoveAt, l, r, n
  <1>8. ASSUME NEW i \in 1 .. n - 1
        PROVE  (i < k => (l \o r)[i] = s[i]) /\ (i >= k => (l \o r)[i] = s[i + 1])
    <2>1. CASE i < k
      <3>1. i \in 1 .. k - 1 - 1 + 1 /\ 1 + i - 1 = i /\ i <= Len(l) /\ i \in 1 .. Len(l) + Len(r)
        BY <1>1, <1>5, <2>1
      <3>2. QED
        BY <2>1, <3>1, <1>3, <1>6
    <2>2. CASE i >= k
      <3> DEFINE j == i - (k - 1)
      <3>1. /\ j \in 1 .. n - (k + 1) + 1 /\ k + 1 + j - 1 = i + 1
            /\ ~ (i < k) /\ ~ (i <= Len(l)) /\ i - Len(l) = j /\ i \in 1 .. Len(l) + Len(r)
        BY <1>1, <1>5, <2>2
      <3> HIDE DEF j
      <3>2. QED
        BY <3>1, <1>4, <1>6
    <2>3. QED
      BY <1>1, <2>1, <2>2
  <1>9. Len(l \o r) = n - 1
    BY <1>1, <1>5, <1>6
  <1>10. QED
    BY <1>6, <1>7, <1>8, <1>9 DEF n

LEMMA InsertAtIs ==
  ASSUME NEW S, NEW s \in Seq(S), NEW e \in S, NEW k \in 1 .. Len(s) + 1
  PROVE  /\ InsertAt(s, k, e) \in Seq(S)
         /\ Len(InsertAt(s, k, e)) = Len(s) + 1
         /\ \A i \in 1 .. Len(s) + 1 :
              /\ i < k => InsertAt(s, k, e)[i] = s[i]
              /\ i = k => InsertAt(s, k, e)[i] = e
              /\ i > k => InsertAt(s, k, e)[i] = s[i - 1]
  <1> DEFINE n == Len(s)
             l == SubSeq(s, 1, k - 1)
             r == SubSeq(s, k, n)
             m == <<e>>
  <1>1. n \in Nat /\ k \in 1 .. n + 1 /\ \A i \in 1 .. n : s[i] \in S
    BY LenProperties, ElementOfSeq
  <1>2. /\ 1 \in Int /\ k - 1 \in Int /\ \A i \in 1 .. k - 1 : s[i] \in S
        /\ k \in Int /\ n \in Int /\ \A i \in k .. n : s[i] \in S
    BY <1>1
  <1> HIDE DEF n
  <1>3. /\ l \in Seq(S) /\ Len(l) = IF 1 <= k - 1 THEN k - 1 - 1 + 1 ELSE 0
        /\ \A i \in 1 .. k - 1 - 1 + 1 : l[i] = s[1 + i - 1]
    BY <1>2, SubSeqProperties
  <1>4. /\ r \in Seq(S) /\ Len(r) = IF k <= n THEN n - k + 1 ELSE 0
        /\ \A i \in 1 .. n - k + 1 : r[i] = s[k + i - 1]
    BY <1>2, SubSeqProperties
  <1>5. Len(l) = k - 1 /\ Len(r) = n - k + 1
    BY <1>1, <1>3, <1>4
  <1>6. m \in Seq(S) /\ Len(m) = 1 /\ m[1] = e
    OBVIOUS
  <1> HIDE DEF l, r, m
  <1>7. /\ l \o m \in Seq(S) /\ Len(l \o m) = Len(l) + Len(m)
        /\ \A i \in 1 .. Len(l) + Len(m) :
             (l \o m)[i] = IF i <= Len(l) THEN l[i] ELSE m[i - Len(l)]
    BY <1>3, <1>6, ConcatProperties
  <1> DEFINE q == l \o m
  <1> HIDE DEF q
  <1>8. /\ q \o r \in Seq(S) /\ Len(q \o r) = Len(q) + Len(r)
        /\ \A i \in 1 .. Len(q) + Len(r) :
             (q \o r)[i] = IF i <= Len(q) THEN q[i] ELSE r[i - Len(q)]
    <2>1. q \in Seq(S)
      BY <1>7 DEF q
    <2>2. QED
      BY <1>4, <2>1, ConcatProperties
  <1>9. InsertAt(s, k, e) = q \o r /\ Len(q) = k
    BY <1>1, <1>5, <1>6, <1>7 DEF InsertAt, q, l, m, r, n
  <1>10. ASSUME NEW i \in 1 .. n + 1
         PROVE  /\ i < k => (q \o r)[i] = s[i]
                /\ i = k => (q \o r)[i] = e
                /\ i > k => (q \o r)[i] = s[i - 1]
    <2>1. i \in 1 .. Len(q) + Len(r)
      BY <1>1, <1>5, <1>9
    <2>2. CASE i < k
      <3>1. /\ i \in 1 .. k - 1 - 1 + 1 /\ 1 + i - 1 = i /\ i <= Len(l)
            /\ i \in 1 .. Len(l) + Len(m)
            /\ i <= Len(q)
        BY <1>1, <1>5, <1>6, <1>9, <2>2
      <3>2. QED
        BY <2>1, <2>2, <3>1, <1>3, <1>7, <1>8 DEF q
    <2>3. CASE i = k
      <3>1. /\ i \in 1 .. Len(l) + Len(m) /\ ~ (i <= Len(l)) /\ i - Len(l) = 1
            /\ i <= Len(q) /\ ~ (i < k)
        BY <1>1, <1>5, <1>6, <1>9, <2>3
      <3>2. QED
        BY <2>1, <2>3, <3>1, <1>6, <1>7, <1>8 DEF q
    <2>4. CASE i > k
      <3> DEFINE j == i - k
      <3>1. /\ j \in 1 .. n - k + 1 /\ k + j - 1 = i - 1 /\ ~ (i <= Len(q)) /\ i - Len(q) = j
            /\ ~ (i < k) /\ i # k
        BY <1>1, <1>9, <2>4
      <3> HIDE DEF j
      <3>2. QED
        BY <2>1, <3>1, <1>4, <1>8
    <2>5. QED
      BY <1>1, <2>2, <2>3, <2>4
  <1>11. Len(q \o r) = n + 1
    BY <1>1, <1>5, <1>8, <1>9
  <1>12. \A i \in 1 .. n + 1 : /\ i < k => (q \o r)[i] = s[i]
                               /\ i = k => (q \o r)[i] = e
                               /\ i > k => (q \o r)[i] = s[i - 1]
    BY <1>10
  <1> DEFINE t == q \o r
  <1>13. t \in Seq(S) /\ Len(t) = n + 1 /\ InsertAt(s, k, e) = t
    BY <1>8, <1>9, <1>11
  <1> HIDE DEF t
  <1>14. QED
    BY <1>12, <1>13 DEF n, t

-----------------------------------------------------------------------------
(* Merging. *)

(* The list with chunks k and k + 1 in one. *)
LEMMA MergedIs ==
  ASSUME NEW list \in Seq(ChunkType), NEW k \in 1 .. Len(list) - 1,
         NEW c \in ChunkType
  PROVE  LET new == RemoveAt(ReplaceAt(list, k, c), k + 1) IN
           /\ new \in Seq(ChunkType)
           /\ Len(new) = Len(list) - 1
           /\ new[k] = c
           /\ \A i \in 1 .. Len(new) : /\ i < k => new[i] = list[i]
                                       /\ i > k => new[i] = list[i + 1]
  <1> DEFINE r == ReplaceAt(list, k, c)
             n == Len(list)
  <1>1. n \in Nat /\ k \in 1 .. n /\ k + 1 \in 1 .. n
    BY LenProperties
  <1>2. /\ r \in Seq(ChunkType) /\ Len(r) = n
        /\ \A j \in 1 .. n : r[j] = IF j = k THEN c ELSE list[j]
    <2>1. k \in 1 .. Len(list)
      BY <1>1
    <2>2. QED
      BY <2>1, ExceptSeq DEF ReplaceAt
  <1> HIDE DEF r, n
  <1> DEFINE new == RemoveAt(r, k + 1)
  <1>3. /\ new \in Seq(ChunkType) /\ Len(new) = n - 1
        /\ \A i \in 1 .. n - 1 : /\ i < k + 1 => new[i] = r[i]
                                 /\ i >= k + 1 => new[i] = r[i + 1]
    <2>1. k + 1 \in 1 .. Len(r)
      BY <1>1, <1>2
    <2>2. QED
      BY <1>2, <2>1, RemoveAtIs
  <1> HIDE DEF new
  <1>4. new[k] = c
    <2>1. k \in 1 .. n - 1 /\ k < k + 1 /\ r[k] = c
      BY <1>1, <1>2 DEF n
    <2>2. QED
      BY <1>3, <2>1
  <1>5. ASSUME NEW i \in 1 .. Len(new)
        PROVE  (i < k => new[i] = list[i]) /\ (i > k => new[i] = list[i + 1])
    <2>1. i \in 1 .. n - 1 /\ i \in 1 .. n /\ i + 1 \in 1 .. n
      BY <1>1, <1>3
    <2>2. /\ i < k => i < k + 1 /\ i # k
          /\ i > k => i >= k + 1 /\ i + 1 # k
      BY <1>1, <2>1
    <2>3. QED
      BY <1>2, <1>3, <2>1, <2>2
  <1>6. QED
    BY <1>3, <1>4, <1>5 DEF new, r, n

LEMMA CoalesceRightKeeps ==
  ASSUME NEW n \in Nat, NEW list, NEW loose \in SUBSET Int, NEW k \in Nat,
         IsFreeList(list, n, loose), \A j \in loose : j <= k
  PROVE  /\ IsFreeList(CoalesceRight(list, k), n, loose \ {k})
         /\ SameMemory(CoalesceRight(list, k), list)
  <1> DEFINE m == Len(list)
             joins == k \in 1 .. m - 1 /\ End(list[k]) = list[k + 1].at
             c == Chunk(list[k].at, list[k].size + list[k + 1].size)
             new == RemoveAt(ReplaceAt(list, k, c), k + 1)
  <1>1. /\ m \in Nat /\ list \in Seq(ChunkType)
        /\ \A i \in 1 .. m : list[i].at \in Nat /\ list[i].size \in Nat
                           /\ End(list[i]) = list[i].at + list[i].size /\ FitsIn(list[i], n)
    <2>1. list \in Seq(ChunkType) /\ \A i \in 1 .. Len(list) : FitsIn(list[i], n)
      BY DEF IsFreeList
    <2>2. \A i \in 1 .. Len(list) : list[i] \in ChunkType
      BY <2>1, ElementOfSeq
    <2>3. QED
      BY <2>1, <2>2, LenProperties DEF ChunkType, End
  <1>2. CASE ~ joins
    <2>1. CoalesceRight(list, k) = list
      BY <1>2 DEF CoalesceRight
    <2>2. InOrder(list, loose \ {k})
      BY <1>1, <1>2, SMT DEF IsFreeList, InOrder
    <2>3. QED
      BY <2>1, <2>2 DEF IsFreeList, SameMemory
  <1>3. CASE joins
    <2>1. CoalesceRight(list, k) = new
      BY <1>3 DEF CoalesceRight
    <2>2. c \in ChunkType /\ End(c) = End(list[k + 1]) /\ FitsIn(c, n) /\ c.at = list[k].at
      <3>1. k \in 1 .. m /\ k + 1 \in 1 .. m
        BY <1>1, <1>3
      <3>2. /\ c = [at |-> list[k].at, size |-> list[k].size + list[k + 1].size]
            /\ c.at = list[k].at /\ c.size = list[k].size + list[k + 1].size
        BY DEF Chunk
      <3> HIDE DEF c
      <3>3. End(c) = End(list[k + 1])
        BY <1>1, <1>3, <3>1, <3>2 DEF End
      <3>4. c \in ChunkType
        <4>1. /\ list[k].at \in Nat /\ list[k].size \in Nat /\ list[k + 1].size \in Nat
              /\ list[k].size + list[k + 1].size \in Nat
          BY <1>1, <3>1
        <4>2. QED
          BY <3>2, <4>1 DEF ChunkType
      <3>5. FitsIn(list[k], n) /\ FitsIn(list[k + 1], n)
        BY <1>1, <3>1
      <3>6. c.size >= NodeSize
        BY <1>1, <3>1, <3>2, <3>5 DEF FitsIn, NodeSize
      <3>7. QED
        BY <3>2, <3>3, <3>4, <3>5, <3>6 DEF FitsIn
    <2> HIDE DEF c
    <2>3. /\ new \in Seq(ChunkType) /\ Len(new) = m - 1 /\ new[k] = c
          /\ \A i \in 1 .. Len(new) : /\ i < k => new[i] = list[i]
                                      /\ i > k => new[i] = list[i + 1]
      BY <1>1, <1>3, <2>2, MergedIs
    <2> HIDE DEF new
    <2>4. ASSUME NEW i \in 1 .. m - 1 PROVE FitsIn(new[i], n)
      <3>1. i \in 1 .. Len(new) /\ i \in 1 .. m /\ i + 1 \in 1 .. m /\ (i < k \/ i = k \/ i > k)
        BY <1>1, <1>3, <2>3
      <3>2. FitsIn(list[i], n) /\ FitsIn(list[i + 1], n)
        BY <1>1, <3>1
      <3>3. QED
        BY <2>2, <2>3, <3>1, <3>2
    <2> DEFINE lo(i) == IF i <= k THEN i ELSE i + 1
               hi(i) == IF i < k THEN i ELSE i + 1
    <2>5. \A i \in 1 .. m - 1 : /\ lo(i) \in 1 .. m /\ hi(i) \in 1 .. m
                                /\ new[i].at = list[lo(i)].at /\ End(new[i]) = End(list[hi(i)])
      <3> SUFFICES ASSUME NEW i \in 1 .. m - 1
                   PROVE  /\ lo(i) \in 1 .. m /\ hi(i) \in 1 .. m
                          /\ new[i].at = list[lo(i)].at /\ End(new[i]) = End(list[hi(i)])
        OBVIOUS
      <3>1. /\ i \in 1 .. Len(new) /\ i \in 1 .. m /\ i + 1 \in 1 .. m
            /\ (i < k /\ i # k /\ i <= k) \/ (i = k /\ ~ (i < k) /\ i <= k)
                 \/ (i > k /\ ~ (i < k) /\ ~ (i <= k))
        BY <1>1, <1>3, <2>3
      <3>2. QED
        BY <2>2, <2>3, <3>1
    <2>6. InOrder(new, loose \ {k})
      <3> SUFFICES ASSUME NEW i \in 1 .. m - 1, NEW j \in 1 .. m - 1, i < j
                   PROVE  /\ End(new[i]) <= new[j].at
                          /\ End(new[i]) = new[j].at => j = i + 1 /\ i \in loose \ {k}
        BY <2>3 DEF InOrder
      <3>1. hi(i) < lo(j) /\ hi(i) \in Int /\ lo(j) \in Int
        BY <1>1, <1>3
      <3>2. /\ End(new[i]) <= new[j].at
            /\ End(new[i]) = new[j].at => lo(j) = hi(i) + 1 /\ hi(i) \in loose
        <4>1. /\ hi(i) \in 1 .. m /\ End(new[i]) = End(list[hi(i)])
              /\ lo(j) \in 1 .. m /\ new[j].at = list[lo(j)].at
          BY <2>5
        <4> HIDE DEF lo, hi
        <4>2. /\ End(list[hi(i)]) <= list[lo(j)].at
              /\ End(list[hi(i)]) = list[lo(j)].at => lo(j) = hi(i) + 1 /\ hi(i) \in loose
          BY <3>1, <4>1 DEF IsFreeList, InOrder
        <4>3. QED
          BY <4>1, <4>2
      <3>3. hi(i) \in loose => i < k
        BY <1>1, <1>3
      <3>4. QED
        BY <1>1, <1>3, <3>2, <3>3
    <2>7. ASSUME NEW a \in Int PROVE Covers(new, a) <=> Covers(list, a)
      <3>1. ASSUME NEW i \in 1 .. m - 1, new[i].at <= a, a < End(new[i])
            PROVE  Covers(list, a)
        <4>1. CASE i # k
          <5>1. lo(i) = hi(i)
            BY <4>1, <1>3
          <5>2. QED
            BY <2>5, <3>1, <5>1 DEF Covers
        <4>2. CASE i = k
          <5>1. /\ list[k].at <= a /\ a < End(list[k + 1]) /\ k \in 1 .. m /\ k + 1 \in 1 .. m
                /\ End(list[k]) = list[k + 1].at
            BY <1>1, <1>3, <2>2, <2>3, <3>1, <4>2
          <5>2. a < End(list[k]) \/ list[k + 1].at <= a
            BY <1>1, <5>1
          <5>3. QED
            BY <5>1, <5>2 DEF Covers
        <4>3. QED
          BY <4>1, <4>2
      <3>2. ASSUME NEW i \in 1 .. m, list[i].at <= a, a < End(list[i])
            PROVE  Covers(new, a)
        <4>1. CASE i < k
          <5>1. i \in 1 .. m - 1 /\ new[i] = list[i]
            BY <1>1, <1>3, <2>3, <4>1
          <5>2. QED
            BY <2>3, <3>2, <5>1 DEF Covers
        <4>2. CASE i > k + 1
          <5> DEFINE j == i - 1
          <5>1. j \in 1 .. m - 1 /\ j > k /\ j + 1 = i
            BY <1>1, <1>3, <4>2
          <5> HIDE DEF j
          <5>2. new[j] = list[i]
            BY <2>3, <5>1
          <5>3. QED
            BY <2>3, <3>2, <5>1, <5>2 DEF Covers
        <4>3. CASE i = k \/ i = k + 1
          <5>1. c.at <= a /\ a < End(c) /\ k \in 1 .. m - 1
            BY <1>1, <1>3, <2>2, <3>2, <4>3
          <5>2. QED
            BY <2>3, <5>1 DEF Covers
        <4>4. QED
          BY <1>1, <1>3, <4>1, <4>2, <4>3
      <3>3. QED
        BY <2>3, <3>1, <3>2 DEF Covers
    <2>8. new # << >>
      BY <1>1, <1>3, <2>3
    <2>9. QED
      BY <2>1, <2>3, <2>4, <2>5, <2>6, <2>7, <2>8 DEF IsFreeList, SameMemory
  <1>4. QED
    BY <1>2, <1>3

(* A new chunk may touch both of its neighbours. *)
LEMMA CoalesceKeeps ==
  ASSUME NEW n \in Nat, NEW list, NEW k \in Nat \ {0}, IsFreeList(list, n, {k - 1, k})
  PROVE  IsFreeList(Coalesce(list, k), n, {}) /\ SameMemory(Coalesce(list, k), list)
  <1> DEFINE once == CoalesceRight(list, k)
             p == k - 1
  <1>1. p \in Nat /\ {p, k} \in SUBSET Int /\ {p} \in SUBSET Int /\ p <= k
        /\ {p, k} \ {k} = {p} /\ {p} \ {p} = {}
    OBVIOUS
  <1>2. IsFreeList(list, n, {p, k})
    OBVIOUS
  <1> HIDE DEF p
  <1>3. IsFreeList(once, n, {p}) /\ SameMemory(once, list)
    <2>1. \A j \in {p, k} : j <= k
      BY <1>1
    <2>2. IsFreeList(once, n, {p, k} \ {k}) /\ SameMemory(once, list)
      BY <1>1, <1>2, <2>1, CoalesceRightKeeps
    <2>3. QED
      BY <1>1, <2>2
  <1> HIDE DEF once
  <1>4. IsFreeList(CoalesceRight(once, p), n, {}) /\ SameMemory(CoalesceRight(once, p), once)
    <2>1. \A j \in {p} : j <= p
      BY <1>1
    <2>2. IsFreeList(CoalesceRight(once, p), n, {p} \ {p})
          /\ SameMemory(CoalesceRight(once, p), once)
      BY <1>1, <1>3, <2>1, CoalesceRightKeeps
    <2>3. QED
      BY <1>1, <2>2
  <1>5. Coalesce(list, k) = CoalesceRight(once, p)
    BY DEF Coalesce, once, p
  <1>6. SameMemory(CoalesceRight(once, p), list)
    <2> DEFINE new == CoalesceRight(once, p)
    <2> HIDE DEF new
    <2>1. SameMemory(new, once)
      BY <1>4 DEF new
    <2>2. \A i \in 1 .. Len(new) : \E j \in 1 .. Len(list) : new[i].at = list[j].at
      BY <1>3, <2>1 DEF SameMemory
    <2>3. QED
      BY <1>3, <2>1, <2>2 DEF SameMemory, new
  <1>7. QED
    BY <1>4, <1>5, <1>6

-----------------------------------------------------------------------------
(* Giving back. *)

LEMMA MinIs ==
  ASSUME NEW T, T \subseteq Nat, T # {}
  PROVE  Min(T) \in T
  BY HasMinimum DEF Min

(* The types of what a free list consists of. *)
LEMMA ChunksOf ==
  ASSUME NEW n \in Nat, NEW list, NEW loose, IsFreeList(list, n, loose)
  PROVE  /\ Len(list) \in Nat /\ list \in Seq(ChunkType)
         /\ list = << >> <=> Len(list) = 0
         /\ \A k \in 1 .. Len(list) :
              /\ list[k] \in ChunkType /\ list[k].at \in Nat /\ list[k].size \in Nat
              /\ End(list[k]) = list[k].at + list[k].size
              /\ list[k].size >= 24 /\ End(list[k]) <= n /\ FitsIn(list[k], n)
  <1>1. list \in Seq(ChunkType) /\ \A k \in 1 .. Len(list) : FitsIn(list[k], n)
    BY DEF IsFreeList
  <1>2. \A k \in 1 .. Len(list) : list[k] \in ChunkType
    BY <1>1, ElementOfSeq
  <1>3. Len(list) \in Nat /\ (list = << >> <=> Len(list) = 0)
    BY <1>1, LenProperties, EmptySeq
  <1>4. QED
    BY <1>1, <1>2, <1>3 DEF ChunkType, End, FitsIn, NodeSize

LEMMA GapsBetween ==
  ASSUME NEW n \in Nat, NEW list, IsFreeList(list, n, {})
  PROVE  \A j, k \in 1 .. Len(list) : j < k => End(list[j]) < list[k].at
  <1>1. \A k \in 1 .. Len(list) : End(list[k]) \in Int /\ list[k].at \in Int
    <2>1. \A k \in 1 .. Len(list) : /\ list[k].at \in Nat /\ list[k].size \in Nat
                                    /\ End(list[k]) = list[k].at + list[k].size
      BY ChunksOf
    <2>2. QED
      BY <2>1
  <1>2. \A j, k \in 1 .. Len(list) : j < k =>
          End(list[j]) <= list[k].at /\ End(list[j]) # list[k].at
    BY DEF IsFreeList, InOrder
  <1>3. QED
    BY <1>1, <1>2

(***************************************************************************)
(* find_prev_node finds the chunk in front of the freed one, as long as    *)
(* what it reads there is no larger than the chunk.                        *)
(***************************************************************************)
LEMMA FindPrevIs ==
  ASSUME NEW n \in Nat, NEW list, NEW at \in Nat, NEW size \in Nat \ {0}, NEW word \in Nat,
         IsFreeList(list, n, {}), list # << >>, word <= size,
         NoneFree(list, at, at + size)
  PROVE  Between(list, FindPrev(list, at, word), at, at + size)
  <1> DEFINE m == Len(list)
             before(k) == \A j \in 1 .. k : End(list[j]) <= at
             between(k) == k = m \/ list[k + 1].at >= at + word
             found == {k \in 1 .. m : before(k) /\ between(k)}
  <1>1. /\ m \in Nat \ {0}
        /\ \A k \in 1 .. m : /\ list[k].at \in Nat /\ End(list[k]) \in Nat
                             /\ list[k].at < End(list[k])
    <2>1. Len(list) \in Nat /\ Len(list) # 0
      BY ChunksOf
    <2>2. ASSUME NEW k \in 1 .. Len(list)
          PROVE  list[k].at \in Nat /\ End(list[k]) \in Nat /\ list[k].at < End(list[k])
      <3>1. /\ list[k].at \in Nat /\ list[k].size \in Nat /\ list[k].size >= 24
            /\ End(list[k]) = list[k].at + list[k].size
        BY ChunksOf
      <3>2. QED
        BY <3>1
    <2>3. QED
      BY <2>1, <2>2
  <1>2. \A j, k \in 1 .. m : j < k => End(list[j]) < list[k].at
    BY GapsBetween
  <1>3. m = Len(list)
    OBVIOUS
  <1>4. FindPrev(list, at, word) = IF found = {} THEN 0 ELSE Min(found)
    BY DEF FindPrev
  <1> HIDE DEF m
  <1>5. ASSUME NEW k \in 1 .. m PROVE End(list[k]) <= at \/ list[k].at >= at + size
    <2> SUFFICES ASSUME End(list[k]) > at, list[k].at < at + size PROVE FALSE
      BY <1>1
    <2> DEFINE a == IF list[k].at >= at THEN list[k].at ELSE at
    <2>1. a \in Int /\ at <= a /\ a < at + size /\ list[k].at <= a /\ a < End(list[k])
      BY <1>1
    <2> HIDE DEF a
    <2>2. QED
      BY <1>3, <2>1 DEF Covers, NoneFree
  <1>6. ASSUME NEW k \in found, NEW j \in 1 .. m
        PROVE  (j <= k => End(list[j]) <= at) /\ (j > k => list[j].at >= at + size)
    <2>1. CASE j <= k
      BY <2>1
    <2>2. CASE j > k
      <3>1. k + 1 \in 1 .. m /\ list[k + 1].at >= at + word
        BY <1>1, <2>2
      <3>2. list[k + 1].at >= at + size
        BY <1>1, <1>5, <3>1
      <3>3. j = k + 1 \/ list[k + 1].at <= list[j].at
        BY <1>1, <1>2, <2>2, <3>1
      <3>4. QED
        BY <1>1, <2>2, <3>1, <3>2, <3>3
    <2>3. QED
      BY <1>1, <2>1, <2>2
  <1>7. ASSUME found = {}, NEW j \in 1 .. m
        PROVE  list[j].at >= at + size
    <2> DEFINE T == {k \in 1 .. m : End(list[k]) <= at}
    <2> SUFFICES ASSUME T # {} PROVE FALSE
      BY <1>5
    <2>1. PICK k \in T : \A i \in T : i <= k
      <3>1. T \subseteq 0 .. m
        OBVIOUS
      <3> HIDE DEF T
      <3>2. QED
        BY <1>1, <3>1, HasMaximum
    <2>2. before(k)
      <3> SUFFICES ASSUME NEW l \in 1 .. k, l # k PROVE End(list[l]) <= at
        BY <2>1
      <3>1. k \in 1 .. m /\ End(list[k]) <= at
        BY <2>1
      <3>2. l \in 1 .. m /\ l < k
        BY <1>1, <3>1
      <3>3. /\ End(list[l]) \in Nat /\ list[k].at \in Nat /\ End(list[k]) \in Nat
            /\ list[k].at < End(list[k])
        BY <1>1, <3>1, <3>2
      <3>4. End(list[l]) < list[k].at
        BY <1>2, <3>1, <3>2
      <3> HIDE DEF T
      <3>5. QED
        BY <3>1, <3>3, <3>4
    <2>3. between(k)
      <3>1. k # m => k + 1 \in 1 .. m /\ k + 1 \notin T
        BY <1>1, <2>1
      <3>2. k # m => list[k + 1].at >= at + size
        BY <1>5, <3>1
      <3>3. QED
        BY <1>1, <3>1, <3>2
    <2>4. QED
      BY <1>7, <2>1, <2>2, <2>3
  <1>8. CASE found = {}
    BY <1>3, <1>1, <1>4, <1>7, <1>8 DEF Between
  <1>9. CASE found # {}
    <2>1. found \subseteq Nat /\ found \subseteq 1 .. m
      OBVIOUS
    <2> HIDE DEF found
    <2>2. Min(found) \in found
      BY <1>9, <2>1, MinIs
    <2> DEFINE p == Min(found)
    <2>3. \A k \in 1 .. m : /\ k <= p => End(list[k]) <= at
                            /\ k > p => list[k].at >= at + size
      BY <1>6, <2>2
    <2> HIDE DEF p
    <2>4. FindPrev(list, at, word) = p
      BY <1>4, <1>9 DEF p
    <2>5. p \in 0 .. m
      <3>1. p \in 1 .. m
        BY <2>1, <2>2 DEF p
      <3>2. QED
        BY <3>1
    <2>6. QED
      BY <1>3, <2>3, <2>4, <2>5 DEF Between
  <1>10. QED
    BY <1>8, <1>9

(* Putting a chunk between the others, before it is merged with them. *)
LEMMA InsertKeeps ==
  ASSUME NEW n \in Nat, NEW list, NEW c \in ChunkType, NEW p,
         IsFreeList(list, n, {}), FitsIn(c, n),
         Between(list, p, c.at, End(c))
  PROVE  /\ IsFreeList(InsertAt(list, p + 1, c), n, {p, p + 1})
         /\ AlsoFree(InsertAt(list, p + 1, c), list, c)
  <1> DEFINE m == Len(list)
             q == p + 1
             new == InsertAt(list, q, c)
  <1>1. /\ m \in Nat /\ list \in Seq(ChunkType) /\ p \in 0 .. m
        /\ \A k \in 1 .. m : /\ list[k].at \in Nat /\ list[k].size >= 24
                             /\ End(list[k]) = list[k].at + list[k].size /\ FitsIn(list[k], n)
                             /\ list[k].size \in Nat /\ End(list[k]) \in Nat
    <2>1. /\ m \in Nat /\ list \in Seq(ChunkType) /\ p \in 0 .. m
          /\ \A k \in 1 .. m : /\ list[k].at \in Nat /\ list[k].size >= 24
                               /\ End(list[k]) = list[k].at + list[k].size
                               /\ FitsIn(list[k], n) /\ list[k].size \in Nat
      BY ChunksOf DEF Between
    <2> HIDE DEF m
    <2>2. \A k \in 1 .. m : End(list[k]) \in Nat
      BY <2>1
    <2>3. QED
      BY <2>1, <2>2
  <1>2. /\ q \in 1 .. m + 1 /\ c.at \in Nat /\ c.size \in Nat /\ End(c) = c.at + c.size
        /\ c.size >= 24
    BY <1>1 DEF ChunkType, End, FitsIn, NodeSize
  <1>3. /\ new \in Seq(ChunkType) /\ Len(new) = m + 1
        /\ \A i \in 1 .. m + 1 : /\ i < q => new[i] = list[i]
                                 /\ i = q => new[i] = c
                                 /\ i > q => new[i] = list[i - 1]
    <2>1. list \in Seq(ChunkType) /\ q \in 1 .. Len(list) + 1
      BY <1>1, <1>2
    <2>2. c \in ChunkType
      OBVIOUS
    <2> HIDE DEF q, m, new
    <2>3. /\ InsertAt(list, q, c) \in Seq(ChunkType)
          /\ Len(InsertAt(list, q, c)) = Len(list) + 1
          /\ \A i \in 1 .. Len(list) + 1 :
               /\ i < q => InsertAt(list, q, c)[i] = list[i]
               /\ i = q => InsertAt(list, q, c)[i] = c
               /\ i > q => InsertAt(list, q, c)[i] = list[i - 1]
      BY ONLY <2>1, <2>2, InsertAtIs
    <2>4. QED
      BY <2>3 DEF m, new
  <1>4. \A j, k \in 1 .. m : j < k => End(list[j]) < list[k].at
    BY GapsBetween
  <1>5. \A k \in 1 .. m : /\ k < q => End(list[k]) <= c.at
                          /\ k >= q => list[k].at >= End(c)
    BY <1>1 DEF Between
  <1>6. q - 1 = p
    BY <1>1
  <1>7. m = Len(list)
    OBVIOUS
  <1> HIDE DEF m, q, new
  <1>8. \A i \in 1 .. m + 1 :
          /\ i < q => i \in 1 .. m /\ new[i] = list[i]
          /\ i = q => new[i] = c
          /\ i > q => i - 1 \in 1 .. m /\ i - 1 >= q /\ new[i] = list[i - 1]
    BY <1>1, <1>2, <1>3
  <1>9. \A i \in 1 .. m + 1 : FitsIn(new[i], n)
    <2> SUFFICES ASSUME NEW i \in 1 .. m + 1 PROVE FitsIn(new[i], n)
      OBVIOUS
    <2>1. i < q \/ i = q \/ i > q
      BY <1>1, <1>2
    <2>2. QED
      BY <1>1, <1>8, <2>1
  <1>10. InOrder(new, {q - 1, q})
    <2> SUFFICES ASSUME NEW i \in 1 .. m + 1, NEW j \in 1 .. m + 1, i < j
                 PROVE  /\ End(new[i]) <= new[j].at
                        /\ End(new[i]) = new[j].at => j = i + 1 /\ i \in {q - 1, q}
      BY <1>3 DEF InOrder
    <2>1. CASE i < q /\ j < q
      <3>1. new[i] = list[i] /\ new[j] = list[j] /\ i \in 1 .. m /\ j \in 1 .. m
        BY <1>8, <2>1
      <3>2. End(list[i]) < list[j].at /\ End(list[i]) \in Nat /\ list[j].at \in Nat
        BY <1>1, <1>4, <3>1
      <3>3. QED
        BY <3>1, <3>2
    <2>2. CASE i < q /\ j = q
      <3>1. new[i] = list[i] /\ new[j] = c /\ i \in 1 .. m
        BY <1>8, <2>2
      <3>2. End(list[i]) <= c.at
        BY <1>5, <2>2, <3>1
      <3>3. i < q - 1 => End(list[i]) < c.at
        <4> SUFFICES ASSUME i < q - 1 PROVE End(list[i]) < c.at
          OBVIOUS
        <4> DEFINE k == q - 1
        <4>1. k \in 1 .. m /\ i < k /\ k < q
          BY <1>1, <1>2
        <4> HIDE DEF k
        <4>2. /\ End(list[i]) < list[k].at /\ End(list[k]) <= c.at
              /\ End(list[k]) = list[k].at + list[k].size /\ list[k].at \in Nat
              /\ list[k].size \in Nat /\ End(list[i]) = list[i].at + list[i].size
              /\ list[i].at \in Nat /\ list[i].size \in Nat
          BY <1>1, <1>4, <1>5, <3>1, <4>1
        <4>3. QED
          BY <1>2, <4>2
      <3>4. QED
        BY <1>1, <1>2, <2>2, <3>1, <3>2, <3>3
    <2>3. CASE i < q /\ j > q
      <3>1. new[i] = list[i] /\ new[j] = list[j - 1] /\ i \in 1 .. m /\ j - 1 \in 1 .. m
        BY <1>8, <2>3
      <3> DEFINE k == j - 1
      <3>2. i < k /\ k \in 1 .. m
        BY <1>2, <2>3, <3>1
      <3> HIDE DEF k
      <3>3. /\ End(list[i]) < list[k].at /\ list[i].at \in Nat /\ list[i].size \in Nat
            /\ End(list[i]) = list[i].at + list[i].size /\ list[k].at \in Nat
        BY <1>1, <1>4, <3>1, <3>2
      <3>4. QED
        BY <3>1, <3>3 DEF k
    <2>4. CASE i = q
      <3> DEFINE k == j - 1
      <3>1. new[i] = c /\ new[j] = list[k] /\ k \in 1 .. m /\ k >= q
        BY <1>8, <2>4
      <3> HIDE DEF k
      <3>2. list[k].at >= End(c)
        BY <1>5, <3>1
      <3>3. k > q => End(c) < list[k].at
        <4> SUFFICES ASSUME k > q PROVE End(c) < list[k].at
          OBVIOUS
        <4>1. q \in 1 .. m
          BY <1>1, <1>2, <3>1
        <4>2. /\ End(list[q]) < list[k].at /\ list[q].at >= End(c)
              /\ End(list[q]) = list[q].at + list[q].size /\ list[q].at \in Nat
              /\ list[q].size \in Nat /\ list[k].at \in Nat
          BY <1>1, <1>2, <1>4, <1>5, <3>1, <4>1
        <4>3. QED
          BY <1>2, <4>2
      <3>4. k = q => j = i + 1
        BY <2>4 DEF k
      <3>5. QED
        BY <1>1, <1>2, <2>4, <3>1, <3>2, <3>3, <3>4
    <2>5. CASE i > q
      <3>1. /\ new[i] = list[i - 1] /\ new[j] = list[j - 1]
            /\ i - 1 \in 1 .. m /\ j - 1 \in 1 .. m /\ i - 1 < j - 1
        BY <1>2, <1>8, <2>5
      <3>2. End(list[i - 1]) < list[j - 1].at /\ End(list[i - 1]) \in Nat /\ list[j - 1].at \in Nat
        BY <1>1, <1>4, <3>1
      <3>3. QED
        BY <3>1, <3>2
    <2>6. QED
      BY <1>2, <2>1, <2>2, <2>3, <2>4, <2>5
  <1>11. ASSUME NEW a \in Int
        PROVE  Covers(new, a) <=> Covers(list, a) \/ (c.at <= a /\ a < End(c))
    <2>1. ASSUME NEW i \in 1 .. m + 1, new[i].at <= a, a < End(new[i])
          PROVE  Covers(list, a) \/ (c.at <= a /\ a < End(c))
      BY <1>2, <1>8, <1>7, <2>1 DEF Covers
    <2>2. ASSUME NEW k \in 1 .. m, list[k].at <= a, a < End(list[k])
          PROVE  Covers(new, a)
      <3>1. CASE k < q
        <4>1. k \in 1 .. m + 1
          BY <1>1
        <4>2. k \in 1 .. Len(new) /\ new[k] = list[k]
          BY <1>3, <3>1, <4>1
        <4>3. QED
          BY <2>2, <4>2 DEF Covers
      <3>2. CASE k >= q
        <4> DEFINE i == k + 1
        <4>1. i \in 1 .. m + 1 /\ i > q /\ i - 1 = k
          BY <1>1, <1>2, <3>2
        <4> HIDE DEF i
        <4>2. new[i] = list[k]
          BY <1>3, <4>1
        <4>3. QED
          BY <1>3, <2>2, <4>1, <4>2 DEF Covers
      <3>3. QED
        BY <1>2, <3>1, <3>2
    <2>3. ASSUME c.at <= a, a < End(c) PROVE Covers(new, a)
      <3>1. q \in 1 .. Len(new) /\ new[q] = c
        BY <1>2, <1>3
      <3>2. QED
        BY <2>3, <3>1 DEF Covers
    <2>4. QED
      BY <1>3, <1>7, <2>1, <2>2, <2>3 DEF Covers
  <1>12. \A i \in 1 .. m + 1 : new[i].at = c.at \/ \E j \in 1 .. m : new[i].at = list[j].at
    BY <1>2, <1>8
  <1>13. new # << >>
    BY <1>1, <1>3
  <1>14. QED
    BY <1>3, <1>9, <1>10, <1>11, <1>12, <1>13, <1>6, <1>7 DEF IsFreeList, AlsoFree, new, q

(***************************************************************************)
(* ms_free_list_free, when it reads the size of the block that is freed:   *)
(* into a list of chunks, and into one that the last block has emptied.    *)
(***************************************************************************)
LEMMA GiveBackBetween ==
  ASSUME NEW n \in Nat, NEW list, NEW at \in Nat, NEW size \in Nat,
         IsFreeList(list, n, {}), list # << >>, FitsIn(Chunk(at, size), n),
         NoneFree(list, at, at + size)
  PROVE  /\ IsFreeList(GiveBack(list, at, size, size), n, {})
         /\ AlsoFree(GiveBack(list, at, size, size), list, Chunk(at, size))
  <1> DEFINE c == Chunk(at, size)
             p == FindPrev(list, at, size)
             ins == InsertAt(list, p + 1, c)
             new == Coalesce(ins, p + 1)
  <1>1. c \in ChunkType /\ c.at = at /\ c.size = size /\ End(c) = at + size /\ size \in Nat \ {0}
    BY DEF Chunk, ChunkType, End, FitsIn, NodeSize
  <1>2. Between(list, p, c.at, End(c))
    <2>1. size \in Nat \ {0} /\ size <= size
      BY <1>1
    <2>2. Between(list, p, at, at + size)
      BY <2>1, FindPrevIs
    <2>3. QED
      BY <1>1, <2>2
  <1>3. GiveBack(list, at, size, size) = new
    BY DEF GiveBack
  <1>4. FitsIn(c, n)
    OBVIOUS
  <1> HIDE DEF c, p
  <1>5. IsFreeList(ins, n, {p, p + 1}) /\ AlsoFree(ins, list, c)
    BY <1>1, <1>2, <1>4, InsertKeeps
  <1> HIDE DEF ins
  <1>6. IsFreeList(new, n, {}) /\ SameMemory(new, ins)
    <2> DEFINE k == p + 1
    <2>1. k \in Nat \ {0} /\ k - 1 = p
      BY <1>2, ChunksOf DEF Between
    <2>2. IsFreeList(ins, n, {k - 1, k})
      BY <1>5, <2>1
    <2> HIDE DEF k
    <2>3. IsFreeList(Coalesce(ins, k), n, {}) /\ SameMemory(Coalesce(ins, k), ins)
      BY <2>1, <2>2, CoalesceKeeps
    <2>4. QED
      BY <2>3 DEF k
  <1> HIDE DEF new
  <1>7. AlsoFree(new, list, c)
    <2>1. \A i \in 1 .. Len(new) :
            new[i].at = c.at \/ \E j \in 1 .. Len(list) : new[i].at = list[j].at
      BY <1>5, <1>6 DEF SameMemory, AlsoFree
    <2>2. QED
      BY <1>5, <1>6, <2>1 DEF SameMemory, AlsoFree
  <1>8. QED
    BY <1>3, <1>6, <1>7 DEF c

LEMMA GiveBackFirst ==
  ASSUME NEW n \in Nat, NEW at \in Nat, NEW size \in Nat, FitsIn(Chunk(at, size), n)
  PROVE  /\ IsFreeList(GiveBack(<< >>, at, size, size), n, {})
         /\ AlsoFree(GiveBack(<< >>, at, size, size), << >>, Chunk(at, size))
  <1> DEFINE c == Chunk(at, size)
             list == <<c>>
  <1>1. c \in ChunkType
    BY DEF Chunk, ChunkType
  <1>2. GiveBack(<< >>, at, size, size) = list
    BY DEF GiveBack
  <1>3. FitsIn(c, n)
    OBVIOUS
  <1> HIDE DEF c
  <1>4. list \in Seq(ChunkType) /\ Len(list) = 1 /\ list[1] = c /\ list # << >>
    BY <1>1
  <1> HIDE DEF list
  <1>5. \A k \in 1 .. 1 : k = 1
    OBVIOUS
  <1>6. IsFreeList(list, n, {})
    BY <1>3, <1>4, <1>5 DEF IsFreeList, InOrder
  <1>7. Len(<< >>) = 0 /\ \A a \in Int : ~ Covers(<< >>, a)
    BY DEF Covers
  <1>8. AlsoFree(list, << >>, c)
    BY <1>4, <1>5, <1>7 DEF AlsoFree, Covers
  <1>9. QED
    BY <1>2, <1>6, <1>8 DEF c

LEMMA GiveBackKeeps ==
  ASSUME NEW n \in Nat, NEW list, NEW at \in Nat, NEW size \in Nat,
         IsFreeList(list, n, {}), FitsIn(Chunk(at, size), n),
         NoneFree(list, at, at + size)
  PROVE  /\ IsFreeList(GiveBack(list, at, size, size), n, {})
         /\ AlsoFree(GiveBack(list, at, size, size), list, Chunk(at, size))
  <1>1. CASE list = << >>
    BY <1>1, GiveBackFirst
  <1>2. CASE list # << >>
    BY <1>2, GiveBackBetween
  <1>3. QED
    BY <1>1, <1>2

-----------------------------------------------------------------------------
(* Taking. *)

LEMMA MaxIs ==
  ASSUME NEW m \in Nat, NEW T, T \subseteq 0 .. m, T # {}
  PROVE  Max(T) \in T
  <1>1. PICK x \in T : \A y \in T : y <= x
    BY HasMaximum
  <1>2. \A y \in T : x >= y
    BY <1>1
  <1>3. QED
    BY <1>2 DEF Max

(* find_smallest_node finds a chunk that fits when there is one. *)
LEMMA FindSmallestIs ==
  ASSUME NEW n \in Nat, NEW list, NEW total \in Nat, IsFreeList(list, n, {})
  PROVE  /\ FindSmallest(list, total) # 0 => HasRoom(list, FindSmallest(list, total), total)
         /\ FindSmallest(list, total) = 0 =>
              \A k \in 1 .. Len(list) : list[k].size < total
  <1> DEFINE m == Len(list)
             fits == {k \in 1 .. m : list[k].size >= total}
             better == {k \in fits : \A j, i \in fits :
                          j < i /\ i <= k => list[i].size < list[j].size}
  <1>1. m = Len(list) /\ m \in Nat /\ \A k \in 1 .. m : list[k].size \in Nat
    BY ChunksOf
  <1>2. FindSmallest(list, total) = IF fits = {} THEN 0 ELSE Max(better)
    BY DEF FindSmallest
  <1> HIDE DEF m
  <1>3. fits \subseteq 1 .. m /\ \A k \in fits : list[k].size >= total
    OBVIOUS
  <1>4. fits = {} => \A k \in 1 .. m : list[k].size < total
    BY <1>1
  <1>5. ASSUME fits # {} PROVE Max(better) \in fits
    <2>1. PICK x \in fits : \A y \in fits : x <= y
      <3>1. fits \subseteq Nat
        BY <1>3
      <3> HIDE DEF fits
      <3>2. QED
        BY <1>5, <3>1, HasMinimum
    <2>2. x \in better
      <3> SUFFICES ASSUME NEW j \in fits, NEW i \in fits, j < i, i <= x
                   PROVE  FALSE
        BY <2>1
      <3>1. x <= j /\ x \in Nat /\ i \in Nat /\ j \in Nat
        BY <1>3, <2>1
      <3> HIDE DEF fits
      <3>2. QED
        BY <3>1
    <2>3. better \subseteq fits
      OBVIOUS
    <2>4. better \subseteq 0 .. m /\ better # {}
      <3>1. 1 .. m \subseteq 0 .. m
        BY <1>1
      <3> HIDE DEF fits, better
      <3>2. QED
        BY <1>3, <2>2, <2>3, <3>1
    <2> HIDE DEF better
    <2>5. Max(better) \in better
      BY <1>1, <2>4, MaxIs
    <2>6. QED
      BY <2>3, <2>5
  <1> HIDE DEF fits
  <1>6. CASE fits = {}
    BY <1>1, <1>2, <1>4, <1>6
  <1>7. CASE fits # {}
    <2> DEFINE k == Max(better)
    <2>1. k \in 1 .. m /\ list[k].size >= total
      BY <1>3, <1>5, <1>7
    <2>2. FindSmallest(list, total) = k
      BY <1>2, <1>7
    <2> HIDE DEF k
    <2>3. k # 0
      BY <2>1
    <2>4. QED
      BY <1>1, <2>1, <2>2, <2>3 DEF HasRoom
  <1>8. QED
    BY <1>6, <1>7

(* malloc_node when a node fits into the rest: it stays where the chunk was. *)
LEMMA SplitKeeps ==
  ASSUME NEW n \in Nat, NEW list, NEW k, NEW total \in Nat,
         IsFreeList(list, n, {}), HasRoom(list, k, total),
         total % 8 = 0, total >= NodeSize, IsSplit(list[k], total)
  PROVE  /\ IsFreeList(Take(list, k, total), n, {})
         /\ LessFree(Take(list, k, total), list, list[k], total)
  <1> DEFINE m == Len(list)
             rest == Chunk(list[k].at + total, list[k].size - total)
             new == ReplaceAt(list, k, rest)
  <1>1. /\ m = Len(list) /\ m \in Nat /\ list \in Seq(ChunkType) /\ k \in 1 .. m
        /\ \A i \in 1 .. m : /\ list[i].at \in Nat /\ list[i].size \in Nat
                             /\ End(list[i]) = list[i].at + list[i].size /\ FitsIn(list[i], n)
    BY ChunksOf DEF HasRoom
  <1>2. Take(list, k, total) = new /\ Taken(list[k], total) = total
    BY DEF Take, Taken
  <1>3. /\ rest \in ChunkType /\ rest.at = list[k].at + total /\ End(rest) = End(list[k])
        /\ FitsIn(rest, n) /\ rest.at \in Nat
    <2> DEFINE at == list[k].at
               size == list[k].size
    <2>1. /\ at \in Nat /\ size \in Nat /\ End(list[k]) = at + size /\ FitsIn(list[k], n)
          /\ size - total >= 24 /\ list[k].at = at
      BY <1>1 DEF IsSplit, NodeSize
    <2>2. rest = [at |-> at + total, size |-> size - total]
      BY DEF Chunk
    <2>3. at % 8 = 0
      BY <2>1 DEF FitsIn
    <2> HIDE DEF m, at, size, rest
    <2>4. /\ at + total \in Nat /\ size - total \in Nat /\ (at + total) % 8 = 0
          /\ at + total + (size - total) = at + size
      BY <2>1, <2>3
    <2>5. rest \in ChunkType /\ rest.at = at + total /\ rest.size = size - total
      BY <2>2, <2>4 DEF ChunkType
    <2>6. End(rest) = End(list[k])
      BY <2>1, <2>4, <2>5 DEF End
    <2>7. FitsIn(rest, n)
      BY <2>1, <2>4, <2>5, <2>6 DEF FitsIn, NodeSize
    <2>8. QED
      BY <2>1, <2>4, <2>5, <2>6, <2>7
  <1> HIDE DEF rest
  <1>4. /\ new \in Seq(ChunkType) /\ Len(new) = m
        /\ \A i \in 1 .. m : new[i] = IF i = k THEN rest ELSE list[i]
    BY <1>1, <1>3, ExceptSeq DEF ReplaceAt
  <1>5. \A i, j \in 1 .. m : i < j => End(list[i]) < list[j].at
    BY GapsBetween
  <1> HIDE DEF m, new
  <1>6. \A i \in 1 .. m : i # k => new[i] = list[i]
    BY <1>4
  <1>7. new[k] = rest
    BY <1>1, <1>4
  <1>8. \A i \in 1 .. m : FitsIn(new[i], n) /\ End(new[i]) = End(list[i])
    BY <1>1, <1>3, <1>6, <1>7
  <1>9. \A i \in 1 .. m : list[i].at <= new[i].at /\ new[i].at \in Nat
    <2> SUFFICES ASSUME NEW i \in 1 .. m PROVE list[i].at <= new[i].at /\ new[i].at \in Nat
      OBVIOUS
    <2>1. CASE i = k
      <3>1. list[k].at \in Nat /\ new[i].at = list[k].at + total
        BY <1>1, <1>3, <1>7, <2>1
      <3>2. QED
        BY <2>1, <3>1
    <2>2. CASE i # k
      <3>1. new[i].at = list[i].at /\ list[i].at \in Nat
        BY <1>1, <1>6, <2>2
      <3>2. QED
        BY <3>1
    <2>3. QED
      BY <2>1, <2>2
  <1>10. InOrder(new, {})
    <2> SUFFICES ASSUME NEW i \in 1 .. m, NEW j \in 1 .. m, i < j
                 PROVE  End(new[i]) <= new[j].at /\ End(new[i]) # new[j].at
      BY <1>4 DEF InOrder
    <2>1. /\ End(list[i]) < list[j].at /\ list[j].at <= new[j].at /\ End(new[i]) = End(list[i])
          /\ list[i].at \in Nat /\ list[i].size \in Nat /\ End(list[i]) = list[i].at + list[i].size
          /\ list[j].at \in Nat /\ new[j].at \in Nat
      BY <1>1, <1>5, <1>8, <1>9
    <2>2. QED
      BY <2>1
  <1>11. ASSUME NEW a \in Int
         PROVE  Covers(new, a) <=> Covers(list, a) /\ ~ (list[k].at <= a /\ a < list[k].at + total)
    <2>1. ASSUME NEW i \in 1 .. m, new[i].at <= a, a < End(new[i])
          PROVE  /\ list[i].at <= a /\ a < End(list[i])
                 /\ ~ (list[k].at <= a /\ a < list[k].at + total)
      <3>1. /\ list[i].at \in Nat /\ list[i].size \in Nat
            /\ list[k].at \in Nat /\ list[k].size \in Nat
            /\ End(list[i]) = list[i].at + list[i].size /\ End(list[k]) = list[k].at + list[k].size
            /\ new[i].at \in Nat /\ list[i].at <= new[i].at /\ End(new[i]) = End(list[i])
        BY <1>1, <1>8, <1>9
      <3>2. list[i].at <= a /\ a < End(list[i])
        BY <2>1, <3>1
      <3>3. list[k].size >= total
        BY DEF HasRoom
      <3>4. CASE i = k
        <4>1. new[i].at = list[k].at + total
          BY <1>3, <1>7, <3>4
        <4>2. QED
          BY <2>1, <3>1, <3>2, <4>1
      <3>5. CASE i < k
        <4>1. End(list[i]) < list[k].at
          BY <1>1, <1>5, <3>5
        <4>2. QED
          BY <3>1, <3>2, <4>1
      <3>6. CASE i > k
        <4>1. End(list[k]) < list[i].at
          BY <1>1, <1>5, <3>6
        <4>2. QED
          BY <3>1, <3>2, <3>3, <4>1
      <3>7. i < k \/ i = k \/ i > k
        BY <1>1
      <3>8. QED
        BY <3>4, <3>5, <3>6, <3>7
    <2>2. ASSUME NEW i \in 1 .. m, list[i].at <= a, a < End(list[i]),
                 ~ (list[k].at <= a /\ a < list[k].at + total)
          PROVE  new[i].at <= a /\ a < End(new[i])
      <3>1. CASE i = k
        <4>1. /\ list[k].at \in Nat /\ new[i].at = list[k].at + total
              /\ End(new[i]) = End(list[i])
          BY <1>1, <1>3, <1>7, <1>8, <3>1
        <4>2. QED
          BY <2>2, <3>1, <4>1
      <3>2. CASE i # k
        BY <1>6, <2>2, <3>2
      <3>3. QED
        BY <3>1, <3>2
    <2>3. QED
      BY <1>1, <1>4, <2>1, <2>2 DEF Covers
  <1>12. \A i \in 1 .. m : \/ \E j \in 1 .. m : new[i].at = list[j].at
                           \/ IsSplit(list[k], total) /\ new[i].at = list[k].at + total
    BY <1>3, <1>6, <1>7
  <1>13. IsFreeList(new, n, {})
    BY <1>4, <1>8, <1>10 DEF IsFreeList
  <1>14. QED
    BY <1>1, <1>2, <1>4, <1>11, <1>12, <1>13 DEF LessFree

(* malloc_node when no node fits into the rest: the chunk leaves the list. *)
LEMMA RemoveKeeps ==
  ASSUME NEW n \in Nat, NEW list, NEW k, NEW total \in Nat,
         IsFreeList(list, n, {}), HasRoom(list, k, total), ~ IsSplit(list[k], total)
  PROVE  /\ IsFreeList(Take(list, k, total), n, {})
         /\ LessFree(Take(list, k, total), list, list[k], total)
  <1> DEFINE m == Len(list)
             new == RemoveAt(list, k)
             old(i) == IF i < k THEN i ELSE i + 1
  <1>1. /\ m = Len(list) /\ m \in Nat /\ list \in Seq(ChunkType) /\ k \in 1 .. m
        /\ \A i \in 1 .. m : /\ list[i].at \in Nat /\ list[i].size \in Nat
                             /\ End(list[i]) = list[i].at + list[i].size /\ FitsIn(list[i], n)
    BY ChunksOf DEF HasRoom
  <1>2. Take(list, k, total) = new /\ Taken(list[k], total) = list[k].size
    BY DEF Take, Taken
  <1>3. /\ new \in Seq(ChunkType) /\ Len(new) = m - 1
        /\ \A i \in 1 .. m - 1 : /\ i < k => new[i] = list[i]
                                 /\ i >= k => new[i] = list[i + 1]
    BY <1>1, RemoveAtIs
  <1>4. \A i, j \in 1 .. m : i < j => End(list[i]) < list[j].at
    BY GapsBetween
  <1> HIDE DEF m, new
  <1>5. \A i \in 1 .. m - 1 : old(i) \in 1 .. m /\ old(i) # k /\ new[i] = list[old(i)]
    <2> SUFFICES ASSUME NEW i \in 1 .. m - 1
                 PROVE  old(i) \in 1 .. m /\ old(i) # k /\ new[i] = list[old(i)]
      OBVIOUS
    <2>1. CASE i < k
      BY <1>1, <1>3, <2>1
    <2>2. CASE ~ (i < k)
      <3>1. i >= k /\ i + 1 \in 1 .. m /\ i + 1 # k
        BY <1>1, <2>2
      <3>2. QED
        BY <1>3, <2>2, <3>1
    <2>3. QED
      BY <2>1, <2>2
  <1>6. \A i, j \in 1 .. m - 1 : i < j => old(i) < old(j)
    BY <1>1
  <1>7. \A h \in 1 .. m : h # k => \E i \in 1 .. m - 1 : old(i) = h
    <2> SUFFICES ASSUME NEW h \in 1 .. m, h # k
                 PROVE  \E i \in 1 .. m - 1 : old(i) = h
      OBVIOUS
    <2>1. CASE h < k
      <3>1. h \in 1 .. m - 1 /\ old(h) = h
        BY <1>1, <2>1
      <3>2. QED
        BY <3>1
    <2>2. CASE h > k
      <3>1. h - 1 \in 1 .. m - 1 /\ old(h - 1) = h
        BY <1>1, <2>2
      <3>2. QED
        BY <3>1
    <2>3. QED
      BY <1>1, <2>1, <2>2
  <1> HIDE DEF old
  <1>8. \A i \in 1 .. m - 1 : FitsIn(new[i], n)
    BY <1>1, <1>5
  <1>9. InOrder(new, {})
    <2> SUFFICES ASSUME NEW i \in 1 .. m - 1, NEW j \in 1 .. m - 1, i < j
                 PROVE  End(new[i]) <= new[j].at /\ End(new[i]) # new[j].at
      BY <1>3 DEF InOrder
    <2> DEFINE g == old(i)
               h == old(j)
    <2>1. /\ g \in 1 .. m /\ h \in 1 .. m /\ g < h
          /\ new[i] = list[g] /\ new[j] = list[h]
      BY <1>5, <1>6
    <2> HIDE DEF g, h
    <2>2. /\ End(list[g]) < list[h].at /\ list[h].at \in Nat /\ list[g].at \in Nat
          /\ list[g].size \in Nat /\ End(list[g]) = list[g].at + list[g].size
      BY <1>1, <1>4, <2>1
    <2>3. QED
      BY <2>1, <2>2
  <1>10. ASSUME NEW a \in Int
         PROVE  Covers(new, a) <=>
                  Covers(list, a) /\ ~ (list[k].at <= a /\ a < list[k].at + list[k].size)
    <2>1. ASSUME NEW h \in 1 .. m, h # k, list[h].at <= a, a < End(list[h])
          PROVE  ~ (list[k].at <= a /\ a < list[k].at + list[k].size)
      <3>1. /\ list[h].at \in Nat /\ list[k].at \in Nat /\ list[h].size \in Nat
            /\ list[k].size \in Nat /\ End(list[h]) = list[h].at + list[h].size
            /\ End(list[k]) = list[k].at + list[k].size
        BY <1>1
      <3>2. End(list[h]) < list[k].at \/ End(list[k]) < list[h].at
        <4>1. h < k \/ k < h
          BY <1>1, <2>1
        <4>2. QED
          BY <1>1, <1>4, <4>1
      <3>3. QED
        BY <2>1, <3>1, <3>2
    <2>2. ASSUME NEW i \in 1 .. m - 1, new[i].at <= a, a < End(new[i])
          PROVE  \E h \in 1 .. m : h # k /\ list[h].at <= a /\ a < End(list[h])
      BY <1>5, <2>2
    <2>3. ASSUME NEW h \in 1 .. m, h # k, list[h].at <= a, a < End(list[h])
          PROVE  Covers(new, a)
      <3>1. PICK i \in 1 .. m - 1 : old(i) = h
        BY <1>7, <2>3
      <3>2. new[i] = list[h]
        BY <1>5, <3>1
      <3>3. QED
        BY <1>3, <2>3, <3>2 DEF Covers
    <2>4. End(list[k]) = list[k].at + list[k].size
      BY <1>1
    <2>5. Covers(list, a) <=> \E h \in 1 .. m : list[h].at <= a /\ a < End(list[h])
      BY <1>1 DEF Covers
    <2>6. Covers(new, a) <=> \E i \in 1 .. m - 1 : new[i].at <= a /\ a < End(new[i])
      BY <1>3 DEF Covers
    <2>7. QED
      BY <2>1, <2>2, <2>3, <2>4, <2>5, <2>6
  <1>11. \A i \in 1 .. m - 1 : \E j \in 1 .. m : new[i].at = list[j].at
    BY <1>5
  <1>12. IsFreeList(new, n, {})
    BY <1>3, <1>8, <1>9 DEF IsFreeList
  <1>13. QED
    BY <1>1, <1>2, <1>3, <1>10, <1>11, <1>12 DEF LessFree

(* Both together. *)
LEMMA TakeKeeps ==
  ASSUME NEW n \in Nat, NEW list, NEW k, NEW total \in Nat,
         IsFreeList(list, n, {}), HasRoom(list, k, total), total % 8 = 0, total >= NodeSize
  PROVE  /\ IsFreeList(Take(list, k, total), n, {})
         /\ LessFree(Take(list, k, total), list, list[k], total)
  BY SplitKeeps, RemoveKeeps

-----------------------------------------------------------------------------
(* Free chunks and blocks. *)

Holds(b, a) == b.at <= a /\ a < End(b)

(* Every byte of n is in one chunk or in one of the blocks L. *)
NoneLost(list, L, n) ==
  \A a \in 0 .. n - 1 : Covers(list, a) \/ \E b \in L : Holds(b, a)

NoneFreeTwice(list, L) == \A a \in Int : \A b \in L : Holds(b, a) => ~ Covers(list, a)

NoneHeldTwice(L) == \A a \in Int : \A b, c \in L : Holds(b, a) /\ Holds(c, a) => b = c

Tiles(list, L, n) ==
  /\ IsFreeList(list, n, {})
  /\ \A b \in L : b.at \in Nat /\ b.size \in Nat /\ FitsIn(b, n)
  /\ NoneLost(list, L, n) /\ NoneFreeTwice(list, L) /\ NoneHeldTwice(L)

LEMMA BlockTypes ==
  ASSUME NEW n \in Nat, NEW L, NEW list, Tiles(list, L, n), NEW b \in L
  PROVE  /\ b.at \in Nat /\ b.size \in Nat /\ End(b) = b.at + b.size
         /\ b.size >= 24 /\ End(b) <= n /\ FitsIn(b, n)
  BY DEF Tiles, FitsIn, End, NodeSize

(* The whole of the memory in one chunk. *)
LEMMA TilesAtFirst ==
  ASSUME NEW n \in Nat, n >= 24
  PROVE  LET list == <<Chunk(0, n)>> IN
           /\ Tiles(list, {}, n)
           /\ list # << >> /\ Len(list) = 1 /\ list[1].at = 0
  <1> DEFINE c == Chunk(0, n)
             list == <<c>>
  <1>1. c \in ChunkType /\ c.at = 0 /\ End(c) = n /\ FitsIn(c, n)
    BY DEF Chunk, ChunkType, End, FitsIn, NodeSize
  <1> HIDE DEF c
  <1>2. list \in Seq(ChunkType) /\ Len(list) = 1 /\ list[1] = c /\ list # << >>
    BY <1>1
  <1> HIDE DEF list
  <1>3. \A k \in 1 .. 1 : k = 1
    OBVIOUS
  <1>4. IsFreeList(list, n, {})
    BY <1>1, <1>2, <1>3 DEF IsFreeList, InOrder
  <1>5. NoneLost(list, {}, n)
    BY <1>1, <1>2 DEF NoneLost, Covers
  <1>6. QED
    BY <1>1, <1>2, <1>4, <1>5 DEF Tiles, NoneFreeTwice, NoneHeldTwice, list, c

(* malloc_node *)
LEMMA TakeTiles ==
  ASSUME NEW n \in Nat, NEW list, NEW L, Tiles(list, L, n), NEW k, NEW total \in Nat,
         HasRoom(list, k, total), total % 8 = 0, total >= NodeSize,
         NEW b, b.at = list[k].at, b.size = Taken(list[k], total)
  PROVE  /\ Tiles(Take(list, k, total), L \cup {b}, n)
         /\ b \notin L /\ b.size >= total
  <1> DEFINE c == list[k]
             new == Take(list, k, total)
  <1>1. IsFreeList(list, n, {})
    BY DEF Tiles
  <1>2. IsFreeList(new, n, {}) /\ LessFree(new, list, c, total)
    BY <1>1, TakeKeeps
  <1>3. /\ k \in 1 .. Len(list) /\ c.at \in Nat /\ c.size \in Nat /\ End(c) = c.at + c.size
        /\ FitsIn(c, n) /\ c.size >= total /\ End(c) <= n
    BY <1>1, ChunksOf DEF HasRoom
  <1> HIDE DEF c, new
  <1>4. b.at = c.at /\ b.size = Taken(c, total)
    BY DEF c
  <1>5. /\ IsSplit(c, total) => b.size = total
        /\ ~ IsSplit(c, total) => b.size = c.size
        /\ b.size \in Nat /\ b.size >= total /\ b.size <= c.size
    BY <1>3, <1>4 DEF Taken
  <1>6. End(b) = c.at + b.size
    BY <1>4 DEF End
  <1>7. FitsIn(b, n)
    <2>1. b.at % 8 = 0 /\ b.size >= NodeSize
      BY <1>3, <1>4, <1>5 DEF FitsIn, NodeSize
    <2>2. End(b) <= n
      BY <1>3, <1>5, <1>6
    <2>3. End(b) % 8 = 0 \/ End(b) = n
      <3>1. CASE IsSplit(c, total)
        <4>1. c.at % 8 = 0 /\ End(b) = c.at + total
          BY <1>4, <1>5, <1>6, <2>1, <3>1
        <4>2. c.at \in Int /\ total \in Int /\ total % 8 = 0
          BY <1>3
        <4>3. (c.at + total) % 8 = 0
          BY <4>1, <4>2
        <4>4. QED
          BY <4>1, <4>3
      <3>2. CASE ~ IsSplit(c, total)
        BY <1>3, <1>5, <1>6, <3>2 DEF FitsIn
      <3>3. QED
        BY <3>1, <3>2
    <2>4. QED
      BY <2>1, <2>2, <2>3 DEF FitsIn
  <1>8. \A a \in Int : Covers(new, a) <=> Covers(list, a) /\ ~ Holds(b, a)
    BY <1>2, <1>4, <1>6 DEF LessFree, Holds
  <1>9. \A a \in Int : Holds(b, a) => Covers(list, a)
    <2> SUFFICES ASSUME NEW a \in Int, Holds(b, a) PROVE Covers(list, a)
      OBVIOUS
    <2>1. c.at <= a /\ a < End(c)
      BY <1>3, <1>4, <1>5, <1>6 DEF Holds
    <2>2. QED
      BY <1>3, <2>1 DEF Covers, c
  <1>10. /\ NoneLost(list, L, n) /\ NoneFreeTwice(list, L) /\ NoneHeldTwice(L)
         /\ \A d \in L : d.at \in Nat /\ d.size \in Nat /\ FitsIn(d, n)
    BY DEF Tiles
  <1>11. NoneLost(new, L \cup {b}, n)
    BY <1>8, <1>10 DEF NoneLost
  <1>12. NoneFreeTwice(new, L \cup {b})
    BY <1>8, <1>10 DEF NoneFreeTwice
  <1>13. NoneHeldTwice(L \cup {b})
    BY <1>9, <1>10 DEF NoneHeldTwice, NoneFreeTwice
  <1>14. b \notin L
    <2>1. Holds(b, c.at) /\ c.at \in Int
      BY <1>3, <1>4, <1>5, <1>6 DEF Holds, NodeSize
    <2>2. QED
      BY <1>9, <1>10, <2>1 DEF NoneFreeTwice
  <1>15. Tiles(new, L \cup {b}, n)
    BY <1>2, <1>3, <1>4, <1>5, <1>7, <1>10, <1>11, <1>12, <1>13 DEF Tiles
  <1>16. QED
    BY <1>5, <1>14, <1>15 DEF new

(* ms_free_list_free *)
LEMMA GiveBackTiles ==
  ASSUME NEW n \in Nat, NEW list, NEW L, Tiles(list, L, n), NEW b \in L
  PROVE  /\ Tiles(GiveBack(list, b.at, b.size, b.size), L \ {b}, n)
         /\ AlsoFree(GiveBack(list, b.at, b.size, b.size), list, b)
  <1> DEFINE new == GiveBack(list, b.at, b.size, b.size)
             c == Chunk(b.at, b.size)
  <1>1. IsFreeList(list, n, {})
    BY DEF Tiles
  <1>2. /\ b.at \in Nat /\ b.size \in Nat /\ End(b) = b.at + b.size /\ b.size >= 24
        /\ FitsIn(b, n)
    BY BlockTypes
  <1>3. c.at = b.at /\ c.size = b.size /\ End(c) = End(b) /\ FitsIn(c, n)
    BY <1>2 DEF Chunk, End, FitsIn
  <1>4. NoneLost(list, L, n) /\ NoneFreeTwice(list, L) /\ NoneHeldTwice(L)
    BY DEF Tiles
  <1>5. NoneFree(list, b.at, b.at + b.size)
    BY <1>2, <1>4 DEF NoneFree, NoneFreeTwice, Holds
  <1> HIDE DEF new
  <1>7. IsFreeList(new, n, {}) /\ AlsoFree(new, list, c)
    BY <1>1, <1>2, <1>3, <1>5, GiveBackKeeps DEF new
  <1> HIDE DEF c
  <1>8. AlsoFree(new, list, b)
    BY <1>3, <1>7 DEF AlsoFree
  <1>9. \A a \in Int : Covers(new, a) <=> Covers(list, a) \/ Holds(b, a)
    BY <1>8 DEF AlsoFree, Holds
  <1>10. NoneLost(new, L \ {b}, n)
    BY <1>4, <1>9 DEF NoneLost
  <1>11. NoneFreeTwice(new, L \ {b})
    BY <1>4, <1>9 DEF NoneFreeTwice, NoneHeldTwice
  <1>12. NoneHeldTwice(L \ {b})
    BY <1>4 DEF NoneHeldTwice
  <1>13. QED
    BY <1>7, <1>8, <1>10, <1>11, <1>12 DEF Tiles, new

(* A byte is in one chunk and in no block, or the other way around. *)
LEMMA TiledOnce ==
  ASSUME NEW n \in Nat, NEW list, NEW L, Tiles(list, L, n), NEW a \in 0 .. n - 1
  PROVE  LET free == {k \in 1 .. Len(list) : list[k].at <= a /\ a < End(list[k])}
             used == {b \in L : b.at <= a /\ a < b.at + b.size}
         IN \/ used = {} /\ \E k \in 1 .. Len(list) : free = {k}
            \/ free = {} /\ \E b \in L : used = {b}
  <1> DEFINE m == Len(list)
             free == {k \in 1 .. m : list[k].at <= a /\ a < End(list[k])}
             used == {b \in L : b.at <= a /\ a < b.at + b.size}
  <1>1. IsFreeList(list, n, {}) /\ a \in Int
    BY DEF Tiles
  <1>2. /\ m = Len(list) /\ m \in Nat
        /\ \A k \in 1 .. m : list[k].at \in Nat /\ End(list[k]) \in Nat
    <2>1. \A k \in 1 .. Len(list) : End(list[k]) \in Nat
      <3> SUFFICES ASSUME NEW k \in 1 .. Len(list) PROVE End(list[k]) \in Nat
        OBVIOUS
      <3>1. list[k].at \in Nat /\ list[k].size \in Nat /\ End(list[k]) = list[k].at + list[k].size
        BY <1>1, ChunksOf
      <3>2. QED
        BY <3>1
    <2>2. QED
      BY <1>1, <2>1, ChunksOf
  <1>3. \A j, k \in 1 .. m : j < k => End(list[j]) < list[k].at
    BY <1>1, GapsBetween
  <1> HIDE DEF m
  <1>4. \A b \in L : b \in used <=> Holds(b, a)
    <2> SUFFICES ASSUME NEW b \in L PROVE b \in used <=> Holds(b, a)
      OBVIOUS
    <2>1. End(b) = b.at + b.size
      BY BlockTypes
    <2>2. QED
      BY <2>1 DEF Holds
  <1>5. used \subseteq L
    OBVIOUS
  <1> HIDE DEF used
  <1>6. /\ Covers(list, a) \/ \E b \in L : Holds(b, a)
        /\ \A b \in L : Holds(b, a) => ~ Covers(list, a)
        /\ \A b, c \in L : Holds(b, a) /\ Holds(c, a) => b = c
    BY <1>1 DEF Tiles, NoneLost, NoneFreeTwice, NoneHeldTwice
  <1>7. CASE Covers(list, a)
    <2>1. used = {}
      BY <1>4, <1>5, <1>6, <1>7
    <2>2. PICK k \in 1 .. m : list[k].at <= a /\ a < End(list[k])
      BY <1>2, <1>7 DEF Covers
    <2>3. \A j \in 1 .. m : list[j].at <= a /\ a < End(list[j]) => j = k
      <3> SUFFICES ASSUME NEW j \in 1 .. m, list[j].at <= a, a < End(list[j]), j # k
                   PROVE  FALSE
        OBVIOUS
      <3>1. j < k \/ k < j
        BY <1>2
      <3>2. CASE j < k
        <4>1. End(list[j]) < list[k].at
          BY <1>3, <3>2
        <4>2. list[k].at <= a /\ list[k].at \in Nat /\ End(list[j]) \in Nat
          BY <1>2, <2>2
        <4>3. QED
          BY <1>1, <4>1, <4>2
      <3>3. CASE k < j
        <4>1. End(list[k]) < list[j].at
          BY <1>3, <3>3
        <4>2. a < End(list[k]) /\ list[j].at \in Nat /\ End(list[k]) \in Nat
          BY <1>2, <2>2
        <4>3. QED
          BY <1>1, <4>1, <4>2
      <3>4. QED
        BY <3>1, <3>2, <3>3
    <2>4. free = {k}
      BY <2>2, <2>3
    <2>5. QED
      BY <1>2, <2>1, <2>2, <2>4 DEF used
  <1>8. CASE ~ Covers(list, a)
    <2>1. free = {}
      BY <1>2, <1>8 DEF Covers
    <2>2. PICK b \in L : Holds(b, a)
      BY <1>6, <1>8
    <2>3. used = {b}
      BY <1>4, <1>5, <1>6, <2>2
    <2>4. QED
      BY <1>2, <2>1, <2>2, <2>3 DEF used
  <1>9. QED
    BY <1>7, <1>8

-----------------------------------------------------------------------------
(* The heap. *)

LEMMA HeapSizes ==
  /\ HeapSize \in Nat /\ HeapSize >= 24
  /\ PageSize \in Nat \ {0} /\ PageSize >= 24 /\ HeapSize % PageSize = 0
  /\ Threshold \in Nat /\ Threshold >= 24 + PageSize
  /\ \A count \in Counts : count \in Nat \ {0}
  /\ \A a \in Alignments : a \in Nat \ {0} /\ a % 8 = 0
  BY HeapAssumption DEF HeapAssumption, NodeSize

-----------------------------------------------------------------------------
(* Pages. *)

(* Every address from from up to to is in one of the pages. *)
InPages(pages, from, to) ==
  \A a \in Nat : from <= a /\ a < to => a \div PageSize \in pages

LEMMA PageOf ==
  ASSUME NEW a \in Int
  PROVE  /\ a \div PageSize \in Int
         /\ a % PageSize \in 0 .. PageSize - 1
         /\ a = PageSize * (a \div PageSize) + (a % PageSize)
  BY HeapSizes, DivMod

LEMMA PageTimes ==
  ASSUME NEW q \in Int, NEW r \in Int, q <= r
  PROVE  /\ PageSize * q \in Int /\ PageSize * r \in Int
         /\ PageSize * q <= PageSize * r
         /\ PageSize * (q + 1) = PageSize * q + PageSize
  <1>1. PageSize \in Nat
    BY HeapSizes
  <1>2. PageSize * q \in Int /\ PageSize * r \in Int
    BY <1>1
  <1>3. PageSize * q <= PageSize * r
    BY <1>1
  <1>4. PageSize * (q + 1) = PageSize * q + PageSize
    BY <1>1
  <1>5. QED
    BY <1>2, <1>3, <1>4

(* An address in front of the page of another lies in an earlier page. *)
LEMMA PageStart ==
  ASSUME NEW a \in Int, NEW b \in Int, NEW t \in Int, t = b % PageSize, a < b - t
  PROVE  a \div PageSize < b \div PageSize
  <1> DEFINE q == a \div PageSize
             r == b \div PageSize
             x == PageSize * q
             y == PageSize * r
  <1>1. q \in Int /\ a % PageSize \in 0 .. PageSize - 1 /\ a = x + (a % PageSize)
    BY PageOf
  <1>2. r \in Int /\ t \in 0 .. PageSize - 1 /\ b = y + t
    BY PageOf
  <1> HIDE DEF q, r
  <1>3. ASSUME r <= q PROVE FALSE
    <2>1. x \in Int /\ y \in Int /\ y <= x
      BY <1>1, <1>2, <1>3, PageTimes
    <2> HIDE DEF x, y
    <2>2. PageSize \in Nat
      BY HeapSizes
    <2>3. QED
      BY <1>1, <1>2, <2>1, <2>2
  <1>4. QED
    BY <1>1, <1>2, <1>3 DEF q, r

LEMMA PageBehind ==
  ASSUME NEW a \in Int, NEW b \in Int, a + PageSize <= b
  PROVE  a \div PageSize < b \div PageSize
  <1> DEFINE t == b % PageSize
  <1>1. t \in 0 .. PageSize - 1 /\ PageSize \in Nat
    BY PageOf, HeapSizes
  <1> HIDE DEF t
  <1>2. a < b - t
    BY <1>1
  <1>3. t \in Int /\ t = b % PageSize
    BY <1>1 DEF t
  <1>4. QED
    BY <1>2, <1>3, PageStart

LEMMA PageOrder ==
  ASSUME NEW a \in Int, NEW b \in Int, a <= b
  PROVE  a \div PageSize <= b \div PageSize
  <1> DEFINE q == a \div PageSize
             r == b \div PageSize
             x == PageSize * q
             y == PageSize * r
  <1>1. q \in Int /\ a % PageSize \in 0 .. PageSize - 1 /\ a = x + (a % PageSize)
    BY PageOf
  <1>2. r \in Int /\ b % PageSize \in 0 .. PageSize - 1 /\ b = y + (b % PageSize)
    BY PageOf
  <1> HIDE DEF q, r
  <1>3. ASSUME r + 1 <= q PROVE FALSE
    <2>1. x \in Int /\ PageSize * (r + 1) <= x
      BY <1>1, <1>2, <1>3, PageTimes
    <2>2. y \in Int /\ PageSize * (r + 1) = y + PageSize
      BY <1>2, PageTimes
    <2> HIDE DEF x, y
    <2>3. PageSize \in Nat
      BY HeapSizes
    <2>4. QED
      BY <1>1, <1>2, <2>1, <2>2, <2>3
  <1>4. QED
    BY <1>1, <1>2, <1>3 DEF q, r

(* A gap shorter than a page has no page of its own. *)
LEMMA PageBetween ==
  ASSUME NEW x \in Int, NEW a \in Int, NEW y \in Int, x <= a, a <= y, y - x <= PageSize
  PROVE  a \div PageSize \in {x \div PageSize, y \div PageSize}
  <1> DEFINE p == x \div PageSize
             q == a \div PageSize
             r == y \div PageSize
  <1>1. /\ p \in Int /\ x = PageSize * p + (x % PageSize) /\ x % PageSize \in 0 .. PageSize - 1
        /\ r \in Int /\ y = PageSize * r + (y % PageSize) /\ y % PageSize \in 0 .. PageSize - 1
        /\ q \in Int
    BY PageOf
  <1>2. p <= q /\ q <= r
    BY PageOrder
  <1>3. PageSize \in Nat
    BY HeapSizes
  <1> HIDE DEF p, q, r
  <1>4. ASSUME p + 1 + 1 <= r PROVE FALSE
    <2>1. PageSize * (p + 1 + 1) <= PageSize * r
      BY <1>1, <1>4, PageTimes
    <2>2. p + 1 \in Int
      BY <1>1
    <2>3. PageSize * (p + 1 + 1) = PageSize * (p + 1) + PageSize
      BY <2>2, PageTimes
    <2>4. PageSize * (p + 1) = PageSize * p + PageSize
      BY <1>1, PageTimes
    <2>5. PageSize * p \in Int /\ PageSize * r \in Int
      BY <1>1, PageTimes
    <2>6. QED
      BY <1>1, <1>3, <2>1, <2>3, <2>4, <2>5
  <1>5. q = p \/ q = r
    BY <1>1, <1>2, <1>4
  <1>6. QED
    BY <1>5 DEF p, q, r

(* Up to the end of a page neither. *)
LEMMA PageToEnd ==
  ASSUME NEW x \in Int, NEW a \in Int, NEW y \in Int, x <= a, a < y, y - x <= PageSize,
         y % PageSize = 0
  PROVE  a \div PageSize = x \div PageSize
  <1>1. a \div PageSize \in {x \div PageSize, y \div PageSize}
    BY PageBetween
  <1>2. 0 = y % PageSize /\ 0 \in Int /\ a < y - 0
    OBVIOUS
  <1>3. a \div PageSize < y \div PageSize
    BY <1>2, PageStart
  <1>4. a \div PageSize # y \div PageSize
    BY <1>3, PageOf
  <1>5. QED
    BY <1>1, <1>4

LEMMA TouchedIn ==
  ASSUME NEW from \in Int, NEW to \in Int
  PROVE  InPages(Touched(from, to), from, to)
  <1> SUFFICES ASSUME NEW a \in Nat, from <= a, a < to
               PROVE  a \div PageSize \in Touched(from, to)
    BY DEF InPages
  <1>1. a \in Larger(from, 0) .. to - 1
    BY DEF Larger
  <1>2. QED
    BY <1>1 DEF Touched

LEMMA TouchedBehind ==
  ASSUME NEW from \in Nat, NEW to \in Int, NEW page \in Touched(from, to)
  PROVE  page \in Int /\ from \div PageSize <= page
  <1>1. Larger(from, 0) = from
    BY DEF Larger
  <1>2. PICK a \in from .. to - 1 : page = a \div PageSize
    BY <1>1 DEF Touched
  <1>3. QED
    BY <1>2, PageOrder, PageOf

LEMMA TouchedOnly ==
  ASSUME NEW from \in Nat, NEW to \in Int, NEW pages, InPages(pages, from, to)
  PROVE  Touched(from, to) \subseteq pages
  <1>1. Larger(from, 0) = from
    BY DEF Larger
  <1>2. QED
    BY <1>1 DEF Touched, InPages

(* What lies in earlier pages is still there when later ones are given back. *)
LEMMA StillIn ==
  ASSUME NEW pages, NEW z \in Nat, NEW now \in Int, NEW from \in Int, NEW to \in Int,
         InPages(pages, from, to),
         \A a \in Nat : from <= a /\ a < to => a \div PageSize < z \div PageSize
  PROVE  InPages(pages \ Touched(z, now), from, to)
  <1> SUFFICES ASSUME NEW a \in Nat, from <= a, a < to
               PROVE  a \div PageSize \in pages \ Touched(z, now)
    BY DEF InPages
  <1>1. a \div PageSize \in pages /\ a \div PageSize < z \div PageSize
    BY DEF InPages
  <1>2. a \div PageSize \in Int /\ z \div PageSize \in Int
    BY PageOf
  <1>3. ASSUME a \div PageSize \in Touched(z, now) PROVE FALSE
    <2>1. z \div PageSize <= a \div PageSize
      BY <1>3, TouchedBehind
    <2>2. QED
      BY <1>1, <1>2, <2>1
  <1>4. QED
    BY <1>1, <1>3

-----------------------------------------------------------------------------
(* The heap's invariant. *)

BlockType == [at : Nat, size : Nat, padding : Nat, alignment : Nat \ {0}, count : Nat]

BlockOk(b) ==
  /\ b \in BlockType
  /\ b.alignment % 8 = 0
  /\ UserPtr(b) % b.alignment = 0
  /\ b.padding + HeaderSize + b.count <= b.size

(***************************************************************************)
(* What is in use is in committed pages, and so is all that lies before    *)
(* committed_size: no memory is committed a second time, or counted as     *)
(* committed that is not.                                                  *)
(***************************************************************************)
HeapInv(list, L, upTo, pages) ==
  /\ Tiles(list, L, HeapSize)
  /\ \A b \in L : BlockOk(b) /\ InPages(pages, b.at, End(b))
  /\ \A k \in 1 .. Len(list) : InPages(pages, list[k].at, list[k].at + NodeSize)
  /\ upTo \in Int
  /\ InPages(pages, 0, upTo)

HInv ==
  /\ committed \in Int
  /\ astray \in BOOLEAN
  /\ ~ astray => HeapInv(chunks, live, committed, mapped)

(* compute_free_list_node_size and the padding of a user's pointer. *)
LEMMA AlignedUp ==
  ASSUME NEW n \in Nat, NEW m \in Nat \ {0}
  PROVE  /\ AlignUp(n, m) \in Nat /\ AlignUp(n, m) % m = 0
         /\ n <= AlignUp(n, m) /\ AlignUp(n, m) <= n + m - 1
  <1> DEFINE x == n + m - 1
             q == x \div m
             y == m * q
  <1>1. x \in Int
    OBVIOUS
  <1> HIDE DEF x
  <1>2. q \in Int /\ x % m \in 0 .. m - 1 /\ x = y + (x % m)
    BY <1>1, DivMod
  <1>3. AlignUp(n, m) = q * m
    BY DEF AlignUp, x
  <1> HIDE DEF q
  <1>4. y \in Int /\ q * m = y
    BY <1>2
  <1>5. y % m = 0
    <2>1. 0 \in 0 .. m - 1 /\ y = m * q + 0
      BY <1>4
    <2> HIDE DEF y
    <2>2. QED
      BY <1>2, <1>4, <2>1, ModUnique
  <1> HIDE DEF y
  <1>6. n <= y /\ y <= n + m - 1
    BY <1>2, <1>4 DEF x
  <1>7. QED
    BY <1>3, <1>4, <1>5, <1>6

LEMMA ByEight ==
  ASSUME NEW n \in Nat, NEW m \in Nat \ {0}, m % 8 = 0, n % m = 0
  PROVE  n % 8 = 0 /\ m >= 8
  <1>1. (n % m) % 8 = n % 8
    <2>1. 8 \in Nat \ {0} /\ n \in Int
      OBVIOUS
    <2>2. QED
      BY <2>1, ModOfMod
  <1>2. QED
    BY <1>1

LEMMA TotalIs ==
  ASSUME NEW count \in Nat \ {0}, NEW m \in Nat \ {0}, m % 8 = 0
  PROVE  LET total == TotalSize(count, m) IN
           /\ total \in Nat /\ total % 8 = 0 /\ total >= NodeSize
           /\ count + HeaderSize + m - 1 <= total
  <1> DEFINE n == count + 16 + m - 1
             total == AlignUp(n, m)
  <1>1. n \in Nat
    OBVIOUS
  <1> HIDE DEF n
  <1>2. total \in Nat /\ total % m = 0 /\ n <= total
    BY <1>1, AlignedUp
  <1>3. TotalSize(count, m) = total
    BY DEF TotalSize, HeaderSize, n
  <1> HIDE DEF total
  <1>4. total % 8 = 0 /\ m >= 8
    BY <1>2, ByEight
  <1>5. total >= 24 /\ count + 16 + m - 1 <= total
    BY <1>1, <1>2, <1>4 DEF n
  <1>6. QED
    BY <1>2, <1>3, <1>4, <1>5 DEF NodeSize, HeaderSize

LEMMA PaddingIs ==
  ASSUME NEW at \in Nat, NEW m \in Nat \ {0}
  PROVE  /\ Padding(at, m) \in 0 .. m - 1
         /\ (at + Padding(at, m) + HeaderSize) % m = 0
  <1> DEFINE n == at + 16
             u == AlignUp(n, m)
  <1>1. n \in Nat
    OBVIOUS
  <1>2. Padding(at, m) = u - n
    BY DEF Padding, HeaderSize
  <1> HIDE DEF n
  <1>3. u \in Nat /\ u % m = 0 /\ n <= u /\ u <= n + m - 1
    BY <1>1, AlignedUp
  <1> HIDE DEF u
  <1>4. at + (u - n) + 16 = u
    BY <1>1, <1>3 DEF n
  <1>5. QED
    BY <1>1, <1>2, <1>3, <1>4 DEF HeaderSize

LEMMA InitHInv == Init => HInv
  <1> SUFFICES ASSUME Init PROVE HInv
    OBVIOUS
  <1>1. /\ chunks = <<Chunk(0, HeapSize)>> /\ committed = NodeSize /\ live = {}
        /\ mapped = Touched(0, NodeSize) /\ astray = FALSE
    BY DEF Init
  <1>2. Tiles(chunks, live, HeapSize) /\ chunks # << >> /\ Len(chunks) = 1 /\ chunks[1].at = 0
    BY <1>1, TilesAtFirst, HeapSizes
  <1>3. InPages(mapped, 0, NodeSize)
    BY <1>1, TouchedIn DEF NodeSize
  <1>4. \A k \in 1 .. 1 : k = 1
    OBVIOUS
  <1>5. \A k \in 1 .. Len(chunks) : InPages(mapped, chunks[k].at, chunks[k].at + NodeSize)
    <2>1. 0 + NodeSize = NodeSize
      BY DEF NodeSize
    <2>2. QED
      BY <1>2, <1>3, <1>4, <2>1
  <1>6. committed \in Int
    BY <1>1 DEF NodeSize
  <1>7. HeapInv(chunks, live, committed, mapped)
    BY <1>1, <1>2, <1>3, <1>5, <1>6 DEF HeapInv
  <1>8. QED
    BY <1>1, <1>6, <1>7 DEF HInv

(* The heap as it is, until it goes astray. *)
LEMMA HeapNow ==
  ASSUME HInv, ~ astray
  PROVE  /\ HeapInv(chunks, live, committed, mapped)
         /\ Tiles(chunks, live, HeapSize) /\ IsFreeList(chunks, HeapSize, {})
         /\ HeapSize \in Nat /\ committed \in Int
         /\ \A b \in live : BlockOk(b)
  BY HeapSizes DEF HInv, HeapInv, Tiles

(* No chunk begins where one ends. *)
LEMMA EndHeld ==
  ASSUME NEW n \in Nat, NEW list, IsFreeList(list, n, {}), NEW k \in 1 .. Len(list)
  PROVE  ~ Covers(list, End(list[k]))
  <1> DEFINE m == Len(list)
  <1>1. /\ m = Len(list) /\ m \in Nat /\ k \in 1 .. m
        /\ \A i \in 1 .. m : /\ list[i].at \in Nat /\ list[i].size \in Nat
                             /\ End(list[i]) = list[i].at + list[i].size
    BY ChunksOf
  <1>2. \A i, j \in 1 .. m : i < j => End(list[i]) < list[j].at
    BY GapsBetween
  <1> HIDE DEF m
  <1> SUFFICES ASSUME NEW i \in 1 .. m, list[i].at <= End(list[k]), End(list[k]) < End(list[i])
               PROVE  FALSE
    BY <1>1 DEF Covers
  <1>3. CASE i < k
    <2>1. End(list[i]) < list[k].at
      BY <1>1, <1>2, <1>3
    <2>2. QED
      BY <1>1, <2>1
  <1>4. CASE i > k
    <2>1. End(list[k]) < list[i].at
      BY <1>1, <1>2, <1>4
    <2>2. QED
      BY <1>1, <2>1
  <1>5. CASE i = k
    BY <1>1, <1>5
  <1>6. QED
    BY <1>1, <1>3, <1>4, <1>5

(* What follows a chunk is a block. *)
LEMMA BehindChunk ==
  ASSUME NEW list, NEW L, NEW upTo, NEW pages, HeapInv(list, L, upTo, pages),
         NEW k \in 1 .. Len(list), End(list[k]) < HeapSize
  PROVE  \E b \in L : b.at = End(list[k])
  <1> DEFINE a == End(list[k])
  <1>1. IsFreeList(list, HeapSize, {}) /\ HeapSize \in Nat
    BY HeapSizes DEF HeapInv, Tiles
  <1>2. /\ list[k].at \in Nat /\ list[k].size >= 24 /\ list[k].size \in Nat
        /\ End(list[k]) = list[k].at + list[k].size
    BY <1>1, ChunksOf
  <1>3. a \in Nat /\ a < HeapSize /\ list[k].at <= a - 1 /\ a - 1 < End(list[k])
    BY <1>2
  <1>4. ~ Covers(list, a)
    BY <1>1, EndHeld
  <1>5. Covers(list, a - 1)
    BY <1>3 DEF Covers
  <1> HIDE DEF a
  <1>6. PICK b \in L : Holds(b, a)
    BY <1>1, <1>3, <1>4 DEF HeapInv, Tiles, NoneLost
  <1>7. ~ Holds(b, a - 1)
    <2>1. a - 1 \in Int
      BY <1>3
    <2>2. QED
      BY <1>5, <2>1 DEF HeapInv, Tiles, NoneFreeTwice
  <1>8. b.at \in Nat /\ End(b) = b.at + b.size /\ b.size \in Nat
    BY <1>1, BlockTypes DEF HeapInv
  <1>9. b.at = a
    BY <1>3, <1>6, <1>7, <1>8 DEF Holds
  <1>10. QED
    BY <1>9 DEF a

(* The chunk k serves a request, which takes total bytes with its header. *)
Serving(list, k, count, m, total) == total = TotalSize(count, m) /\ HasRoom(list, k, total)

(* What is committed up to upTo is committed up to upTo1 then. *)
CommitsTo(list, k, total, upTo, upTo1) ==
  upTo1 = Larger(upTo, list[k].at + total + (IF IsSplit(list[k], total) THEN NodeSize ELSE 0))

(* What is taken of a chunk of the heap, and how far that commits memory. *)
LEMMA RoomIs ==
  ASSUME NEW list, NEW L, NEW upTo, NEW pages, HeapInv(list, L, upTo, pages),
         NEW total \in Nat, total >= NodeSize, NEW k, HasRoom(list, k, total),
         NEW upTo1, CommitsTo(list, k, total, upTo, upTo1)
  PROVE  /\ k \in 1 .. Len(list) /\ list[k].at \in Nat /\ list[k].size \in Nat
         /\ list[k].at % 8 = 0
         /\ End(list[k]) = list[k].at + list[k].size /\ End(list[k]) <= HeapSize
         /\ IsSplit(list[k], total) => Taken(list[k], total) = total
         /\ ~ IsSplit(list[k], total) => /\ Taken(list[k], total) = list[k].size
                                         /\ list[k].size < total + 24
         /\ Taken(list[k], total) \in Nat /\ total <= Taken(list[k], total)
         /\ upTo \in Int /\ upTo1 \in Int /\ upTo <= upTo1 /\ list[k].at + total <= upTo1
         /\ IsSplit(list[k], total) => list[k].at + total + 24 <= upTo1
  <1> DEFINE c == list[k]
             taken == Taken(c, total)
  <1>1. IsFreeList(list, HeapSize, {}) /\ HeapSize \in Nat /\ upTo \in Int
    BY HeapSizes DEF HeapInv, Tiles
  <1>2. /\ k \in 1 .. Len(list) /\ c.at \in Nat /\ c.size \in Nat /\ End(c) = c.at + c.size
        /\ FitsIn(c, HeapSize) /\ c.size >= total /\ End(c) <= HeapSize
    BY <1>1, ChunksOf DEF HasRoom
  <1>3. upTo1 = Larger(upTo, c.at + total + (IF IsSplit(c, total) THEN NodeSize ELSE 0))
    BY DEF CommitsTo
  <1> HIDE DEF c, taken
  <1>4. /\ IsSplit(c, total) => taken = total
        /\ ~ IsSplit(c, total) => taken = c.size /\ c.size < total + 24
        /\ taken \in Nat /\ total <= taken
    BY <1>2 DEF Taken, IsSplit, NodeSize, taken
  <1>5. /\ upTo1 \in Int /\ upTo <= upTo1 /\ c.at + total <= upTo1
        /\ IsSplit(c, total) => c.at + total + 24 <= upTo1
    <2>1. CASE IsSplit(c, total)
      <3>1. upTo1 = Larger(upTo, c.at + total + 24)
        BY <1>3, <2>1 DEF NodeSize
      <3>2. QED
        BY <1>1, <1>2, <3>1 DEF Larger
    <2>2. CASE ~ IsSplit(c, total)
      <3>1. upTo1 = Larger(upTo, c.at + total)
        BY <1>2, <1>3, <2>2
      <3>2. QED
        BY <1>1, <1>2, <2>2, <3>1 DEF Larger
    <2>3. QED
      BY <2>1, <2>2
  <1>6. c.at % 8 = 0
    BY <1>2 DEF FitsIn
  <1>7. QED
    BY <1>1, <1>2, <1>4, <1>5, <1>6 DEF c, taken

(***************************************************************************)
(* A chunk that is taken as a whole, for no node fits behind what was      *)
(* asked for, has no page of its own behind that: another block begins     *)
(* where it ends, or the heap ends there and with it a page.               *)
(***************************************************************************)
LEMMA WholeInPages ==
  ASSUME NEW list, NEW L, NEW upTo, NEW pages, HeapInv(list, L, upTo, pages),
         NEW k \in 1 .. Len(list), NEW x \in Nat, x < End(list[k]), End(list[k]) - x <= 24,
         x \div PageSize \in pages
  PROVE  InPages(pages, x, End(list[k]))
  <1> DEFINE y == End(list[k])
  <1>1. IsFreeList(list, HeapSize, {}) /\ HeapSize \in Nat
    BY HeapSizes DEF HeapInv, Tiles
  <1>2. y \in Nat /\ y <= HeapSize
    <2>1. /\ list[k].at \in Nat /\ list[k].size \in Nat
          /\ End(list[k]) = list[k].at + list[k].size /\ FitsIn(list[k], HeapSize)
      BY <1>1, ChunksOf
    <2>2. QED
      BY <2>1 DEF FitsIn
  <1>3. PageSize \in Nat /\ PageSize >= 24
    BY HeapSizes
  <1>4. x < y /\ y - x <= 24 /\ y = End(list[k])
    OBVIOUS
  <1> HIDE DEF y
  <1> SUFFICES ASSUME NEW a \in Nat, x <= a, a < y
               PROVE  a \div PageSize \in pages
    BY <1>4 DEF InPages
  <1>5. y - x <= PageSize
    BY <1>2, <1>3, <1>4
  <1>6. CASE y = HeapSize
    <2>1. y % PageSize = 0 /\ y \in Int /\ x \in Int /\ a \in Int
      BY <1>2, <1>6, HeapSizes
    <2>2. a \div PageSize = x \div PageSize
      BY <1>5, <2>1, PageToEnd
    <2>3. QED
      BY <2>2
  <1>7. CASE y < HeapSize
    <2>1. PICK b \in L : b.at = y
      BY <1>4, <1>7, BehindChunk
    <2>2. b.at \in Nat /\ b.at < End(b) /\ InPages(pages, b.at, End(b))
      BY <1>1, BlockTypes DEF HeapInv
    <2>3. y \div PageSize \in pages
      BY <2>1, <2>2 DEF InPages
    <2>4. a \div PageSize \in {x \div PageSize, y \div PageSize}
      BY <1>2, <1>5, PageBetween
    <2>5. QED
      BY <2>3, <2>4
  <1>8. QED
    BY <1>1, <1>2, <1>6, <1>7

(* ms_heap_malloc *)
LEMMA MallocKeeps ==
  ASSUME NEW list, NEW L, NEW upTo \in Nat, NEW pages, HeapInv(list, L, upTo, pages),
         NEW count \in Nat \ {0}, NEW m \in Nat \ {0}, m % 8 = 0,
         NEW k, NEW total, Serving(list, k, count, m, total),
         NEW upTo1, CommitsTo(list, k, total, upTo, upTo1)
  PROVE  /\ HeapInv(Take(list, k, total), L \cup {Block(list[k], total, count, m)}, upTo1,
                    pages \cup Touched(upTo, upTo1))
         /\ Block(list[k], total, count, m) \notin L
         /\ upTo1 \in Nat
  <1> DEFINE c == list[k]
             new == Take(list, k, total)
             b == Block(c, total, count, m)
             all == pages \cup Touched(upTo, upTo1)
             taken == Taken(c, total)
  <1>1. /\ total \in Nat /\ total % 8 = 0 /\ total >= NodeSize /\ total >= 24
        /\ count + HeaderSize + m - 1 <= total /\ HasRoom(list, k, total)
    BY TotalIs DEF NodeSize, Serving
  <1>2. Tiles(list, L, HeapSize) /\ IsFreeList(list, HeapSize, {}) /\ HeapSize \in Nat
    BY HeapSizes DEF HeapInv, Tiles
  <1>3. b.at = c.at /\ b.size = Taken(c, total)
    BY DEF Block
  <1>4. Tiles(new, L \cup {b}, HeapSize) /\ b \notin L /\ LessFree(new, list, c, total)
    <2> HIDE DEF b
    <2>1. QED
      BY <1>1, <1>2, <1>3, TakeTiles, TakeKeeps
  <1>5. /\ k \in 1 .. Len(list) /\ c.at \in Nat /\ c.size \in Nat /\ c.at % 8 = 0
        /\ End(c) = c.at + c.size /\ End(c) <= HeapSize
        /\ IsSplit(c, total) => taken = total
        /\ ~ IsSplit(c, total) => taken = c.size /\ c.size < total + 24
        /\ taken \in Nat /\ total <= taken
        /\ upTo1 \in Int /\ upTo <= upTo1 /\ c.at + total <= upTo1
        /\ IsSplit(c, total) => c.at + total + 24 <= upTo1
    BY <1>1, RoomIs
  <1>6. End(list[k]) = End(c)
    OBVIOUS
  <1>7. /\ b.at = c.at /\ b.size = taken /\ b.count = count /\ b.alignment = m
        /\ b.padding = Padding(c.at, m) /\ End(b) = c.at + taken
        /\ b \in BlockType <=> /\ c.at \in Nat /\ taken \in Nat
                              /\ Padding(c.at, m) \in Nat /\ m \in Nat \ {0} /\ count \in Nat
    BY DEF Block, End, BlockType
  <1> HIDE DEF c, new, b, taken, all
  <1>8. InPages(all, 0, upTo1)
    <2>1. InPages(pages, 0, upTo) /\ InPages(Touched(upTo, upTo1), upTo, upTo1)
      BY <1>5, TouchedIn DEF HeapInv
    <2>2. QED
      BY <1>5, <2>1 DEF InPages, all
  <1>9. \A from, to : InPages(pages, from, to) => InPages(all, from, to)
    BY DEF InPages, all
  <1>10. BlockOk(b)
    <2> DEFINE pad == Padding(c.at, m)
    <2>1. pad \in 0 .. m - 1 /\ (c.at + pad + HeaderSize) % m = 0
      BY <1>5, PaddingIs
    <2> HIDE DEF pad
    <2>2. pad \in Nat
      BY <2>1
    <2>3. b \in BlockType
      BY <1>5, <1>7, <2>2 DEF pad
    <2>4. UserPtr(b) % b.alignment = 0
      BY <1>7, <2>1 DEF UserPtr, pad
    <2>5. b.padding + HeaderSize + b.count <= b.size
      <3>1. pad + 16 + count <= taken
        BY <1>1, <1>5, <2>1, <2>2 DEF HeaderSize
      <3>2. QED
        BY <1>7, <3>1 DEF pad, HeaderSize
    <2>6. QED
      BY <1>7, <2>3, <2>4, <2>5 DEF BlockOk
  <1>11. InPages(all, b.at, End(b))
    <2>1. InPages(all, c.at, c.at + total)
      <3>1. c.at \in Nat /\ total \in Nat /\ upTo1 \in Int /\ c.at + total <= upTo1
        BY <1>1, <1>5
      <3>2. QED
        BY <1>8, <3>1 DEF InPages
    <2>2. CASE IsSplit(c, total)
      BY <1>5, <1>7, <2>1, <2>2
    <2>3. CASE ~ IsSplit(c, total)
      <3> DEFINE x == c.at + total - 1
      <3>1. x \in Nat /\ c.at <= x /\ x < c.at + total /\ x < End(c) /\ End(c) - x <= 24
        <4>1. /\ c.at \in Nat /\ c.size \in Nat /\ total \in Nat /\ total >= 24
              /\ total <= c.size /\ c.size < total + 24 /\ End(c) = c.at + c.size
          BY <1>1, <1>5, <2>3
        <4>2. QED
          BY <4>1
      <3> HIDE DEF x
      <3>2. x \div PageSize \in all
        BY <2>1, <3>1 DEF InPages
      <3>3. HeapInv(list, L, upTo, all)
        BY <1>9 DEF HeapInv
      <3>4. InPages(all, x, End(c))
        BY <1>5, <1>6, <3>1, <3>2, <3>3, WholeInPages
      <3>5. InPages(all, c.at, End(c))
        <4>1. c.at \in Nat /\ total \in Nat /\ End(c) \in Int
          BY <1>1, <1>5
        <4>2. QED
          BY <2>1, <3>1, <3>4, <4>1 DEF InPages
      <3>6. QED
        BY <1>5, <1>7, <2>3, <3>5
    <2>4. QED
      BY <2>2, <2>3
  <1>12. ASSUME NEW i \in 1 .. Len(new) PROVE InPages(all, new[i].at, new[i].at + NodeSize)
    <2>1. CASE \E j \in 1 .. Len(list) : new[i].at = list[j].at
      BY <1>9, <2>1 DEF HeapInv
    <2>2. CASE IsSplit(c, total) /\ new[i].at = c.at + total
      BY <1>1, <1>5, <1>8, <2>2 DEF InPages, NodeSize
    <2>3. QED
      BY <1>4, <2>1, <2>2 DEF LessFree
  <1>13. \A d \in L : BlockOk(d) /\ InPages(all, d.at, End(d))
    BY <1>9 DEF HeapInv
  <1>14. HeapInv(new, L \cup {b}, upTo1, all)
    BY <1>4, <1>5, <1>8, <1>10, <1>11, <1>12, <1>13 DEF HeapInv
  <1>15. upTo1 \in Nat
    BY <1>5
  <1>16. QED
    BY <1>4, <1>14, <1>15 DEF new, b, c, all

(* The blocks that are left lie in front of the last chunk of the list. *)
LEMMA BeforeLast ==
  ASSUME NEW list, NEW L, Tiles(list, L, HeapSize), NEW m, m = Len(list), m \in 1 .. Len(list),
         End(list[m]) >= HeapSize
  PROVE  /\ \A d \in L : End(d) <= list[m].at
         /\ \A k \in 1 .. Len(list) : list[k].at + 24 <= list[m].at \/ k = m
         /\ list[m].at \in Nat
  <1> DEFINE c == list[m]
  <1>1. IsFreeList(list, HeapSize, {}) /\ HeapSize \in Nat
    BY HeapSizes DEF Tiles
  <1>2. \A k \in 1 .. Len(list) : /\ list[k].at \in Nat /\ list[k].size \in Nat /\ list[k].size >= 24
                                  /\ End(list[k]) = list[k].at + list[k].size
    BY <1>1, ChunksOf
  <1>3. ASSUME NEW d \in L PROVE End(d) <= c.at
    <2>1. /\ d.at \in Nat /\ d.size \in Nat /\ d.size >= 24 /\ End(d) = d.at + d.size
          /\ End(d) <= HeapSize
      BY <1>1, BlockTypes
    <2>2. c.at \in Nat /\ End(c) \in Int /\ End(c) >= HeapSize
      BY <1>2
    <2>3. \A a \in Int : Holds(d, a) => ~ (c.at <= a /\ a < End(c))
      BY DEF Tiles, NoneFreeTwice, Covers
    <2> HIDE DEF c
    <2>4. ASSUME c.at < End(d) PROVE FALSE
      <3> DEFINE a == End(d) - 1
      <3>1. a \in Int /\ d.at <= a /\ a < End(d) /\ c.at <= a /\ a < End(c)
        BY <1>1, <2>1, <2>2, <2>4
      <3> HIDE DEF a
      <3>2. QED
        BY <2>3, <3>1 DEF Holds
    <2>5. QED
      BY <2>1, <2>2, <2>4
  <1>4. ASSUME NEW k \in 1 .. Len(list), k # m PROVE list[k].at + 24 <= c.at
    <2>1. Len(list) \in Nat
      BY <1>1, ChunksOf
    <2>2. k < m
      BY <1>4, <2>1
    <2>3. End(list[k]) < list[m].at
      BY <1>1, <2>2, GapsBetween
    <2>4. QED
      BY <1>2, <2>3
  <1>5. QED
    BY <1>2, <1>3, <1>4

(***************************************************************************)
(* What a free decommits is in no page of what is still used: it begins    *)
(* more than a page behind the freed chunk's node, and nothing follows     *)
(* that.                                                                   *)
(***************************************************************************)
LEMMA ExtraUnused ==
  ASSUME NEW new, NEW L, Tiles(new, L, HeapSize), new # << >>,
         NEW at \in Nat, NEW now \in Int, NEW extra, extra = Extra(new, at, now), extra > 0,
         ~ ReturnsTooMuch(new, now, extra)
  PROVE  /\ extra \in Nat /\ now - extra \in Nat
         /\ \A d \in L : End(d) + PageSize <= now - extra
         /\ \A k \in 1 .. Len(new) : new[k].at + NodeSize + PageSize <= now - extra
         /\ (now - extra) % PageSize <= extra
  <1> DEFINE m == Len(new)
             c == new[m]
  <1>1. IsFreeList(new, HeapSize, {}) /\ HeapSize \in Nat
    BY HeapSizes DEF Tiles
  <1>2. m \in 1 .. Len(new) /\ m = Len(new) /\ Last(new) = c
    <2>1. m \in Nat /\ new \in Seq(ChunkType)
      BY <1>1, ChunksOf DEF IsFreeList
    <2>2. m # 0
      BY <2>1, EmptySeq
    <2>3. QED
      BY <2>1, <2>2 DEF Last
  <1>3. c.at \in Nat /\ End(c) \in Int
    BY <1>1, <1>2, ChunksOf
  <1>4. c.at <= at /\ now > at + Threshold /\ extra = now - at - Threshold
    <2>1. extra \in {0, now - at - Threshold}
      BY DEF Extra
    <2>2. 0 > 0 => FALSE
      OBVIOUS
    <2>3. c.at <= at /\ now > at + Threshold
      BY <1>2, <2>2 DEF Extra
    <2>4. QED
      BY <1>2, <2>2, <2>3, <2>1
  <1>5. End(c) >= HeapSize /\ ~ ((now - extra) % PageSize > extra)
    BY <1>1, <1>2, <1>3 DEF ReturnsTooMuch
  <1>6. /\ \A d \in L : End(d) <= c.at
        /\ \A k \in 1 .. Len(new) : new[k].at + 24 <= c.at \/ k = m
    BY <1>2, <1>5, BeforeLast
  <1>7. Threshold \in Nat /\ Threshold >= 24 + PageSize /\ PageSize \in Nat
    BY HeapSizes
  <1>8. now - extra = at + Threshold /\ extra \in Nat
    BY <1>4, <1>7
  <1>9. \A d \in L : End(d) \in Int
    BY <1>1, BlockTypes
  <1>10. \A k \in 1 .. Len(new) : new[k].at \in Nat
    BY <1>1, ChunksOf
  <1>11. (now - extra) % PageSize \in Int
    BY <1>7, <1>8, PageOf
  <1>12. (now - extra) % PageSize <= extra
    BY <1>5, <1>8, <1>11
  <1> HIDE DEF c, m
  <1>13. \A d \in L : End(d) + PageSize <= at + Threshold
    BY <1>3, <1>4, <1>6, <1>7, <1>9
  <1>14. ASSUME NEW k \in 1 .. Len(new) PROVE new[k].at + NodeSize + PageSize <= at + Threshold
    <2>1. new[k].at <= at
      BY <1>3, <1>4, <1>6, <1>10 DEF c
    <2>2. QED
      BY <1>7, <1>10, <2>1 DEF NodeSize
  <1>15. QED
    BY <1>7, <1>8, <1>12, <1>13, <1>14

(* ms_heap_free *)
LEMMA FreeKeeps ==
  ASSUME NEW list, NEW L, NEW upTo \in Nat, NEW pages, HeapInv(list, L, upTo, pages),
         NEW b \in L,
         NEW new, new = GiveBack(list, b.at, b.size, b.size),
         NEW now, now = Larger(upTo, b.at + NodeSize),
         NEW extra, extra = Extra(new, b.at, now),
         ~ ReturnsTooMuch(new, now, extra)
  PROVE  HeapInv(new, L \ {b}, now - 2 * extra,
                 (pages \cup Touched(upTo, now)) \ Touched(now - extra, now))
  <1> DEFINE rest == L \ {b}
             all == pages \cup Touched(upTo, now)
             z == now - extra
             left == all \ Touched(z, now)
             upTo1 == now - 2 * extra
  <1>1. Tiles(list, L, HeapSize) /\ HeapSize \in Nat
    BY HeapSizes DEF HeapInv
  <1>2. Tiles(new, rest, HeapSize) /\ AlsoFree(new, list, b)
    BY <1>1, GiveBackTiles
  <1>3. b.at \in Nat /\ b.size \in Nat /\ b.size >= 24 /\ End(b) = b.at + b.size
    BY <1>1, BlockTypes
  <1>4. now \in Nat /\ upTo <= now
    BY <1>3 DEF Larger, NodeSize
  <1>5. \A from, to : InPages(pages, from, to) => InPages(all, from, to)
    BY DEF InPages
  <1>6. InPages(all, 0, now)
    <2>1. InPages(pages, 0, upTo) /\ InPages(Touched(upTo, now), upTo, now)
      BY <1>4, TouchedIn DEF HeapInv
    <2>2. QED
      BY <1>4, <2>1 DEF InPages
  <1> HIDE DEF all
  <1>7. \A d \in rest : BlockOk(d) /\ InPages(all, d.at, End(d))
    BY <1>5 DEF HeapInv
  <1>8. ASSUME NEW i \in 1 .. Len(new) PROVE InPages(all, new[i].at, new[i].at + NodeSize)
    <2>1. CASE new[i].at = b.at
      <3>1. InPages(all, b.at, End(b))
        BY <1>5 DEF HeapInv
      <3>2. QED
        BY <1>3, <2>1, <3>1 DEF InPages, NodeSize
    <2>2. CASE \E j \in 1 .. Len(list) : new[i].at = list[j].at
      BY <1>5, <2>2 DEF HeapInv
    <2>3. QED
      BY <1>2, <2>1, <2>2 DEF AlsoFree
  <1>9. extra = 0 \/ (extra > 0 /\ extra \in Int)
    <2>1. Threshold \in Nat
      BY HeapSizes
    <2>2. CASE now > b.at + Threshold
      <3>1. extra \in {0, now - b.at - Threshold}
        BY DEF Extra
      <3>2. QED
        BY <1>3, <1>4, <2>1, <2>2, <3>1
    <2>3. CASE ~ (now > b.at + Threshold)
      BY <2>3 DEF Extra
    <2>4. QED
      BY <2>2, <2>3
  <1>10. CASE extra = 0
    <2>1. z = now /\ upTo1 = now
      BY <1>4, <1>10
    <2>2. Touched(z, now) = {}
      BY <1>4, <2>1 DEF Touched, Larger
    <2>3. left = all
      BY <2>2
    <2> HIDE DEF z, left, upTo1
    <2>4. HeapInv(new, rest, upTo1, left)
      BY <1>2, <1>4, <1>6, <1>7, <1>8, <2>1, <2>3 DEF HeapInv
    <2>5. QED
      BY <2>4 DEF upTo1, left, all, z
  <1>11. CASE extra > 0 /\ extra \in Int
    <2>1. new # << >>
      BY <1>2 DEF AlsoFree
    <2> HIDE DEF rest
    <2>2. /\ z \in Nat /\ extra \in Nat
          /\ \A d \in rest : End(d) + PageSize <= z
          /\ \A k \in 1 .. Len(new) : new[k].at + NodeSize + PageSize <= z
          /\ z % PageSize <= extra
      BY <1>2, <1>3, <1>4, <1>11, <2>1, ExtraUnused
    <2> HIDE DEF z
    <2>3. PageSize \in Nat /\ now \in Int
      BY <1>4, HeapSizes
    <2>4. ASSUME NEW d \in rest PROVE InPages(left, d.at, End(d))
      <3>1. d.at \in Int /\ End(d) \in Int
        BY <1>1, <1>2, BlockTypes
      <3>2. ASSUME NEW a \in Nat, d.at <= a, a < End(d)
            PROVE  a \div PageSize < z \div PageSize
        <4>1. a + PageSize <= z
          BY <2>2, <2>3, <3>1, <3>2
        <4>2. QED
          BY <2>2, <4>1, PageBehind
      <3>3. InPages(all, d.at, End(d))
        BY <1>7
      <3>4. \A a \in Nat : d.at <= a /\ a < End(d) => a \div PageSize < z \div PageSize
        BY <3>2
      <3>5. QED
        BY <2>2, <2>3, <3>1, <3>3, <3>4, StillIn
    <2>5. ASSUME NEW i \in 1 .. Len(new) PROVE InPages(left, new[i].at, new[i].at + NodeSize)
      <3> DEFINE from == new[i].at
                 to == new[i].at + NodeSize
      <3>1. from \in Int /\ to \in Int
        <4>1. IsFreeList(new, HeapSize, {})
          BY <1>2 DEF Tiles
        <4>2. QED
          BY <1>1, <4>1, ChunksOf DEF NodeSize
      <3>2. to + PageSize <= z
        BY <2>2
      <3>3. InPages(all, from, to)
        BY <1>8
      <3> HIDE DEF from, to
      <3>4. ASSUME NEW a \in Nat, from <= a, a < to
            PROVE  a \div PageSize < z \div PageSize
        <4>1. a + PageSize <= z
          BY <2>2, <2>3, <3>1, <3>2, <3>4
        <4>2. QED
          BY <2>2, <4>1, PageBehind
      <3>5. \A a \in Nat : from <= a /\ a < to => a \div PageSize < z \div PageSize
        BY <3>4
      <3>6. InPages(left, from, to)
        BY <2>2, <2>3, <3>1, <3>3, <3>5, StillIn
      <3>7. QED
        BY <3>6 DEF from, to
    <2>6. upTo1 \in Int /\ upTo1 = z - extra /\ upTo1 <= now
      BY <1>4, <2>2 DEF z
    <2>7. InPages(left, 0, upTo1)
      <3>1. InPages(all, 0, upTo1)
        BY <1>4, <1>6, <2>6 DEF InPages
      <3>2. ASSUME NEW a \in Nat, 0 <= a, a < upTo1
            PROVE  a \div PageSize < z \div PageSize
        <4> DEFINE t == z % PageSize
        <4>1. t \in Int /\ t = z % PageSize /\ t <= extra
          BY <2>2, PageOf
        <4> HIDE DEF t
        <4>2. a < z - t
          BY <2>2, <2>6, <3>2, <4>1
        <4>3. QED
          BY <2>2, <4>1, <4>2, PageStart
      <3>3. \A a \in Nat : 0 <= a /\ a < upTo1 => a \div PageSize < z \div PageSize
        BY <3>2
      <3>4. 0 \in Int
        OBVIOUS
      <3>5. QED
        BY <2>2, <2>3, <2>6, <3>1, <3>3, <3>4, StillIn
    <2> HIDE DEF left, upTo1
    <2>8. HeapInv(new, rest, upTo1, left)
      BY <1>2, <1>7, <2>4, <2>5, <2>6, <2>7 DEF HeapInv
    <2>9. QED
      BY <2>8 DEF upTo1, left, all, z, rest
  <1>12. QED
    BY <1>9, <1>10, <1>11

(* A free that does not lead the heap astray. *)
LEMMA ReleaseStep ==
  ASSUME NEW list, NEW L, NEW upTo \in Int, NEW pages, NEW b \in L, b.at \in Nat,
         NEW word, Release(list, upTo, pages, b, word),
         ~ (committed < 0) => upTo \in Nat /\ HeapInv(list, L, upTo, pages),
         live' = L \ {b}
  PROVE  HInv'
  <1> DEFINE new == GiveBack(list, b.at, b.size, StaleSize(b, word))
             right == GiveBack(list, b.at, b.size, b.size)
             now == Larger(upTo, b.at + NodeSize)
             extra == Extra(new, b.at, now)
  <1>1. /\ chunks' = new /\ committed' = now - 2 * extra
        /\ mapped' = (pages \cup Touched(upTo, now)) \ Touched(now - extra, now)
        /\ astray' = (committed < 0 \/ new # right \/ ReturnsTooMuch(new, now, extra))
    BY DEF Release
  <1> HIDE DEF new, right, extra, now
  <1>2. now \in Int /\ Threshold \in Nat
    BY HeapSizes DEF Larger, NodeSize, now
  <1>3. extra \in {0, now - b.at - Threshold}
    BY DEF Extra, extra
  <1>4. committed' \in Int
    <2>1. extra \in Int
      BY <1>2, <1>3
    <2> HIDE DEF extra
    <2>2. QED
      BY <1>1, <1>2, <2>1
  <1>5. astray' \in BOOLEAN
    BY <1>1, Zenon
  <1>6. ASSUME ~ astray' PROVE HeapInv(chunks', live', committed', mapped')
    <2>1. ~ (committed < 0) /\ new = right /\ ~ ReturnsTooMuch(new, now, extra)
      BY <1>1, <1>6, Zenon
    <2>2. upTo \in Nat /\ HeapInv(list, L, upTo, pages)
      BY <2>1
    <2>3. /\ new = GiveBack(list, b.at, b.size, b.size)
          /\ now = Larger(upTo, b.at + NodeSize) /\ extra = Extra(new, b.at, now)
      BY <2>1 DEF right, now, extra
    <2>4. HeapInv(new, L \ {b}, now - 2 * extra,
                  (pages \cup Touched(upTo, now)) \ Touched(now - extra, now))
      BY <2>1, <2>2, <2>3, FreeKeeps
    <2>5. QED
      BY <1>1, <2>4
  <1>7. QED
    BY <1>4, <1>5, <1>6 DEF HInv

(* A block that only says something else of the user's part. *)
LEMMA CountKeeps ==
  ASSUME NEW list, NEW L, NEW upTo, NEW pages, HeapInv(list, L, upTo, pages), NEW b \in L,
         NEW d, BlockOk(d), d.at = b.at, d.size = b.size
  PROVE  HeapInv(list, (L \ {b}) \cup {d}, upTo, pages)
  <1>1. End(d) = End(b)
    BY DEF End
  <1>2. InPages(pages, d.at, End(d))
    BY <1>1 DEF HeapInv
  <1>3. \A a : Holds(d, a) <=> Holds(b, a)
    BY <1>1 DEF Holds
  <1>4. NoneLost(list, L, HeapSize) /\ NoneFreeTwice(list, L) /\ NoneHeldTwice(L)
    BY DEF HeapInv, Tiles
  <1>5. NoneLost(list, (L \ {b}) \cup {d}, HeapSize)
    BY <1>3, <1>4 DEF NoneLost
  <1>6. NoneFreeTwice(list, (L \ {b}) \cup {d})
    BY <1>3, <1>4 DEF NoneFreeTwice
  <1>7. NoneHeldTwice((L \ {b}) \cup {d})
    BY <1>3, <1>4 DEF NoneHeldTwice
  <1>8. FitsIn(d, HeapSize)
    BY <1>1 DEF HeapInv, Tiles, FitsIn
  <1>9. Tiles(list, (L \ {b}) \cup {d}, HeapSize)
    BY <1>5, <1>6, <1>7, <1>8 DEF HeapInv, Tiles
  <1>10. QED
    BY <1>2, <1>9 DEF HeapInv

(* The chunk that is found has room. *)
LEMMA FoundHasRoom ==
  ASSUME HInv, ~ astray, NEW count \in Nat \ {0}, NEW m \in Nat \ {0}, m % 8 = 0,
         NEW total, total = TotalSize(count, m),
         NEW k, k = FindSmallest(chunks, total), k # 0
  PROVE  Serving(chunks, k, count, m, total)
  <1>1. total \in Nat /\ HeapSize \in Nat /\ IsFreeList(chunks, HeapSize, {})
    BY TotalIs, HeapNow
  <1>2. QED
    BY <1>1, FindSmallestIs DEF Serving

(* How far a malloc commits. *)
LEMMA CommittedIs ==
  ASSUME HInv, ~ astray, NEW count \in Nat \ {0}, NEW m \in Nat \ {0}, m % 8 = 0,
         NEW total, NEW k, Serving(chunks, k, count, m, total)
  PROVE  /\ CommittedFor(chunks[k], total) \in Int
         /\ committed <= CommittedFor(chunks[k], total)
         /\ CommitsTo(chunks, k, total, committed, CommittedFor(chunks[k], total))
  <1>1. total \in Nat /\ total >= NodeSize /\ HasRoom(chunks, k, total)
    BY TotalIs DEF Serving
  <1>2. HeapInv(chunks, live, committed, mapped)
    BY HeapNow
  <1> DEFINE upTo1 == CommittedFor(chunks[k], total)
  <1>3. CommitsTo(chunks, k, total, committed, upTo1)
    BY DEF CommittedFor, CommitsTo
  <1> HIDE DEF upTo1
  <1>4. upTo1 \in Int /\ committed <= upTo1
    BY <1>1, <1>2, <1>3, RoomIs
  <1>5. QED
    BY <1>3, <1>4 DEF upTo1

LEMMA MallocStep ==
  ASSUME HInv, NEW count \in Counts, NEW m \in Alignments, Malloc(count, m)
  PROVE  HInv'
  <1> DEFINE total == TotalSize(count, m)
             k == FindSmallest(chunks, total)
             upTo1 == CommittedFor(chunks[k], total)
  <1>1. count \in Nat \ {0} /\ m \in Nat \ {0} /\ m % 8 = 0
    BY HeapSizes
  <1>2. /\ ~ astray /\ k # 0 /\ chunks' = Take(chunks, k, total)
        /\ committed' = upTo1
        /\ mapped' = mapped \cup Touched(committed, committed')
        /\ live' = live \cup {Block(chunks[k], total, count, m)}
        /\ astray' = (committed < 0)
    BY DEF Malloc
  <1>3. total = TotalSize(count, m) /\ k = FindSmallest(chunks, total)
    OBVIOUS
  <1> HIDE DEF k, total
  <1>4. Serving(chunks, k, count, m, total)
    BY <1>1, <1>2, <1>3, FoundHasRoom
  <1>5. upTo1 \in Int /\ CommitsTo(chunks, k, total, committed, upTo1)
    BY <1>1, <1>2, <1>3, <1>4, CommittedIs
  <1> HIDE DEF upTo1
  <1>6. ASSUME ~ astray' PROVE HeapInv(chunks', live', committed', mapped')
    <2>1. committed \in Int /\ ~ (committed < 0) /\ HeapInv(chunks, live, committed, mapped)
      BY <1>2, <1>6, HeapNow
    <2> DEFINE b == Block(chunks[k], total, count, m)
    <2>2. committed \in Nat
      BY <2>1
    <2>3. HeapInv(Take(chunks, k, total), live \cup {b}, upTo1,
                  mapped \cup Touched(committed, upTo1))
      BY <1>1, <1>4, <1>5, <2>1, <2>2, MallocKeeps
    <2>4. QED
      BY <1>2, <2>3
  <1>7. astray' \in BOOLEAN
    BY <1>2
  <1>8. QED
    BY <1>2, <1>5, <1>6, <1>7 DEF HInv

LEMMA FreeStep ==
  ASSUME HInv, NEW b \in live, NEW word, Free(b, word)
  PROVE  HInv'
  <1>1. ~ astray /\ live' = live \ {b} /\ Release(chunks, committed, mapped, b, word)
    BY DEF Free
  <1>2. /\ committed \in Int /\ b.at \in Nat /\ HeapInv(chunks, live, committed, mapped)
    BY <1>1, HeapNow DEF BlockOk, BlockType
  <1>3. ~ (committed < 0) => committed \in Nat
    BY <1>2
  <1>4. QED
    BY <1>1, <1>2, <1>3, ReleaseStep

LEMMA ReallocInPlaceStep ==
  ASSUME HInv, NEW b \in live, NEW count \in Counts, ReallocInPlace(b, count)
  PROVE  HInv'
  <1> DEFINE d == [b EXCEPT !.count = count]
  <1>1. ~ astray /\ BlockOk(b) /\ HeapInv(chunks, live, committed, mapped)
    BY HeapNow DEF ReallocInPlace
  <1>2. /\ count \in Nat /\ count <= b.size - b.padding - 16
        /\ live' = (live \ {b}) \cup {d} /\ UNCHANGED <<chunks, committed, mapped, astray>>
    BY HeapSizes DEF ReallocInPlace, Available, HeaderSize
  <1>3. /\ d \in BlockType /\ d.count = count
        /\ d.at = b.at /\ d.size = b.size /\ d.padding = b.padding
        /\ d.alignment = b.alignment
    BY <1>1, <1>2 DEF BlockOk, BlockType
  <1> HIDE DEF d
  <1>4. d.padding + 16 + d.count <= d.size
    BY <1>1, <1>2, <1>3 DEF BlockOk, BlockType
  <1>5. UserPtr(d) = UserPtr(b)
    BY <1>3 DEF UserPtr
  <1>6. BlockOk(d)
    BY <1>1, <1>3, <1>4, <1>5 DEF BlockOk, HeaderSize
  <1>7. HeapInv(chunks, (live \ {b}) \cup {d}, committed, mapped)
    BY <1>1, <1>3, <1>6, CountKeeps
  <1>8. QED
    BY <1>2, <1>7 DEF HInv

LEMMA ReallocMovedStep ==
  ASSUME HInv, NEW b \in live, NEW count \in Counts, NEW word, ReallocMoved(b, count, word)
  PROVE  HInv'
  <1> DEFINE m == b.alignment
             total == TotalSize(count, m)
             k == FindSmallest(chunks, total)
             rest == Take(chunks, k, total)
             d == Block(chunks[k], total, count, m)
             upTo == CommittedFor(chunks[k], total)
             pages == mapped \cup Touched(committed, upTo)
  <1>1. /\ ~ astray /\ k # 0 /\ live' = (live \ {b}) \cup {d}
        /\ Release(rest, upTo, pages, b, word)
    BY DEF ReallocMoved
  <1>2. /\ count \in Nat \ {0} /\ m \in Nat \ {0} /\ m % 8 = 0 /\ b.at \in Nat
    BY <1>1, HeapSizes, HeapNow DEF BlockOk, BlockType
  <1>3. total = TotalSize(count, m) /\ k = FindSmallest(chunks, total)
    OBVIOUS
  <1> HIDE DEF k, total, m
  <1>4. Serving(chunks, k, count, m, total)
    BY <1>1, <1>2, <1>3, FoundHasRoom
  <1>5. upTo \in Int /\ committed <= upTo /\ CommitsTo(chunks, k, total, committed, upTo)
    BY <1>1, <1>2, <1>3, <1>4, CommittedIs
  <1> HIDE DEF upTo
  <1>6. HeapInv(chunks, live, committed, mapped) /\ committed \in Int
    BY <1>1, HeapNow
  <1>7. d \notin live
    <2>1. /\ total \in Nat /\ total % 8 = 0 /\ total >= NodeSize
          /\ HasRoom(chunks, k, total)
      BY <1>2, <1>3, <1>4, TotalIs DEF Serving
    <2>2. HeapSize \in Nat /\ Tiles(chunks, live, HeapSize)
      BY <1>6, HeapSizes DEF HeapInv
    <2>3. d.at = chunks[k].at /\ d.size = Taken(chunks[k], total)
      BY DEF Block
    <2> HIDE DEF d
    <2>4. QED
      BY <2>1, <2>2, <2>3, TakeTiles
  <1>8. ASSUME ~ (committed < 0) PROVE upTo \in Nat /\ HeapInv(rest, live \cup {d}, upTo, pages)
    <2>1. committed \in Nat
      BY <1>6, <1>8
    <2>2. QED
      BY <1>2, <1>4, <1>5, <1>6, <2>1, MallocKeeps
  <1> HIDE DEF rest, d, pages
  <1>9. b \in live \cup {d} /\ live' = (live \cup {d}) \ {b}
    BY <1>1, <1>7
  <1>10. QED
    BY <1>1, <1>2, <1>5, <1>8, <1>9, ReleaseStep

LEMMA HeapInvariant == Spec => []HInv
  <1>1. HInv /\ [Next]_vars => HInv'
    <2> SUFFICES ASSUME HInv, [Next]_vars PROVE HInv'
      OBVIOUS
    <2>1. ASSUME NEW count \in Counts, NEW alignment \in Alignments, Malloc(count, alignment)
          PROVE  HInv'
      BY <2>1, MallocStep
    <2>2. ASSUME NEW b \in live, NEW word \in Words(b), Free(b, word)
          PROVE  HInv'
      BY <2>2, FreeStep
    <2>3. ASSUME NEW b \in live, NEW count \in Counts, ReallocInPlace(b, count)
          PROVE  HInv'
      BY <2>3, ReallocInPlaceStep
    <2>4. ASSUME NEW b \in live, NEW count \in Counts, NEW word \in Words(b),
                 ReallocMoved(b, count, word)
          PROVE  HInv'
      BY <2>4, ReallocMovedStep
    <2>5. CASE UNCHANGED vars
      BY <2>5 DEF vars, HInv
    <2>6. QED
      BY <2>1, <2>2, <2>3, <2>4, <2>5 DEF Next
  <1>2. QED
    BY <1>1, InitHInv, PTL DEF Spec

-----------------------------------------------------------------------------
(* The heap's properties. *)

LEMMA OrderedHolds == HInv => Ordered
  <1> SUFFICES ASSUME HInv, ~ astray, NEW k \in 1 .. Len(chunks) - 1
               PROVE  End(chunks[k]) < chunks[k + 1].at
    BY DEF Ordered
  <1>1. IsFreeList(chunks, HeapSize, {}) /\ HeapSize \in Nat
    BY HeapNow
  <1>2. Len(chunks) \in Nat
    BY <1>1, ChunksOf
  <1>3. k \in 1 .. Len(chunks) /\ k + 1 \in 1 .. Len(chunks) /\ k < k + 1
    BY <1>2
  <1>4. QED
    BY <1>1, <1>3, GapsBetween

LEMMA FreeIsCovered ==
  ASSUME NEW a \in Int
  PROVE  HoldsFree(a) = {} <=> ~ Covers(chunks, a)
  BY DEF HoldsFree, Covers

LEMMA TilingHolds == HInv => TypeOK /\ Tiling
  <1> SUFFICES ASSUME HInv PROVE TypeOK /\ Tiling
    OBVIOUS
  <1>1. committed \in Int /\ astray \in BOOLEAN
    BY DEF HInv
  <1>2. CASE astray
    BY <1>1, <1>2 DEF TypeOK, Tiling
  <1>3. CASE ~ astray
    <2>1. /\ Tiles(chunks, live, HeapSize) /\ IsFreeList(chunks, HeapSize, {})
          /\ HeapSize \in Nat
      BY <1>3, HeapNow
    <2>2. TypeOK
      <3>1. ASSUME NEW c, c.at \in Nat, c.size \in Nat, c.size >= 24, FitsIn(c, HeapSize),
                   End(c) = c.at + c.size
            PROVE  c.at \in Grains /\ c.size >= NodeSize /\ End(c) <= HeapSize
        BY <2>1, <3>1 DEF Grains, FitsIn, NodeSize
      <3>2. \A k \in 1 .. Len(chunks) : /\ chunks[k].at \in Grains
                                        /\ chunks[k].size >= NodeSize
                                        /\ End(chunks[k]) <= HeapSize
        BY <2>1, <3>1, ChunksOf
      <3>3. \A b \in live : /\ b.at \in Grains /\ b.size >= NodeSize
                            /\ b.at + b.size <= HeapSize
        <4> SUFFICES ASSUME NEW b \in live
                     PROVE  b.at \in Grains /\ b.size >= NodeSize /\ b.at + b.size <= HeapSize
          OBVIOUS
        <4>1. /\ b.at \in Nat /\ b.size \in Nat /\ End(b) = b.at + b.size
              /\ b.size >= 24 /\ FitsIn(b, HeapSize)
          BY <2>1, BlockTypes
        <4>2. QED
          BY <3>1, <4>1
      <3>4. QED
        BY <1>1, <3>2, <3>3 DEF TypeOK
    <2>3. ASSUME NEW a \in Grains
          PROVE  Cardinality(HoldsFree(a)) + Cardinality(HoldsLive(a)) = 1
      <3>1. \/ HoldsLive(a) = {} /\ \E k \in 1 .. Len(chunks) : HoldsFree(a) = {k}
            \/ HoldsFree(a) = {} /\ \E b \in live : HoldsLive(a) = {b}
        <4>1. a \in 0 .. HeapSize - 1
          BY DEF Grains
        <4>2. QED
          BY <2>1, <4>1, TiledOnce DEF HoldsFree, HoldsLive
      <3>2. Cardinality({}) = 0 /\ \A e : Cardinality({e}) = 1
        BY FS_EmptySet, FS_Singleton
      <3>3. \/ Cardinality(HoldsFree(a)) = 1 /\ Cardinality(HoldsLive(a)) = 0
            \/ Cardinality(HoldsFree(a)) = 0 /\ Cardinality(HoldsLive(a)) = 1
        BY <3>1, <3>2, Zenon
      <3>4. QED
        BY <3>3
    <2>4. QED
      BY <2>2, <2>3 DEF Tiling
  <1>4. QED
    BY <1>1, <1>2, <1>3

LEMMA UserFitsHolds == HInv => UserFits
  <1> SUFFICES ASSUME HInv, ~ astray, NEW b \in live
               PROVE  /\ UserPtr(b) % b.alignment = 0
                      /\ b.at + HeaderSize <= UserPtr(b)
                      /\ UserPtr(b) + b.count <= b.at + b.size
    BY DEF UserFits
  <1>1. BlockOk(b)
    BY HeapNow
  <1>2. /\ b.at \in Nat /\ b.size \in Nat /\ b.count \in Nat /\ b.padding \in Nat
        /\ b.padding + 16 + b.count <= b.size
    BY <1>1 DEF BlockOk, BlockType, HeaderSize
  <1>3. UserPtr(b) = b.at + b.padding + 16
    BY DEF UserPtr, HeaderSize
  <1>4. UserPtr(b) % b.alignment = 0
    BY <1>1 DEF BlockOk
  <1>5. QED
    BY <1>2, <1>3, <1>4 DEF HeaderSize

LEMMA NoFalseRefusalHolds == HInv => NoFalseRefusal
  <1> SUFFICES ASSUME HInv, ~ astray, NEW count \in Counts, NEW alignment \in Alignments,
                      FindSmallest(chunks, TotalSize(count, alignment)) = 0,
                      NEW a \in {x \in Grains : x + TotalSize(count, alignment) <= HeapSize}
               PROVE  \E x \in Grains : /\ a <= x /\ x < a + TotalSize(count, alignment)
                                       /\ HoldsFree(x) = {}
    BY DEF NoFalseRefusal
  <1> DEFINE total == TotalSize(count, alignment)
  <1>1. total \in Nat /\ total >= 24
    <2>1. count \in Nat \ {0} /\ alignment \in Nat \ {0} /\ alignment % 8 = 0
      BY HeapSizes
    <2>2. QED
      BY <2>1, TotalIs DEF NodeSize
  <1>2. IsFreeList(chunks, HeapSize, {}) /\ HeapSize \in Nat
    BY HeapNow
  <1>3. a \in Grains /\ a \in Nat /\ a + total <= HeapSize
    BY <1>2 DEF Grains
  <1>4. FindSmallest(chunks, total) = 0
    OBVIOUS
  <1> HIDE DEF total
  <1>5. \A k \in 1 .. Len(chunks) : chunks[k].size < total
    BY <1>1, <1>2, <1>4, FindSmallestIs
  <1>6. CASE HoldsFree(a) = {}
    BY <1>1, <1>3, <1>6 DEF total
  <1>7. CASE HoldsFree(a) # {}
    <2>1. PICK k \in 1 .. Len(chunks) : chunks[k].at <= a /\ a < End(chunks[k])
      BY <1>7 DEF HoldsFree
    <2> DEFINE x == End(chunks[k])
    <2>2. /\ chunks[k].at \in Nat /\ chunks[k].size \in Nat /\ FitsIn(chunks[k], HeapSize)
          /\ x = chunks[k].at + chunks[k].size /\ chunks[k].size < total
      BY <1>2, <1>5, ChunksOf
    <2>3. x \in Nat /\ a <= x /\ x < a + total /\ x < HeapSize
      BY <1>1, <1>2, <1>3, <2>1, <2>2
    <2>4. x \in Grains
      BY <1>2, <2>2, <2>3 DEF FitsIn, Grains
    <2>5. HoldsFree(x) = {}
      <3>1. ~ Covers(chunks, x)
        BY <1>2, EndHeld
      <3>2. QED
        BY <2>3, <3>1, FreeIsCovered
    <2>6. QED
      BY <2>3, <2>4, <2>5 DEF total
  <1>8. QED
    BY <1>6, <1>7

LEMMA BackedHolds == HInv => Backed
  <1> SUFFICES ASSUME HInv, ~ astray PROVE Backed
    BY DEF Backed
  <1>1. HeapInv(chunks, live, committed, mapped) /\ IsFreeList(chunks, HeapSize, {})
    BY HeapNow
  <1>2. HeapSize \in Nat
    BY HeapSizes
  <1>3. ASSUME NEW b \in live PROVE Touched(b.at, b.at + b.size) \subseteq mapped
    <2>1. b.at \in Nat /\ b.size \in Nat /\ End(b) = b.at + b.size
      BY <1>1, <1>2, BlockTypes DEF HeapInv
    <2>2. InPages(mapped, b.at, b.at + b.size) /\ b.at + b.size \in Int
      BY <1>1, <2>1 DEF HeapInv
    <2>3. QED
      BY <2>1, <2>2, TouchedOnly
  <1>4. ASSUME NEW k \in 1 .. Len(chunks)
        PROVE  Touched(chunks[k].at, chunks[k].at + NodeSize) \subseteq mapped
    <2>1. chunks[k].at \in Nat /\ chunks[k].at + NodeSize \in Int
      BY <1>1, <1>2, ChunksOf DEF NodeSize
    <2>2. InPages(mapped, chunks[k].at, chunks[k].at + NodeSize)
      BY <1>1 DEF HeapInv
    <2>3. QED
      BY <2>1, <2>2, TouchedOnly
  <1>5. QED
    BY <1>3, <1>4 DEF Backed

(***************************************************************************)
(* For a heap of any size, callers that align as they like and leave any   *)
(* numbers in their blocks: until the first free that is misled by such a  *)
(* number, the list stays in address order with no two chunks touching.    *)
(***************************************************************************)
THEOREM HeapOrder == Spec => []Ordered
  BY HeapInvariant, OrderedHolds, PTL

(***************************************************************************)
(* Until then every address is in one free chunk or in one block, after    *)
(* any number of calls, also when all of the heap has been handed out.     *)
(***************************************************************************)
THEOREM HeapTiling == Spec => []HeapTiled
  <1>1. HInv => HeapTiled
    BY TilingHolds DEF HeapTiled
  <1>2. QED
    BY <1>1, HeapInvariant, PTL

(***************************************************************************)
(* The user's part of a block is aligned as asked and lies inside the      *)
(* block, for every alignment that is a multiple of eight.                 *)
(***************************************************************************)
THEOREM HeapUserFits == Spec => []UserFits
  BY HeapInvariant, UserFitsHolds, PTL

(* A request is refused only when no free memory of its length is left. *)
THEOREM HeapRefusal == Spec => []NoFalseRefusal
  BY HeapInvariant, NoFalseRefusalHolds, PTL

(***************************************************************************)
(* Blocks and the nodes of free chunks are committed memory, for any page  *)
(* size and any threshold larger by a node, through every commit and       *)
(* decommit up to the one that takes too much.                             *)
(***************************************************************************)
THEOREM HeapBacking == Spec => []Backed
  BY HeapInvariant, BackedHolds, PTL

-----------------------------------------------------------------------------
(* The arena: its operators are those of the free list.                      *)

LEMMA SameEnd == \A c : Arena!End(c) = End(c)
  BY DEF Arena!End, End

LEMMA SameTotal == \A count : Arena!TotalSize(count, Arena!Alignment) = TotalSize(count, 8)
  BY DEF Arena!TotalSize, TotalSize, Arena!AlignUp, AlignUp, Arena!HeaderSize, HeaderSize,
         Arena!Alignment

LEMMA SameTake ==
  /\ \A list, total : Arena!FindSmallest(list, total) = FindSmallest(list, total)
  /\ \A c, total : Arena!Taken(c, total) = Taken(c, total)
  /\ \A list, k, total : Arena!Take(list, k, total) = Take(list, k, total)
  <1>1. \A c, total : Arena!IsSplit(c, total) = IsSplit(c, total)
    BY DEF Arena!IsSplit, IsSplit, Arena!NodeSize, NodeSize
  <1>2. \A list, total : Arena!FindSmallest(list, total) = FindSmallest(list, total)
    BY DEF Arena!FindSmallest, FindSmallest, Arena!Min, Min, Arena!Max, Max
  <1>3. \A c, total : Arena!Taken(c, total) = Taken(c, total)
    BY <1>1 DEF Arena!Taken, Taken
  <1>4. \A list, k, total : Arena!Take(list, k, total) = Take(list, k, total)
    BY <1>1 DEF Arena!Take, Take, Arena!ReplaceAt, ReplaceAt, Arena!RemoveAt, RemoveAt,
                Arena!Chunk, Chunk
  <1>5. QED
    BY <1>2, <1>3, <1>4

LEMMA SameGiveBack ==
  \A list, at, size, word :
    Arena!GiveBack(list, at, size, word) = GiveBack(list, at, size, word)
  <1>1. \A at, size : Arena!Chunk(at, size) = Chunk(at, size)
    BY DEF Arena!Chunk, Chunk
  <1>2. \A list, at, word : Arena!FindPrev(list, at, word) = FindPrev(list, at, word)
    BY DEF Arena!FindPrev, FindPrev, Arena!Min, Min, Arena!End, End
  <1>3. \A list, k : Arena!CoalesceRight(list, k) = CoalesceRight(list, k)
    BY <1>1, SameEnd DEF Arena!CoalesceRight, CoalesceRight, Arena!RemoveAt, RemoveAt,
                         Arena!ReplaceAt, ReplaceAt
  <1>4. \A list, k : Arena!Coalesce(list, k) = Coalesce(list, k)
    BY <1>3 DEF Arena!Coalesce, Coalesce
  <1>5. QED
    BY <1>1, <1>2, <1>4 DEF Arena!GiveBack, GiveBack, Arena!InsertAt, InsertAt

(* allocate_from_node and malloc_node, in these operators. *)
LEMMA ArenaTakes ==
  /\ \A node, count :
       /\ Arena!Serves(node, count) => FindSmallest(node.list, TotalSize(count, 8)) # 0
       /\ FindSmallest(node.list, TotalSize(count, 8)) # 0 /\ Arena!MayHold(node, count)
            => Arena!Serves(node, count)
       /\ Arena!Place(node, count) = FindSmallest(node.list, TotalSize(count, 8))
  /\ \A n : Arena!Node(n) = [total |-> n, allocated |-> 0, list |-> <<Chunk(0, n)>>]
  <1>1. \A node, count : Arena!Place(node, count) = FindSmallest(node.list, TotalSize(count, 8))
    BY SameTotal, SameTake DEF Arena!Place
  <1>2. \A n : Arena!Node(n) = [total |-> n, allocated |-> 0, list |-> <<Chunk(0, n)>>]
    BY DEF Arena!Node, Arena!Chunk, Chunk
  <1>3. QED
    BY <1>1, <1>2 DEF Arena!Serves

LEMMA ArenaLess ==
  \A chain, piece, count :
    Arena!Less(chain, piece, count) =
      [chain EXCEPT
         ![piece.node].list =
           Take(@, FindSmallest(chain[piece.node].list, TotalSize(count, 8)), TotalSize(count, 8)),
         ![piece.node].allocated = @ + piece.size]
  BY DEF Arena!Less, Arena!Place, Arena!FindSmallest, FindSmallest, Arena!Min, Min, Arena!Max, Max,
         Arena!Take, Take, Arena!IsSplit, IsSplit, Arena!NodeSize, NodeSize, Arena!ReplaceAt,
         ReplaceAt, Arena!RemoveAt, RemoveAt, Arena!Chunk, Chunk, Arena!TotalSize, TotalSize,
         Arena!AlignUp, AlignUp, Arena!HeaderSize, HeaderSize, Arena!Alignment

NodeType == [total : Nat, allocated : Int, list : Seq(ChunkType)]
PieceType == [node : Nat, at : Nat, size : Nat]

On(L, k) == {b \in L : b.node = k}

(***************************************************************************)
(* Every node is tiled by its chunks and its blocks, whatever its counter  *)
(* says.                                                                   *)
(***************************************************************************)
NodeOk(node, L) ==
  /\ node \in NodeType
  /\ node.total >= ArenaBase
  /\ Tiles(node.list, L, node.total)

ChainInv(chain, L) ==
  /\ chain \in Seq(NodeType)
  /\ \A k \in 1 .. Len(chain) : NodeOk(chain[k], On(L, k))
  /\ L \subseteq PieceType
  /\ \A b \in L : b.node \in 1 .. Len(chain)

AInv ==
  /\ sticky \in BOOLEAN /\ stray \in BOOLEAN /\ dead \in BOOLEAN
  /\ ~ dead => ChainInv(nodes, held) /\ (sticky => ~ stray)

LEMMA ArenaSizes ==
  /\ ArenaBase \in Nat /\ ArenaBase >= 24
  /\ \A count \in ArenaCounts : count \in Nat \ {0}
  /\ \A word \in ArenaWords : word \in Nat
  BY MemoryAssumption DEF MemoryAssumption, ArenaSensible, NodeSize

(* The size of a new node, and what it has room for. *)
LEMMA NewNodeIs ==
  ASSUME ChainInv(nodes, held), NEW count \in ArenaCounts
  PROVE  LET total == Arena!NewNodeSize(count) IN
           /\ total \in Nat /\ total >= ArenaBase /\ total >= 24
           /\ total >= count /\ total >= TotalSize(count, 8)
  <1> DEFINE before == IF nodes = << >> THEN ArenaBase ELSE Arena!Last(nodes).total
             x == Arena!Larger(8 * count, before)
             y == x + ArenaBase - 1
             q == y \div ArenaBase
  <1>1. ArenaBase \in Nat \ {0} /\ ArenaBase >= 24 /\ count \in Nat \ {0}
    BY ArenaSizes
  <1>2. before \in Nat /\ before >= ArenaBase
    <2>1. CASE nodes = << >>
      BY <1>1, <2>1
    <2>2. CASE nodes # << >>
      <3>1. nodes \in Seq(NodeType) /\ Len(nodes) \in Nat /\ Len(nodes) \in 1 .. Len(nodes)
        BY <2>2, LenProperties, EmptySeq DEF ChainInv
      <3>2. NodeOk(nodes[Len(nodes)], On(held, Len(nodes)))
        BY <3>1 DEF ChainInv
      <3>3. before = nodes[Len(nodes)].total
        BY <2>2 DEF Arena!Last
      <3>4. QED
        BY <3>2, <3>3 DEF NodeOk, NodeType
    <2>3. QED
      BY <2>1, <2>2
  <1>3. Arena!NewNodeSize(count) = 2 * (q * ArenaBase)
    BY DEF Arena!NewNodeSize, Arena!AlignUp
  <1> HIDE DEF before
  <1>4. x \in Nat /\ x >= 8 * count /\ x >= ArenaBase
    BY <1>1, <1>2 DEF Arena!Larger
  <1> HIDE DEF x
  <1>5. y \in Int /\ y = x + ArenaBase - 1
    BY <1>1, <1>4
  <1> HIDE DEF y
  <1>6. q \in Int /\ y % ArenaBase \in 0 .. ArenaBase - 1 /\ y = ArenaBase * q + (y % ArenaBase)
    BY <1>1, <1>5, DivMod
  <1> HIDE DEF q
  <1>7. ArenaBase * q \in Int /\ ArenaBase * q >= x /\ q * ArenaBase = ArenaBase * q
    <2>1. ArenaBase * q \in Int /\ q * ArenaBase = ArenaBase * q
      BY <1>1, <1>6
    <2>2. QED
      BY <1>1, <1>4, <1>5, <1>6, <2>1
  <1>8. TotalSize(count, 8) \in Nat /\ TotalSize(count, 8) <= count + 30
    <2> DEFINE u == AlignUp(count + 23, 8)
    <2>1. count + 23 \in Nat /\ 8 \in Nat \ {0}
      BY <1>1
    <2>2. u \in Nat /\ u <= count + 23 + 8 - 1
      BY <2>1, AlignedUp
    <2>3. TotalSize(count, 8) = u
      <3>1. count + 16 + 8 - 1 = count + 23
        BY <1>1
      <3>2. QED
        BY <3>1 DEF TotalSize, HeaderSize
    <2> HIDE DEF u
    <2>4. QED
      BY <1>1, <2>2, <2>3
  <1>9. QED
    BY <1>1, <1>3, <1>4, <1>7, <1>8

LEMMA NewNodeServes ==
  ASSUME ChainInv(nodes, held), NEW count \in ArenaCounts
  PROVE  LET node == Arena!Node(Arena!NewNodeSize(count)) IN
           /\ NodeOk(node, {})
           /\ Arena!Serves(node, count)
  <1> DEFINE n == Arena!NewNodeSize(count)
             total == TotalSize(count, 8)
             node == Arena!Node(n)
             list == <<Chunk(0, n)>>
  <1>1. n \in Nat /\ n >= ArenaBase /\ n >= 24 /\ n >= count /\ n >= total
    BY NewNodeIs
  <1>2. count \in Nat \ {0} /\ total \in Nat
    <2>1. count \in Nat \ {0} /\ 8 \in Nat \ {0} /\ 8 % 8 = 0
      BY ArenaSizes
    <2>2. QED
      BY <2>1, TotalIs
  <1> HIDE DEF n
  <1>3. Tiles(list, {}, n) /\ list # << >> /\ Len(list) = 1
    BY <1>1, TilesAtFirst
  <1>4. node = [total |-> n, allocated |-> 0, list |-> list]
    BY ArenaTakes
  <1>5. list[1].size = n
    BY DEF Chunk
  <1> HIDE DEF list, total, node
  <1>6. IsFreeList(list, n, {}) /\ list \in Seq(ChunkType)
    BY <1>3 DEF Tiles, IsFreeList
  <1>7. NodeOk(node, {})
    BY <1>1, <1>3, <1>4, <1>6 DEF NodeOk, NodeType
  <1>8. FindSmallest(list, total) # 0
    <2>1. ASSUME FindSmallest(list, total) = 0 PROVE FALSE
      <3>1. \A k \in 1 .. Len(list) : list[k].size < total
        BY <1>1, <1>2, <1>6, <2>1, FindSmallestIs
      <3>2. n < total
        BY <1>3, <1>5, <3>1
      <3>3. QED
        BY <1>1, <1>2, <3>2
    <2>2. QED
      BY <2>1
  <1>9. Arena!MayHold(node, count)
    BY <1>1, <1>2, <1>4 DEF Arena!MayHold
  <1>10. Arena!Serves(node, count)
    BY <1>4, <1>8, <1>9, ArenaTakes DEF total
  <1>11. QED
    BY <1>7, <1>10 DEF node, n

(* The chain with a node behind it. *)
LEMMA AppendKeeps ==
  ASSUME NEW chain, NEW L, ChainInv(chain, L), NEW node, NodeOk(node, {})
  PROVE  ChainInv(Append(chain, node), L)
  <1> DEFINE new == Append(chain, node)
             m == Len(chain)
  <1>1. chain \in Seq(NodeType) /\ node \in NodeType /\ m \in Nat
    BY LenProperties DEF ChainInv, NodeOk
  <1>2. /\ new \in Seq(NodeType) /\ Len(new) = m + 1
        /\ \A k \in 1 .. m : new[k] = chain[k]
        /\ new[m + 1] = node
    BY <1>1, AppendProperties
  <1>3. m = Len(chain)
    OBVIOUS
  <1> HIDE DEF new, m
  <1>4. L \subseteq PieceType /\ \A b \in L : b.node \in 1 .. m
    BY <1>3 DEF ChainInv
  <1>5. On(L, m + 1) = {}
    BY <1>1, <1>4 DEF On
  <1>6. ASSUME NEW k \in 1 .. m + 1 PROVE NodeOk(new[k], On(L, k))
    <2>1. CASE k \in 1 .. m
      BY <1>2, <1>3, <2>1 DEF ChainInv
    <2>2. CASE k = m + 1
      BY <1>2, <1>5, <2>2
    <2>3. QED
      BY <1>1, <2>1, <2>2
  <1>7. \A b \in L : b.node \in 1 .. m + 1
    BY <1>1, <1>4
  <1>8. QED
    BY <1>2, <1>4, <1>6, <1>7 DEF ChainInv, new

(* Some node of the chain that is offered serves. *)
LEMMA OfferedKeeps ==
  ASSUME ChainInv(nodes, held), NEW count \in ArenaCounts
  PROVE  LET chain == Arena!Offered(count) IN
           /\ ChainInv(chain, held)
           /\ \E k \in 1 .. Len(chain) : Arena!Serves(chain[k], count)
  <1> DEFINE node == Arena!Node(Arena!NewNodeSize(count))
  <1>1. nodes \in Seq(NodeType) /\ DOMAIN nodes = 1 .. Len(nodes)
    BY LenProperties DEF ChainInv
  <1>2. CASE \E k \in DOMAIN nodes : Arena!Serves(nodes[k], count)
    BY <1>1, <1>2 DEF Arena!Offered
  <1>3. CASE ~ \E k \in DOMAIN nodes : Arena!Serves(nodes[k], count)
    <2>1. Arena!Offered(count) = Append(nodes, node)
      BY <1>3 DEF Arena!Offered
    <2>2. NodeOk(node, {}) /\ Arena!Serves(node, count)
      BY NewNodeServes
    <2> HIDE DEF node
    <2>3. ChainInv(Append(nodes, node), held)
      BY <2>2, AppendKeeps
    <2>4. /\ Len(Append(nodes, node)) = Len(nodes) + 1 /\ Len(nodes) \in Nat
          /\ Append(nodes, node)[Len(nodes) + 1] = node
      BY <1>1, <2>2, AppendProperties, LenProperties DEF NodeOk
    <2>5. QED
      BY <2>1, <2>2, <2>3, <2>4
  <1>4. QED
    BY <1>2, <1>3

(* Another node in the place of one. *)
LEMMA NodeReplaced ==
  ASSUME NEW chain \in Seq(NodeType), NEW h \in 1 .. Len(chain), NEW node \in NodeType
  PROVE  LET new == [chain EXCEPT ![h] = node]
         IN /\ new \in Seq(NodeType) /\ Len(new) = Len(chain) /\ new[h] = node
            /\ \A k \in 1 .. Len(chain) : k # h => new[k] = chain[k]
  BY ExceptSeq

(* Another list in one of the nodes. *)
LEMMA NodeChanged ==
  ASSUME NEW chain, NEW L, ChainInv(chain, L), NEW h \in 1 .. Len(chain),
         NEW new \in Seq(NodeType), Len(new) = Len(chain),
         \A k \in 1 .. Len(chain) : k # h => new[k] = chain[k],
         NEW L1 \in SUBSET PieceType, NodeOk(new[h], On(L1, h)),
         \A b \in L1 : b.node \in 1 .. Len(chain),
         \A k : k # h => On(L1, k) = On(L, k)
  PROVE  ChainInv(new, L1)
  BY DEF ChainInv

(* allocate_from_node *)
LEMMA LessKeeps ==
  ASSUME NEW chain, NEW L, ChainInv(chain, L), NEW count \in ArenaCounts,
         \E k \in 1 .. Len(chain) : Arena!Serves(chain[k], count),
         NEW piece, piece = Arena!Piece(chain, count),
         NEW new, new = Arena!Less(chain, piece, count)
  PROVE  ChainInv(new, L \cup {piece})
  <1> DEFINE total == TotalSize(count, 8)
             serving == {k \in DOMAIN chain : Arena!Serves(chain[k], count)}
             h == piece.node
             p == FindSmallest(chain[h].list, total)
             c == chain[h].list[p]
  <1>1. chain \in Seq(NodeType) /\ DOMAIN chain = 1 .. Len(chain) /\ Len(chain) \in Nat
    BY LenProperties DEF ChainInv
  <1>2. h \in 1 .. Len(chain) /\ Arena!Serves(chain[h], count)
    <2>1. serving \subseteq Nat /\ serving # {}
      BY <1>1
    <2>2. Arena!Piece(chain, count).node = Min(serving)
      BY DEF Arena!Piece, Arena!Min, Min
    <2> HIDE DEF serving
    <2>3. h \in serving
      BY <2>1, <2>2, MinIs
    <2>4. QED
      BY <1>1, <2>3 DEF serving
  <1>3. piece = [node |-> h, at |-> c.at, size |-> Taken(c, total)]
    <2> DEFINE g == Arena!Min(serving)
               d == chain[g].list[Arena!Place(chain[g], count)]
    <2>1. piece = [node |-> g, at |-> d.at,
                   size |-> Arena!Taken(d, Arena!TotalSize(count, Arena!Alignment))]
      BY DEF Arena!Piece
    <2>2. d = chain[g].list[Arena!Place(chain[g], count)]
      OBVIOUS
    <2> HIDE DEF g, d
    <2>3. h = g
      BY <2>1
    <2> HIDE DEF h
    <2>4. d = c
      BY <2>2, <2>3, ArenaTakes
    <2> HIDE DEF c
    <2>5. QED
      BY <2>1, <2>3, <2>4, SameTake, SameTotal
  <1>4. new = [chain EXCEPT ![h].list = Take(@, p, total),
                            ![h].allocated = @ + piece.size]
    BY ArenaLess
  <1> HIDE DEF h
  <1>5. p # 0
    BY <1>2, ArenaTakes
  <1> HIDE DEF p
  <1>6. count \in Nat \ {0} /\ total \in Nat /\ total % 8 = 0 /\ total >= NodeSize
    <2>1. count \in Nat \ {0} /\ 8 \in Nat \ {0} /\ 8 % 8 = 0
      BY ArenaSizes
    <2>2. QED
      BY <2>1, TotalIs
  <1> HIDE DEF total
  <1>7. /\ chain[h] \in NodeType /\ chain[h].total \in Nat /\ chain[h].list \in Seq(ChunkType)
        /\ chain[h].allocated \in Int /\ chain[h].total >= ArenaBase
        /\ Tiles(chain[h].list, On(L, h), chain[h].total)
        /\ IsFreeList(chain[h].list, chain[h].total, {})
    BY <1>2 DEF ChainInv, NodeOk, NodeType, Tiles
  <1>8. HasRoom(chain[h].list, p, total)
    BY <1>5, <1>6, <1>7, FindSmallestIs DEF p
  <1>9. piece.node = h /\ piece.at = c.at /\ piece.size = Taken(c, total)
    BY <1>3
  <1> HIDE DEF c
  <1>10. /\ Tiles(Take(chain[h].list, p, total), On(L, h) \cup {piece}, chain[h].total)
         /\ piece \notin On(L, h)
    <2> DEFINE list == chain[h].list
               n == chain[h].total
    <2>1. /\ n \in Nat /\ Tiles(list, On(L, h), n) /\ HasRoom(list, p, total)
          /\ piece.at = list[p].at /\ piece.size = Taken(list[p], total)
      BY <1>7, <1>8, <1>9 DEF c
    <2> HIDE DEF list, n
    <2>2. Tiles(Take(list, p, total), On(L, h) \cup {piece}, n) /\ piece \notin On(L, h)
      BY <1>6, <2>1, TakeTiles
    <2>3. QED
      BY <2>2 DEF list, n
  <1>11. piece \in PieceType
    <2>1. piece.at \in Nat /\ piece.size \in Nat
      BY <1>10 DEF Tiles
    <2>2. h \in Nat
      BY <1>1, <1>2
    <2>3. QED
      BY <1>3, <1>9, <2>1, <2>2 DEF PieceType
  <1> DEFINE node == [total |-> chain[h].total,
                      allocated |-> chain[h].allocated + piece.size,
                      list |-> Take(chain[h].list, p, total)]
  <1>12. node \in NodeType
    <2>1. Take(chain[h].list, p, total) \in Seq(ChunkType)
      BY <1>10 DEF Tiles, IsFreeList
    <2>2. chain[h].allocated + piece.size \in Int
      BY <1>7, <1>11 DEF PieceType
    <2>3. QED
      BY <1>7, <2>1, <2>2 DEF NodeType
  <1>13. new = [chain EXCEPT ![h] = node]
    BY <1>2, <1>4, <1>7 DEF NodeType
  <1>14. /\ new \in Seq(NodeType) /\ Len(new) = Len(chain) /\ new[h] = node
         /\ \A k \in 1 .. Len(chain) : k # h => new[k] = chain[k]
    <2> HIDE DEF node
    <2>1. QED
      BY <1>1, <1>2, <1>12, <1>13, ExceptSeq
  <1>15. /\ node.total = chain[h].total /\ node.list = Take(chain[h].list, p, total)
    OBVIOUS
  <1> HIDE DEF node
  <1> DEFINE L1 == L \cup {piece}
  <1>16. On(L1, h) = On(L, h) \cup {piece} /\ \A k : k # h => On(L1, k) = On(L, k)
    BY <1>9 DEF On
  <1>17. NodeOk(new[h], On(L1, h))
    BY <1>7, <1>10, <1>12, <1>14, <1>15, <1>16 DEF NodeOk
  <1>18. L1 \in SUBSET PieceType /\ \A b \in L1 : b.node \in 1 .. Len(chain)
    BY <1>2, <1>9, <1>11 DEF ChainInv
  <1> HIDE DEF L1
  <1>19. ChainInv(new, L1)
    BY <1>2, <1>14, <1>16, <1>17, <1>18, NodeChanged
  <1>20. QED
    BY <1>19 DEF L1

LEMMA ArenaReturned ==
  \A node, b, word :
    Arena!Returned(node, b, word) =
      [total |-> node.total,
       allocated |-> node.allocated - word,
       list |-> GiveBack(node.list, b.at, b.size, word)]
  BY SameGiveBack DEF Arena!Returned

LEMMA ArenaRelease ==
  ASSUME NEW chain, NEW L, NEW b, NEW word, Arena!Release(chain, L, b, word)
  PROVE  \/ /\ nodes' = [chain EXCEPT ![b.node] = Arena!Returned(chain[b.node], b, word)]
            /\ held' = L \ {b}
            /\ stray' = stray
         \/ /\ ~ sticky
            /\ nodes' = SubSeq(chain, 1, b.node - 1)
            /\ held' = {c \in L : c.node < b.node}
            /\ stray' = (stray \/ \E c \in L \ {b} : c.node >= b.node)
  BY DEF Arena!Release, Arena!Emptied

LEMMA ArenaDead ==
  ASSUME NEW chain, NEW L, NEW b, NEW word, Arena!Release(chain, L, b, word)
  PROVE  /\ dead' \in BOOLEAN
         /\ ~ dead' => GiveBack(chain[b.node].list, b.at, b.size, word) =
                       GiveBack(chain[b.node].list, b.at, b.size, b.size)
  <1>1. dead' = (Arena!GiveBack(chain[b.node].list, b.at, b.size, word) #
                 Arena!GiveBack(chain[b.node].list, b.at, b.size, b.size))
    BY DEF Arena!Release
  <1>2. QED
    BY <1>1, SameGiveBack, Zenon

(* ms_arena_free of a node that stays. *)
LEMMA ReturnKeeps ==
  ASSUME NEW chain, NEW L, ChainInv(chain, L), NEW b \in L,
         NEW word \in Nat,
         GiveBack(chain[b.node].list, b.at, b.size, word) =
           GiveBack(chain[b.node].list, b.at, b.size, b.size),
         NEW new, new = [chain EXCEPT ![b.node] = Arena!Returned(chain[b.node], b, word)]
  PROVE  ChainInv(new, L \ {b})
  <1> DEFINE h == b.node
             list == GiveBack(chain[h].list, b.at, b.size, b.size)
             node == Arena!Returned(chain[h], b, word)
  <1>1. /\ chain \in Seq(NodeType) /\ h \in 1 .. Len(chain) /\ b \in On(L, h)
    BY DEF ChainInv, On
  <1>2. node = [total |-> chain[h].total,
                allocated |-> chain[h].allocated - word,
                list |-> list]
    BY ArenaReturned
  <1> HIDE DEF h
  <1>4. /\ chain[h] \in NodeType /\ chain[h].total \in Nat /\ chain[h].allocated \in Int
        /\ chain[h].total >= ArenaBase
        /\ Tiles(chain[h].list, On(L, h), chain[h].total)
    BY <1>1 DEF ChainInv, NodeOk, NodeType
  <1>5. Tiles(list, On(L, h) \ {b}, chain[h].total) /\ AlsoFree(list, chain[h].list, b)
    BY <1>1, <1>4, GiveBackTiles
  <1> HIDE DEF list
  <1>6. list \in Seq(ChunkType)
    BY <1>5 DEF Tiles, IsFreeList
  <1>7. node \in NodeType
    <2>1. chain[h].allocated - word \in Int
      BY <1>4
    <2> HIDE DEF node
    <2>2. QED
      BY <1>2, <1>4, <1>6, <2>1 DEF NodeType
  <1>8. new = [chain EXCEPT ![h] = node]
    BY DEF h
  <1> HIDE DEF node
  <1>9. node.total = chain[h].total /\ node.list = list
    BY <1>2
  <1>10. /\ new \in Seq(NodeType) /\ Len(new) = Len(chain) /\ new[h] = node
         /\ \A k \in 1 .. Len(chain) : k # h => new[k] = chain[k]
    <2>1. chain \in Seq(NodeType) /\ h \in 1 .. Len(chain) /\ node \in NodeType
      BY <1>1, <1>7
    <2>2. LET exc == [chain EXCEPT ![h] = node]
          IN /\ exc \in Seq(NodeType) /\ Len(exc) = Len(chain) /\ exc[h] = node
             /\ \A k \in 1 .. Len(chain) : k # h => exc[k] = chain[k]
      BY ONLY <2>1, NodeReplaced
    <2>3. QED
      BY <1>8, <2>2
  <1>11. On(L \ {b}, h) = On(L, h) \ {b} /\ \A k : k # h => On(L \ {b}, k) = On(L, k)
    BY DEF On, h
  <1>12. NodeOk(new[h], On(L \ {b}, h))
    BY <1>4, <1>5, <1>6, <1>7, <1>9, <1>10, <1>11 DEF NodeOk
  <1>13. L \ {b} \in SUBSET PieceType /\ \A c \in L \ {b} : c.node \in 1 .. Len(chain)
    BY DEF ChainInv
  <1> DEFINE L1 == L \ {b}
  <1>14. ChainInv(new, L1)
    <2> HIDE DEF L1
    <2>1. /\ L1 \in SUBSET PieceType /\ NodeOk(new[h], On(L1, h))
          /\ \A c \in L1 : c.node \in 1 .. Len(chain)
          /\ \A k : k # h => On(L1, k) = On(L, k)
      BY <1>11, <1>12, <1>13 DEF L1
    <2>2. QED
      BY <1>1, <1>10, <2>1, NodeChanged
  <1>15. QED
    BY <1>14

(* And of one that goes, with those behind it. *)
LEMMA CutKeeps ==
  ASSUME NEW chain, NEW L, ChainInv(chain, L), NEW b \in L
  PROVE  ChainInv(SubSeq(chain, 1, b.node - 1), {c \in L : c.node < b.node})
  <1> DEFINE h == b.node - 1
             new == SubSeq(chain, 1, h)
             L1 == {c \in L : c.node < b.node}
  <1>1. /\ chain \in Seq(NodeType) /\ h \in 0 .. Len(chain) /\ b.node = h + 1
        /\ Len(chain) \in Nat /\ L \subseteq PieceType
        /\ \A c \in L : c.node \in 1 .. Len(chain)
    <2>1. Len(chain) \in Nat /\ b.node \in 1 .. Len(chain)
      BY LenProperties DEF ChainInv
    <2>2. QED
      BY <2>1 DEF ChainInv
  <1>2. SubSeq(chain, 1, b.node - 1) = new
    OBVIOUS
  <1> HIDE DEF h
  <1>3. /\ new \in Seq(NodeType) /\ Len(new) = h
        /\ \A k \in 1 .. h : new[k] = chain[k]
    <2>1. 1 \in Int /\ h \in Int /\ \A k \in 1 .. h : chain[k] \in NodeType
      BY <1>1, ElementOfSeq
    <2>2. /\ new \in Seq(NodeType)
          /\ Len(new) = IF 1 <= h THEN h - 1 + 1 ELSE 0
          /\ \A k \in 1 .. h - 1 + 1 : new[k] = chain[1 + k - 1]
      BY <2>1, SubSeqProperties
    <2> HIDE DEF new
    <2>3. \A k \in 1 .. h : k \in 1 .. h - 1 + 1 /\ 1 + k - 1 = k
      BY <1>1
    <2>4. Len(new) = h
      BY <1>1, <2>2
    <2>5. QED
      BY <2>2, <2>3, <2>4
  <1> HIDE DEF new
  <1>4. \A c \in L : c \in L1 <=> c.node \in 1 .. h
    BY <1>1
  <1>5. L1 \subseteq L
    OBVIOUS
  <1> HIDE DEF L1
  <1>6. \A k \in 1 .. h : On(L1, k) = On(L, k)
    BY <1>4, <1>5 DEF On
  <1>7. \A k \in 1 .. h : NodeOk(new[k], On(L1, k))
    <2> SUFFICES ASSUME NEW k \in 1 .. h PROVE NodeOk(new[k], On(L1, k))
      OBVIOUS
    <2>1. k \in 1 .. Len(chain)
      BY <1>1
    <2>2. QED
      BY <1>3, <1>6, <2>1 DEF ChainInv
  <1>8. ChainInv(new, L1)
    BY <1>1, <1>3, <1>4, <1>5, <1>7 DEF ChainInv
  <1>9. QED
    BY <1>2, <1>8 DEF L1

LEMMA ReleaseKeeps ==
  ASSUME AInv, ~ dead, NEW chain, NEW L, ChainInv(chain, L), NEW b \in L,
         NEW word \in Nat, Arena!Release(chain, L, b, word), sticky' = sticky
  PROVE  AInv'
  <1>1. dead' \in BOOLEAN /\ sticky' \in BOOLEAN /\ stray \in BOOLEAN /\ (sticky => ~ stray)
    BY ArenaDead DEF AInv
  <1>2. stray' \in BOOLEAN /\ (sticky' => ~ stray')
    <2>1. \/ stray' = stray
          \/ ~ sticky /\ stray' = (stray \/ \E c \in L \ {b} : c.node >= b.node)
      BY ArenaRelease
    <2>2. CASE stray' = stray
      BY <1>1, <2>2
    <2>3. CASE ~ sticky /\ stray' = (stray \/ \E c \in L \ {b} : c.node >= b.node)
      <3>1. stray' \in BOOLEAN
        BY <2>3, Zenon
      <3>2. QED
        BY <2>3, <3>1
    <2>4. QED
      BY <2>1, <2>2, <2>3
  <1>3. ASSUME ~ dead' PROVE ChainInv(nodes', held')
    <2>1. GiveBack(chain[b.node].list, b.at, b.size, word) =
            GiveBack(chain[b.node].list, b.at, b.size, b.size)
      BY <1>3, ArenaDead
    <2>2. CASE /\ nodes' = [chain EXCEPT ![b.node] = Arena!Returned(chain[b.node], b, word)]
               /\ held' = L \ {b}
      BY <2>1, <2>2, ReturnKeeps
    <2>3. CASE /\ nodes' = SubSeq(chain, 1, b.node - 1)
               /\ held' = {c \in L : c.node < b.node}
      BY <2>3, CutKeeps
    <2>4. QED
      BY <2>2, <2>3, ArenaRelease
  <1>4. QED
    BY <1>1, <1>2, <1>3 DEF AInv

LEMMA EmptyChain == ChainInv(<< >>, {})
  <1>1. << >> \in Seq(NodeType) /\ Len(<< >>) = 0
    OBVIOUS
  <1>2. QED
    BY <1>1 DEF ChainInv

LEMMA ArenaInit == Arena!Init => AInv
  BY EmptyChain DEF Arena!Init, AInv

(* Every node is one free chunk again. *)
LEMMA ClearKeeps ==
  ASSUME ChainInv(nodes, held)
  PROVE  ChainInv([k \in DOMAIN nodes |-> Arena!Node(nodes[k].total)], {})
  <1> DEFINE m == Len(nodes)
             new == [k \in DOMAIN nodes |-> Arena!Node(nodes[k].total)]
  <1>1. /\ nodes \in Seq(NodeType) /\ m \in Nat /\ DOMAIN nodes = 1 .. m
        /\ \A k \in 1 .. m : nodes[k].total \in Nat /\ nodes[k].total >= ArenaBase
    BY LenProperties DEF ChainInv, NodeOk, NodeType
  <1> HIDE DEF m
  <1>2. ASSUME NEW k \in 1 .. m PROVE NodeOk(new[k], {})
    <2> DEFINE n == nodes[k].total
               list == <<Chunk(0, n)>>
    <2>1. n \in Nat /\ n >= ArenaBase /\ n >= 24
      BY <1>1, ArenaSizes
    <2>2. new[k] = [total |-> n, allocated |-> 0, list |-> list]
      BY <1>1, ArenaTakes
    <2> HIDE DEF n
    <2>3. Tiles(list, {}, n)
      BY <2>1, TilesAtFirst
    <2> HIDE DEF list, new
    <2>4. list \in Seq(ChunkType)
      BY <2>3 DEF Tiles, IsFreeList
    <2>5. QED
      BY <2>1, <2>2, <2>3, <2>4 DEF NodeOk, NodeType
  <1>3. new \in [1 .. m -> NodeType]
    BY <1>1, <1>2 DEF NodeOk
  <1> HIDE DEF new
  <1>4. new \in Seq(NodeType) /\ Len(new) = m
    BY <1>1, <1>3, IsASeq, LenProperties
  <1>5. \A k \in 1 .. m : NodeOk(new[k], On({}, k))
    BY <1>2 DEF On
  <1>6. QED
    BY <1>4, <1>5 DEF ChainInv, new

LEMMA ArenaStep == AInv /\ [Arena!Next]_arenaVars => AInv'
  <1> SUFFICES ASSUME AInv, [Arena!Next]_arenaVars PROVE AInv'
    OBVIOUS
  <1>1. ~ dead => ChainInv(nodes, held)
    BY DEF AInv
  <1>2. ASSUME NEW count \in ArenaCounts, Arena!Malloc(count) PROVE AInv'
    <2> DEFINE chain == Arena!Offered(count)
               piece == Arena!Piece(chain, count)
               new == Arena!Less(chain, piece, count)
    <2>1. /\ ~ dead /\ nodes' = new /\ held' = held \cup {piece}
          /\ sticky' = sticky /\ stray' = stray /\ dead' = dead
      BY <1>2 DEF Arena!Malloc
    <2>2. ChainInv(chain, held) /\ \E k \in 1 .. Len(chain) : Arena!Serves(chain[k], count)
      BY <1>1, <2>1, OfferedKeeps
    <2>3. piece = Arena!Piece(chain, count) /\ new = Arena!Less(chain, piece, count)
      OBVIOUS
    <2> HIDE DEF chain, piece, new
    <2>4. ChainInv(new, held \cup {piece})
      BY <2>2, <2>3, LessKeeps
    <2>5. QED
      BY <2>1, <2>4 DEF AInv
  <1>3. ASSUME NEW b \in held, NEW word \in Nat, Arena!Free(b, word) PROVE AInv'
    <2>1. ~ dead /\ Arena!Release(nodes, held, b, word) /\ sticky' = sticky
      BY <1>3 DEF Arena!Free
    <2>2. QED
      BY <1>1, <2>1, ReleaseKeeps
  <1>4. ASSUME NEW b \in held, NEW count \in ArenaCounts, Arena!ReallocInPlace(b, count)
        PROVE  AInv'
    BY <1>4 DEF Arena!ReallocInPlace, Arena!vars, AInv
  <1>5. ASSUME NEW b \in held, NEW count \in ArenaCounts, NEW word \in Nat,
               Arena!ReallocMoved(b, count, word)
        PROVE  AInv'
    <2> DEFINE chain == Arena!Offered(count)
               piece == Arena!Piece(chain, count)
               new == Arena!Less(chain, piece, count)
    <2>1. ~ dead /\ Arena!Release(new, held \cup {piece}, b, word) /\ sticky' = sticky
      BY <1>5 DEF Arena!ReallocMoved
    <2>2. ChainInv(chain, held) /\ \E k \in 1 .. Len(chain) : Arena!Serves(chain[k], count)
      BY <1>1, <2>1, OfferedKeeps
    <2>3. piece = Arena!Piece(chain, count) /\ new = Arena!Less(chain, piece, count)
      OBVIOUS
    <2> HIDE DEF chain, piece, new
    <2>4. ChainInv(new, held \cup {piece})
      BY <2>2, <2>3, LessKeeps
    <2>5. b \in held \cup {piece}
      OBVIOUS
    <2>6. QED
      BY <2>1, <2>4, <2>5, ReleaseKeeps
  <1>6. CASE Arena!Clear
    <2>1. ~ dead /\ ChainInv(nodes', held')
      BY <1>1, <1>6, ClearKeeps DEF Arena!Clear
    <2>2. QED
      BY <1>6, <2>1 DEF AInv, Arena!Clear
  <1>7. CASE Arena!ClearFreed
    BY <1>7 DEF AInv, Arena!ClearFreed
  <1>8. CASE Arena!Destroy
    BY <1>8, EmptyChain DEF AInv, Arena!Destroy
  <1>9. CASE UNCHANGED arenaVars
    BY <1>9 DEF arenaVars, AInv
  <1>10. ASSUME ~ dead, NEW b \in held, NEW word \in Arena!Words(b) PROVE word \in Nat
    <2>1. held \subseteq PieceType
      BY <1>1, <1>10 DEF ChainInv
    <2>2. b.size \in Nat
      BY <2>1 DEF PieceType
    <2>3. QED
      BY <2>2, ArenaSizes DEF Arena!Words
  <1>11. ASSUME NEW b \in held, NEW word \in Arena!Words(b), Arena!Free(b, word) PROVE AInv'
    <2>1. word \in Nat
      BY <1>10, <1>11 DEF Arena!Free
    <2>2. QED
      BY <1>3, <1>11, <2>1
  <1>12. ASSUME NEW b \in held, NEW count \in ArenaCounts, NEW word \in Arena!Words(b),
                Arena!ReallocMoved(b, count, word)
         PROVE  AInv'
    <2>1. word \in Nat
      BY <1>10, <1>12 DEF Arena!ReallocMoved
    <2>2. QED
      BY <1>5, <1>12, <2>1
  <1>13. QED
    BY <1>2, <1>4, <1>6, <1>7, <1>8, <1>9, <1>11, <1>12 DEF Arena!Next

LEMMA ArenaInvariant == Arena!Spec => []AInv
  <1>1. AInv /\ [Arena!Next]_(Arena!vars) => AInv'
    BY ArenaStep DEF Arena!vars, arenaVars
  <1>2. QED
    BY <1>1, ArenaInit, PTL DEF Arena!Spec

(* ArenaIntact in the words of the free list. *)
LEMMA ArenaIntactIs ==
  ASSUME Arena!TypeOK, ~ dead => (sticky => ~ stray),
         ~ dead => \A k \in DOMAIN nodes :
           \A a \in {x \in 0 .. nodes[k].total - 1 : x % 8 = 0} :
             Cardinality({c \in ToSet(nodes[k].list) : c.at <= a /\ a < End(c)}) +
             Cardinality({b \in held : b.node = k /\ b.at <= a /\ a < b.at + b.size}) = 1
  PROVE  ArenaIntact
  BY DEF ArenaIntact, Arena!ArenaIntact, Arena!Alignment, Arena!ToSet, ToSet, Arena!End, End,
         Arena!Cardinality, Cardinality

LEMMA ArenaIntactHolds == AInv => ArenaIntact
  <1> SUFFICES ASSUME AInv PROVE ArenaIntact
    OBVIOUS
  <1>1. ~ dead => /\ nodes \in Seq(NodeType) /\ DOMAIN nodes = 1 .. Len(nodes)
                  /\ sticky => ~ stray
    BY LenProperties DEF AInv, ChainInv
  <1>2. Arena!TypeOK
    BY <1>1 DEF AInv, ChainInv, Arena!TypeOK
  <1>3. ASSUME ~ dead, NEW k \in DOMAIN nodes,
               NEW a \in {x \in 0 .. nodes[k].total - 1 : x % 8 = 0}
        PROVE  Cardinality({c \in ToSet(nodes[k].list) : c.at <= a /\ a < End(c)}) +
               Cardinality({b \in held : b.node = k /\ b.at <= a /\ a < b.at + b.size}) = 1
    <2> DEFINE list == nodes[k].list
               n == nodes[k].total
               free == {j \in 1 .. Len(list) : list[j].at <= a /\ a < End(list[j])}
               used == {b \in On(held, k) : b.at <= a /\ a < b.at + b.size}
               chunksAt == {c \in ToSet(list) : c.at <= a /\ a < End(c)}
    <2>1. Tiles(list, On(held, k), n) /\ n \in Nat /\ list \in Seq(ChunkType)
      BY <1>1, <1>3 DEF AInv, ChainInv, NodeOk, NodeType
    <2>2. {b \in held : b.node = k /\ b.at <= a /\ a < b.at + b.size} = used
      BY DEF On
    <2>3. a \in 0 .. n - 1 /\ DOMAIN list = 1 .. Len(list)
      BY <2>1, LenProperties
    <2> HIDE DEF list, n
    <2>4. \/ used = {} /\ \E j \in 1 .. Len(list) : free = {j}
          \/ free = {} /\ \E b \in On(held, k) : used = {b}
      BY <2>1, <2>3, TiledOnce
    <2>5. chunksAt = {list[j] : j \in free}
      BY <2>3 DEF ToSet
    <2> HIDE DEF free, used, chunksAt
    <2>6. \/ used = {} /\ \E c : chunksAt = {c}
          \/ chunksAt = {} /\ \E b : used = {b}
      <3>1. CASE used = {} /\ \E j \in 1 .. Len(list) : free = {j}
        <4>1. PICK j \in 1 .. Len(list) : free = {j}
          BY <3>1
        <4>2. chunksAt = {list[j]}
          BY <2>5, <4>1
        <4>3. QED
          BY <3>1, <4>2
      <3>2. CASE free = {} /\ \E b \in On(held, k) : used = {b}
        <4>1. chunksAt = {}
          BY <2>5, <3>2
        <4>2. QED
          BY <3>2, <4>1
      <3>3. QED
        BY <2>4, <3>1, <3>2
    <2>7. Cardinality({}) = 0 /\ \A e : Cardinality({e}) = 1
      BY FS_EmptySet, FS_Singleton
    <2>8. \/ Cardinality(chunksAt) = 1 /\ Cardinality(used) = 0
          \/ Cardinality(chunksAt) = 0 /\ Cardinality(used) = 1
      BY <2>6, <2>7, Zenon
    <2>9. Cardinality(chunksAt) + Cardinality(used) = 1
      BY <2>8
    <2>10. QED
      BY <2>2, <2>9 DEF chunksAt, list
  <1>4. QED
    BY <1>1, <1>2, <1>3, ArenaIntactIs

(***************************************************************************)
(* Blocks and free chunks tile the nodes of an arena, however many there   *)
(* are and of whatever size, whatever users leave in their blocks and the  *)
(* counters make of it, until it reads freed memory or a chunk is put in   *)
(* the wrong place; and a sticky arena keeps the node of every block.      *)
(***************************************************************************)
THEOREM ArenaTiling == Arena!Spec => []ArenaIntact
  BY ArenaInvariant, ArenaIntactHolds, PTL

(***************************************************************************)
(* A node ms_arena_malloc appends has room for the request it was made for *)
(* with its header, whatever is asked for.                                 *)
(***************************************************************************)
THEOREM ArenaService == Arena!Spec => []ArenaServes
  <1>1. AInv => ArenaServes
    BY NewNodeServes DEF AInv, ArenaServes, Arena!ArenaServes
  <1>2. QED
    BY <1>1, ArenaInvariant, PTL

-----------------------------------------------------------------------------
(***************************************************************************)
(* ms_stack.  As long as no stack is cleared under a thread that           *)
(* allocates, blocks do not overlap and are committed.                     *)
(***************************************************************************)

LEMMA StackSizes ==
  /\ StackSize \in Nat /\ StackThreshold \in Nat /\ StackPage \in Nat \ {0}
  /\ Default \in Nat /\ Sizes \subseteq Nat \ {0} /\ StackAlignments \subseteq Nat \ {0}
  BY MemoryAssumption DEF MemoryAssumption, StackSensible

Pending == {t \in Threads : sPc[t] # "idle"}
BlockOf(t) == Stack!Block(sFrom[t], sEnd[t])

(* What is handed out or about to be lies below top. *)
BelowTop ==
  /\ \A t \in Pending : sFrom[t] <= sEnd[t] /\ sEnd[t] <= sTop
  /\ \A b \in sBlocks : b.at <= b.end /\ b.end <= sTop

(* Blocks on their way are apart from each other and from those in use. *)
PendingApart ==
  \A t \in Pending :
    /\ \A u \in Pending \ {t} : Stack!Apart(BlockOf(t), BlockOf(u))
    /\ \A b \in sBlocks : Stack!Apart(b, BlockOf(t))

(* What each thread may rely on about the committed pages. *)
KnownCommitted ==
  /\ Stack!Touched(0, sCommittedTop) \subseteq sMapped
  /\ \A t \in Threads :
       /\ sPc[t] = "commit" => Stack!Touched(0, sSeen[t]) \subseteq sMapped
       /\ sPc[t] = "publish" => Stack!Touched(0, sEnd[t]) \subseteq sMapped
       /\ sPc[t] = "return" => Stack!Touched(sFrom[t], sEnd[t]) \subseteq sMapped

(* During a clear nobody holds or wants a block. *)
ClearAlone ==
  /\ sClearing # "idle" => Stack!Idle /\ sBlocks = {}
  /\ sClearing = "decommit" => sCommittedTop = 0

SInv ==
  /\ Stack!TypeOK
  /\ BelowTop
  /\ PendingApart
  /\ Stack!Disjoint
  /\ KnownCommitted
  /\ Stack!Committed
  /\ ClearAlone

(* A smaller range touches no other pages. *)
LEMMA TouchedMonotone ==
  ASSUME NEW a \in Int, NEW b \in Int, NEW c \in Int, NEW d \in Int, c <= a, b <= d
  PROVE  Stack!Touched(a, b) \subseteq Stack!Touched(c, d)
  <1>1. a .. b - 1 \subseteq c .. d - 1
    OBVIOUS
  <1>2. QED
    BY <1>1 DEF Stack!Touched

(* A range is covered by its two parts. *)
LEMMA TouchedSplit ==
  ASSUME NEW a \in Int, NEW b \in Int, NEW c \in Int
  PROVE  Stack!Touched(a, c) \subseteq Stack!Touched(a, b) \cup Stack!Touched(b, c)
  <1>1. a .. c - 1 \subseteq (a .. b - 1) \cup (b .. c - 1)
    OBVIOUS
  <1>2. QED
    BY <1>1 DEF Stack!Touched

LEMMA TouchedEmpty == Stack!Touched(0, 0) = {}
  <1>1. 0 .. 0 - 1 = {}
    OBVIOUS
  <1>2. QED
    BY <1>1 DEF Stack!Touched

LEMMA PaddedPositive ==
  ASSUME NEW size \in Sizes, NEW alignment \in StackAlignments
  PROVE  Stack!Padded(size, alignment) \in Nat
  BY StackSizes DEF Stack!Padded

LEMMA StackInit == Stack!Init => SInv
  <1> SUFFICES ASSUME Stack!Init PROVE SInv
    OBVIOUS
  <1> USE DEF Stack!Init
  <1>1. Stack!TypeOK
    BY StackSizes, TouchedEmpty DEF Stack!TypeOK
  <1>2. BelowTop /\ PendingApart /\ Stack!Disjoint
    BY DEF BelowTop, PendingApart, Stack!Disjoint, Pending
  <1>3. KnownCommitted /\ Stack!Committed /\ ClearAlone
    BY TouchedEmpty DEF KnownCommitted, Stack!Committed, ClearAlone
  <1>4. QED
    BY <1>1, <1>2, <1>3 DEF SInv

(* A new block begins where everything handed out before ends. *)
LEMMA StackMallocStep ==
  ASSUME Quiet, SInv, NEW t \in Threads, NEW size \in Sizes, NEW alignment \in StackAlignments,
         Stack!Malloc(t, size, alignment)
  PROVE  SInv'
  <1> DEFINE total == Stack!Padded(size, alignment)
  <1>1. total \in Nat
    BY PaddedPositive
  <1> HIDE DEF total
  <1>2. /\ sPc[t] = "idle" /\ sPc' = [sPc EXCEPT ![t] = "load"]
        /\ sFrom' = [sFrom EXCEPT ![t] = sTop]
        /\ sEnd' = [sEnd EXCEPT ![t] = sTop + total]
        /\ sTop' = sTop + total /\ sTop + total <= StackSize
        /\ UNCHANGED <<sCommittedTop, sMapped, sSeen, sClearing, sUpTo, sBlocks, sWiped>>
        /\ sClearing = "idle"
    BY DEF Stack!Malloc, Stack!Goto, Stack!Reserve, Stack!clearVars, total
  <1>3. Stack!TypeOK'
    BY <1>1, <1>2, StackSizes DEF SInv, Stack!TypeOK, Stack!Touched
  <1>4. /\ Pending' = Pending \cup {t} /\ t \notin Pending
        /\ \A u \in Pending : sFrom'[u] = sFrom[u] /\ sEnd'[u] = sEnd[u]
        /\ sFrom'[t] = sTop /\ sEnd'[t] = sTop + total
    BY <1>2 DEF SInv, Stack!TypeOK, Pending
  <1>5. BelowTop'
    BY <1>1, <1>2, <1>4 DEF SInv, Stack!TypeOK, BelowTop, Pending
  <1>6. PendingApart' /\ Stack!Disjoint'
    BY <1>1, <1>2, <1>4 DEF SInv, Stack!TypeOK, BelowTop, PendingApart, Stack!Disjoint,
                            Stack!Apart, BlockOf, Stack!Block
  <1>7. KnownCommitted'
    <2>1. \A u \in Threads : sPc'[u] # "load" => /\ sPc'[u] = sPc[u] /\ sSeen'[u] = sSeen[u]
                                                /\ sFrom'[u] = sFrom[u] /\ sEnd'[u] = sEnd[u]
      BY <1>2 DEF SInv, Stack!TypeOK
    <2>2. QED
      BY <1>2, <2>1 DEF SInv, KnownCommitted, Stack!Touched
  <1>8. Stack!Committed' /\ ClearAlone'
    BY <1>2 DEF SInv, Stack!Committed, ClearAlone, Stack!Touched
  <1>9. QED
    BY <1>3, <1>5, <1>6, <1>7, <1>8 DEF SInv

(* Looking at committed_top: if it is beyond the block, the block is       *)
(* committed.                                                              *)
LEMMA StackLoadStep ==
  ASSUME SInv, NEW t \in Threads, Stack!LoadCommitted(t)
  PROVE  SInv'
  <1>1. /\ sPc[t] = "load"
        /\ sPc' = [sPc EXCEPT ![t] = IF sEnd[t] > sCommittedTop THEN "commit" ELSE "return"]
        /\ sSeen' = [sSeen EXCEPT ![t] = sCommittedTop]
        /\ UNCHANGED <<sTop, sCommittedTop, sMapped, sFrom, sEnd, sClearing, sUpTo, sBlocks,
                       sWiped>>
    BY DEF Stack!LoadCommitted, Stack!Goto, Stack!clearVars
  <1>2. Stack!TypeOK'
    BY <1>1 DEF SInv, Stack!TypeOK, Stack!Touched
  <1>3. Pending' = Pending
    BY <1>1 DEF SInv, Stack!TypeOK, Pending
  <1>4. BelowTop' /\ PendingApart' /\ Stack!Disjoint'
    BY <1>1, <1>3 DEF SInv, BelowTop, PendingApart, Stack!Disjoint, BlockOf, Stack!Block,
                      Stack!Apart
  <1>5. KnownCommitted'
    <2>1. Stack!Touched(0, sCommittedTop) \subseteq sMapped
      BY DEF SInv, KnownCommitted
    <2>2. sEnd[t] <= sCommittedTop => Stack!Touched(sFrom[t], sEnd[t]) \subseteq sMapped
      BY <2>1, TouchedMonotone DEF SInv, Stack!TypeOK
    <2>3. /\ sPc'[t] = "commit" => sSeen'[t] = sCommittedTop
          /\ sPc'[t] # "publish"
          /\ sPc'[t] = "return" => sEnd[t] <= sCommittedTop
      BY <1>1 DEF SInv, Stack!TypeOK
    <2>4. \A u \in Threads \ {t} : sPc'[u] = sPc[u] /\ sSeen'[u] = sSeen[u]
      BY <1>1 DEF SInv, Stack!TypeOK
    <2>5. QED
      BY <1>1, <2>1, <2>2, <2>3, <2>4 DEF SInv, KnownCommitted, Stack!Touched
  <1>6. Stack!Committed' /\ ClearAlone'
    <2>1. ~ Stack!Idle
      BY <1>1 DEF Stack!Idle
    <2>2. QED
      BY <1>1, <2>1 DEF SInv, Stack!Committed, ClearAlone, Stack!Touched
  <1>7. QED
    BY <1>2, <1>4, <1>5, <1>6 DEF SInv

(* What was committed when the thread looked and what it commits itself    *)
(* reach from the base to the end of its block.                            *)
LEMMA StackCommitStep ==
  ASSUME SInv, NEW t \in Threads, Stack!Commit(t)
  PROVE  SInv'
  <1> DEFINE pages == Stack!Touched(sSeen[t], sEnd[t])
  <1>1. /\ sPc[t] = "commit" /\ sPc' = [sPc EXCEPT ![t] = "publish"]
        /\ sMapped' = sMapped \cup pages
        /\ sWiped' \subseteq sWiped \cup sBlocks
        /\ UNCHANGED <<sTop, sCommittedTop, sFrom, sEnd, sSeen, sClearing, sUpTo, sBlocks>>
    BY DEF Stack!Commit, Stack!Goto, Stack!clearVars
  <1>2. pages \subseteq Stack!Touched(0, StackSize)
    BY TouchedMonotone, StackSizes DEF SInv, Stack!TypeOK
  <1>3. Stack!Touched(0, sEnd[t]) \subseteq sMapped'
    <2>1. Stack!Touched(0, sEnd[t]) \subseteq Stack!Touched(0, sSeen[t]) \cup pages
      BY TouchedSplit DEF SInv, Stack!TypeOK
    <2>2. Stack!Touched(0, sSeen[t]) \subseteq sMapped
      BY <1>1 DEF SInv, KnownCommitted
    <2>3. QED
      BY <1>1, <2>1, <2>2
  <1> HIDE DEF pages
  <1>4. Stack!TypeOK'
    BY <1>1, <1>2 DEF SInv, Stack!TypeOK, Stack!Touched
  <1>5. Pending' = Pending
    BY <1>1 DEF SInv, Stack!TypeOK, Pending
  <1>6. BelowTop' /\ PendingApart' /\ Stack!Disjoint'
    BY <1>1, <1>5 DEF SInv, BelowTop, PendingApart, Stack!Disjoint, BlockOf, Stack!Block,
                      Stack!Apart
  <1>7. KnownCommitted'
    <2>1. sPc'[t] = "publish" /\ \A u \in Threads \ {t} : sPc'[u] = sPc[u]
      BY <1>1 DEF SInv, Stack!TypeOK
    <2>2. Stack!Touched(0, sEnd'[t]) \subseteq sMapped'
      BY <1>1, <1>3 DEF Stack!Touched
    <2>3. QED
      BY <1>1, <2>1, <2>2 DEF SInv, KnownCommitted, Stack!Touched
  <1>8. Stack!Committed' /\ ClearAlone'
    <2>1. ~ Stack!Idle
      BY <1>1 DEF Stack!Idle
    <2>2. QED
      BY <1>1, <2>1 DEF SInv, Stack!Committed, ClearAlone, Stack!Touched
  <1>9. QED
    BY <1>4, <1>6, <1>7, <1>8 DEF SInv

(* Whether the exchange succeeds or not, the block is committed.           *)
LEMMA StackPublishStep ==
  ASSUME SInv, NEW t \in Threads, Stack!Publish(t)
  PROVE  SInv'
  <1>1. /\ sPc[t] = "publish" /\ sPc' = [sPc EXCEPT ![t] = "return"]
        /\ sCommittedTop' \in {sCommittedTop, sEnd[t]}
        /\ UNCHANGED <<sTop, sMapped, sFrom, sEnd, sSeen, sClearing, sUpTo, sBlocks, sWiped>>
    BY DEF Stack!Publish, Stack!Goto, Stack!clearVars
  <1>2. Stack!TypeOK'
    BY <1>1 DEF SInv, Stack!TypeOK, Stack!Touched
  <1>3. Pending' = Pending
    BY <1>1 DEF SInv, Stack!TypeOK, Pending
  <1>4. BelowTop' /\ PendingApart' /\ Stack!Disjoint'
    BY <1>1, <1>3 DEF SInv, BelowTop, PendingApart, Stack!Disjoint, BlockOf, Stack!Block,
                      Stack!Apart
  <1>5. KnownCommitted'
    <2>1. Stack!Touched(0, sEnd[t]) \subseteq sMapped /\ Stack!Touched(0,
    sCommittedTop) \subseteq sMapped
      BY <1>1 DEF SInv, KnownCommitted
    <2>2. Stack!Touched(sFrom[t], sEnd[t]) \subseteq sMapped
      BY <2>1, TouchedMonotone DEF SInv, Stack!TypeOK
    <2>3. sPc'[t] = "return" /\ \A u \in Threads \ {t} : sPc'[u] = sPc[u]
      BY <1>1 DEF SInv, Stack!TypeOK
    <2>4. Stack!Touched(0, sCommittedTop') \subseteq sMapped
      BY <1>1, <2>1
    <2>5. QED
      BY <1>1, <2>2, <2>3, <2>4 DEF SInv, KnownCommitted, Stack!Touched
  <1>6. Stack!Committed' /\ ClearAlone'
    <2>1. ~ Stack!Idle
      BY <1>1 DEF Stack!Idle
    <2>2. QED
      BY <1>1, <2>1 DEF SInv, Stack!Committed, ClearAlone, Stack!Touched
  <1>7. QED
    BY <1>2, <1>4, <1>5, <1>6 DEF SInv

LEMMA StackReturnStep ==
  ASSUME SInv, NEW t \in Threads, Stack!Return(t)
  PROVE  SInv'
  <1> DEFINE new == Stack!Block(sFrom[t], sEnd[t])
  <1>1. /\ sPc[t] = "return" /\ sPc' = [sPc EXCEPT ![t] = "idle"]
        /\ sBlocks' = sBlocks \cup {new}
        /\ sFrom' = [sFrom EXCEPT ![t] = 0] /\ sEnd' = [sEnd EXCEPT ![t] = 0]
        /\ sSeen' = [sSeen EXCEPT ![t] = 0]
        /\ UNCHANGED <<sTop, sCommittedTop, sMapped, sClearing, sUpTo, sWiped>>
    BY DEF Stack!Return, Stack!Goto, Stack!clearVars
  <1>2. Stack!TypeOK'
    BY <1>1, StackSizes DEF SInv, Stack!TypeOK, Stack!Block, Stack!Touched
  <1>3. /\ Pending' = Pending \ {t} /\ t \in Pending
        /\ \A u \in Pending' : sFrom'[u] = sFrom[u] /\ sEnd'[u] = sEnd[u]
    BY <1>1 DEF SInv, Stack!TypeOK, Pending
  <1>4. BelowTop'
    BY <1>1, <1>3 DEF SInv, BelowTop, Stack!Block
  <1>5. \A b \in sBlocks : Stack!Apart(b, new)
    BY <1>3 DEF SInv, PendingApart, BlockOf
  <1>6. Stack!Disjoint'
    BY <1>1, <1>5 DEF SInv, Stack!Disjoint, Stack!Apart
  <1>7. PendingApart'
    <2>1. \A u \in Pending \ {t} : Stack!Apart(new, BlockOf(u))
      BY <1>3 DEF SInv, PendingApart, BlockOf
    <2>2. \A u \in Pending' : BlockOf(u)' = BlockOf(u)
      BY <1>3 DEF BlockOf, Stack!Block
    <2>3. QED
      BY <1>1, <1>3, <2>1, <2>2 DEF SInv, PendingApart, Stack!Apart
  <1>8. KnownCommitted'
    <2>1. /\ sPc'[t] = "idle"
          /\ \A u \in Threads \ {t} : /\ sPc'[u] = sPc[u] /\ sSeen'[u] = sSeen[u]
                                      /\ sFrom'[u] = sFrom[u] /\ sEnd'[u] = sEnd[u]
      BY <1>1 DEF SInv, Stack!TypeOK
    <2>2. QED
      BY <1>1, <2>1 DEF SInv, KnownCommitted, Stack!Touched
  <1>9. Stack!Committed'
    <2>1. Stack!Touched(new.at, new.end) \subseteq sMapped
      BY <1>1 DEF SInv, KnownCommitted, Stack!Block
    <2>2. QED
      BY <1>1, <2>1 DEF SInv, Stack!Committed, Stack!Touched
  <1>10. ClearAlone'
    <2>1. sClearing = "idle"
      BY <1>1 DEF SInv, ClearAlone, Stack!Idle
    <2>2. QED
      BY <1>1, <2>1 DEF ClearAlone
  <1>11. QED
    BY <1>2, <1>4, <1>6, <1>7, <1>8, <1>9, <1>10 DEF SInv

LEMMA StackClearStep ==
  ASSUME Quiet, SInv, Stack!ClearTop \/ Stack!ClearCommitted \/ Stack!Decommit
  PROVE  SInv'
  <1>1. /\ Stack!Idle /\ Pending = {} /\ Pending' = {}
        /\ UNCHANGED <<sPc, sFrom, sEnd, sSeen>>
    BY DEF Stack!ClearTop, Stack!ClearCommitted, Stack!Decommit, Stack!callVars, SInv,
           ClearAlone, Stack!Idle, Pending
  <1>2. sBlocks' = {}
    BY DEF Stack!ClearTop, Stack!ClearCommitted, Stack!Decommit, SInv, ClearAlone
  <1>3. Stack!TypeOK'
    <2>1. CASE Stack!ClearTop
      BY <2>1, StackSizes DEF Stack!ClearTop, Stack!callVars, SInv, Stack!TypeOK, Stack!Touched
    <2>2. CASE Stack!ClearCommitted
      BY <2>2, StackSizes DEF Stack!ClearCommitted, Stack!callVars, SInv, Stack!TypeOK,
                              Stack!Touched
    <2>3. CASE Stack!Decommit
      BY <2>3, StackSizes DEF Stack!Decommit, Stack!callVars, SInv, Stack!TypeOK, Stack!Touched
    <2>4. QED
      BY <2>1, <2>2, <2>3
  <1>4. Stack!Touched(0, sCommittedTop)' \subseteq sMapped'
    <2>1. CASE Stack!ClearTop
      BY <2>1 DEF Stack!ClearTop, SInv, KnownCommitted, Stack!Touched
    <2>2. CASE Stack!ClearCommitted \/ Stack!Decommit
      <3>1. sCommittedTop' = 0
        BY <2>2 DEF Stack!ClearCommitted, Stack!Decommit, SInv, ClearAlone
      <3>2. Stack!Touched(0, sCommittedTop)' = Stack!Touched(0, 0)
        BY <3>1 DEF Stack!Touched
      <3>3. QED
        BY <3>2, TouchedEmpty
    <2>3. QED
      BY <2>1, <2>2
  <1>5. BelowTop' /\ PendingApart' /\ Stack!Disjoint' /\ Stack!Committed'
    BY <1>1, <1>2 DEF BelowTop, PendingApart, Stack!Disjoint, Stack!Committed
  <1>6. KnownCommitted'
    BY <1>1, <1>4 DEF KnownCommitted, Stack!Idle
  <1>7. ClearAlone'
    BY <1>1, <1>2 DEF ClearAlone, Stack!Idle, Stack!ClearTop, Stack!ClearCommitted,
                      Stack!Decommit
  <1>8. QED
    BY <1>3, <1>5, <1>6, <1>7 DEF SInv

LEMMA StackInvariant ==
  ASSUME Quiet
  PROVE  Stack!Spec => []SInv
  <1>1. SInv /\ [Stack!Next]_(Stack!vars) => SInv'
    <2> SUFFICES ASSUME SInv, [Stack!Next]_(Stack!vars)
                 PROVE  SInv'
      OBVIOUS
    <2>1. ASSUME NEW t \in Threads, NEW size \in Sizes, NEW alignment \in StackAlignments,
                 Stack!Malloc(t, size, alignment)
          PROVE  SInv'
      BY <2>1, StackMallocStep
    <2>2. ASSUME NEW t \in Threads, Stack!ThreadStep(t)
          PROVE  SInv'
      BY <2>2, StackLoadStep, StackCommitStep, StackPublishStep,
         StackReturnStep DEF Stack!ThreadStep
    <2>3. CASE Stack!ClearTop \/ Stack!ClearCommitted \/ Stack!Decommit
      BY <2>3, StackClearStep
    <2>4. CASE UNCHANGED Stack!vars
      BY <2>4 DEF Stack!vars, Stack!callVars, Stack!clearVars, SInv, Stack!TypeOK, BelowTop,
                  PendingApart, Pending, BlockOf, Stack!Disjoint, KnownCommitted,
                  Stack!Committed, ClearAlone, Stack!Idle, Stack!Touched, Stack!Block,
                  Stack!Apart
    <2>5. QED
      BY <2>1, <2>2, <2>3, <2>4 DEF Stack!Next
  <1>2. QED
    BY StackInit, <1>1, PTL DEF Stack!Spec

(***************************************************************************)
(* No two blocks handed out between two clears share a byte, for any       *)
(* number of threads in ms_stack_malloc.                                   *)
(***************************************************************************)
THEOREM StackSeparation ==
  ASSUME Quiet
  PROVE  Stack!Spec => []StackApart
  <1>1. SInv => StackApart
    BY DEF SInv, StackApart, Stack!Exclusive, Stack!Fresh, PendingApart, Pending, BlockOf
  <1>2. QED
    BY <1>1, StackInvariant, PTL

(***************************************************************************)
(* Every block is committed as long as its caller may use it, although     *)
(* threads commit overlapping ranges and all but one of their exchanges    *)
(* fail (ms_stack_malloc).                                                 *)
(***************************************************************************)
THEOREM StackBacking ==
  ASSUME Quiet
  PROVE  Stack!Spec => []StackCommitted
  <1>1. SInv => StackCommitted
    BY DEF SInv, StackCommitted
  <1>2. QED
    BY <1>1, StackInvariant, PTL
=============================================================================
