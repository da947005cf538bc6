---------------------------- MODULE CommonLemmas ----------------------------
(***************************************************************************)
(* Facts the proofs share: on \div and % by a positive number, on least    *)
(* elements, sequences and linked lists.  None of them is of the program.  *)
(***************************************************************************)
EXTENDS Integers, Links, FiniteSetTheorems, SequenceTheorems, TLAPS

(* Quotient and remainder, for any dividend. *)
LEMMA DivMod ==
  ASSUME NEW n \in Int, NEW m \in Nat \ {0}
  PROVE  /\ n \div m \in Int
         /\ n % m \in 0 .. m - 1
         /\ n = m * (n \div m) + (n % m)
  BY SMT

(* The quotient and the remainder are the only ones. *)
LEMMA DivModUnique ==
  ASSUME NEW n \in Int, NEW m \in Nat \ {0}, NEW q \in Int, NEW r \in 0 .. m - 1,
         n = m * q + r
  PROVE  n \div m = q /\ n % m = r
  <1> DEFINE p == n \div m
             s == n % m
  <1>1. p \in Int /\ s \in 0 .. m - 1 /\ n = m * p + s
    BY DivMod
  <1>2. m * (p - q) = r - s
    BY <1>1, SMT
  <1> HIDE DEF p, s
  <1>3. CASE p - q >= 1
    <2>1. m * (p - q) >= m
      BY <1>1, <1>3, SMT
    <2>2. QED
      BY <2>1, <1>1, <1>2, SMT
  <1>4. CASE p - q <= -1
    <2>1. m * (p - q) <= -m
      BY <1>1, <1>4, SMT
    <2>2. QED
      BY <2>1, <1>1, <1>2, SMT
  <1>5. CASE p - q = 0
    BY <1>1, <1>2, <1>5, SMT
  <1>6. p = q /\ s = r
    BY <1>1, <1>3, <1>4, <1>5, SMT
  <1>7. QED
    BY <1>6 DEF p, s

(* The remainder is the only number in range that is congruent to n. *)
LEMMA ModUnique ==
  ASSUME NEW n \in Int, NEW m \in Nat \ {0}, NEW q \in Int, NEW r \in 0 .. m - 1,
         n = m * q + r
  PROVE  n % m = r
  BY DivModUnique

(* Adding a multiple of the modulus changes nothing. *)
LEMMA ModShift ==
  ASSUME NEW n \in Int, NEW m \in Nat \ {0}, NEW k \in Int
  PROVE  (n + m * k) % m = n % m
  <1> DEFINE p == n \div m
             s == n % m
  <1>1. p \in Int /\ s \in 0 .. m - 1 /\ n = m * p + s
    BY DivMod
  <1> HIDE DEF p, s
  <1>2. n + m * k = m * (p + k) + s
    BY <1>1, SMT
  <1>3. (n + m * k) % m = s
    BY <1>1, <1>2, ModUnique
  <1>4. QED
    BY <1>3 DEF s

(* Reducing by a multiple of the modulus first makes no difference. *)
LEMMA ModOfMod ==
  ASSUME NEW n \in Int, NEW word \in Nat \ {0}, NEW m \in Nat \ {0}, word % m = 0
  PROVE  n % word \in Int /\ (n % word) % m = n % m
  <1> DEFINE k == word \div m
             q == n \div word
             u == n % word
  <1>1. k \in Int /\ word = m * k
    <2>1. k \in Int /\ word = m * k + (word % m)
      BY DivMod
    <2> HIDE DEF k
    <2>2. QED
      BY <2>1, SMT
  <1>2. q \in Int /\ u \in Int /\ n = word * q + u
    BY DivMod
  <1> HIDE DEF k, q, u
  <1>3. n = u + m * (k * q) /\ k * q \in Int
    BY <1>1, <1>2, SMT
  <1>4. (u + m * (k * q)) % m = u % m
    BY <1>2, <1>3, ModShift
  <1>5. QED
    BY <1>2, <1>3, <1>4 DEF u

(* Numbers less than a modulus apart have different remainders. *)
LEMMA ModApart ==
  ASSUME NEW n \in Int, NEW m \in Nat \ {0}, NEW d \in 1 .. m - 1
  PROVE  (n - d) % m # n % m
  <1> DEFINE p == n \div m
             s == n % m
  <1>1. p \in Int /\ s \in 0 .. m - 1 /\ n = m * p + s
    BY DivMod
  <1> HIDE DEF p, s
  <1>2. CASE d <= s
    <2>1. n - d = m * p + (s - d) /\ s - d \in 0 .. m - 1
      BY <1>1, <1>2, SMT
    <2>2. (n - d) % m = s - d
      BY <2>1, <1>1, ModUnique
    <2>3. QED
      BY <2>2, <1>1, SMT DEF s
  <1>3. CASE d > s
    <2>1. /\ n - d = m * (p - 1) + (s + m - d)
          /\ s + m - d \in 0 .. m - 1
          /\ p - 1 \in Int
      BY <1>1, <1>3, SMT
    <2>2. (n - d) % m = s + m - d
      <3> DEFINE v == n - d
                 r == s + m - d
      <3>1. v \in Int /\ v = m * (p - 1) + r /\ r \in 0 .. m - 1 /\ p - 1 \in Int
        BY <2>1
      <3> HIDE DEF v, r
      <3>2. v % m = r
        BY <3>1, ModUnique
      <3>3. QED
        BY <3>2 DEF v, r
    <2>3. s + m - d # s
      BY <1>1, SMT
    <2>4. QED
      BY <2>2, <2>3 DEF s
  <1>4. QED
    BY <1>1, <1>2, <1>3, SMT

(***************************************************************************)
(* The index arithmetic of ms_ring, with the capacity and the range of the *)
(* counters as parameters: the slot of the c-th newest item when w items   *)
(* were written is what exact arithmetic says, though w wraps.             *)
(***************************************************************************)
LEMMA RingSlot ==
  ASSUME NEW w \in Int, NEW c \in Int, NEW cap \in Nat \ {0}, NEW word \in Nat \ {0},
         word % cap = 0
  PROVE  /\ ((cap + ((w - c) % word)) % word) % cap = (w - c) % cap
         /\ (w - c) % cap \in 0 .. cap - 1
  <1> DEFINE v == w - c
             u == v % word
             t == cap + u
  <1>1. v \in Int
    OBVIOUS
  <1> HIDE DEF v
  <1>2. u \in Int /\ u % cap = v % cap
    BY <1>1, ModOfMod
  <1> HIDE DEF u
  <1>3. t \in Int /\ t = u + cap * 1 /\ 1 \in Int
    BY <1>2, SMT
  <1> HIDE DEF t
  <1>4. (t % word) % cap = t % cap
    BY <1>3, ModOfMod
  <1>5. (u + cap * 1) % cap = u % cap
    BY <1>2, <1>3, ModShift
  <1>6. v % cap \in 0 .. cap - 1
    BY <1>1, DivMod
  <1>7. QED
    BY <1>2, <1>3, <1>4, <1>5, <1>6 DEF t, u, v

(* Writing one more leaves every stored item its slot, wrap included. *)
LEMMA RingStep ==
  ASSUME NEW w \in Int, NEW d \in Int, NEW cap \in Nat \ {0}, NEW word \in Nat \ {0},
         word % cap = 0
  PROVE  /\ (((w + 1) % word) - (d + 1)) % cap = (w - d) % cap
         /\ (w + 1) % word \in 0 .. word - 1
  <1> DEFINE j == word \div cap
             g == (w + 1) \div word
             u == (w + 1) % word
             h == j * g
  <1>1. j \in Int /\ word = cap * j
    <2>1. j \in Int /\ word = cap * j + (word % cap)
      BY DivMod
    <2> HIDE DEF j
    <2>2. QED
      BY <2>1, SMT
  <1>2. g \in Int /\ u \in Int /\ w + 1 = word * g + u
    <2>1. w + 1 \in Int
      OBVIOUS
    <2>2. QED
      BY <2>1, DivMod
  <1> HIDE DEF j, g, u
  <1>3. word * g = cap * h /\ h \in Int
    BY <1>1, <1>2, SMT
  <1> HIDE DEF h
  <1> DEFINE n == u - (d + 1)
             e == cap * h
  <1>4. e \in Int /\ n \in Int
    BY <1>2, <1>3, SMT
  <1>5. w - d = n + e
    <2> HIDE DEF e
    <2>1. w + 1 = e + u
      BY <1>2, <1>3 DEF e
    <2>2. QED
      BY <2>1, <1>2, <1>4, SMT
  <1> HIDE DEF n
  <1>6. (n + cap * h) % cap = n % cap
    BY <1>3, <1>4, ModShift
  <1>7. (w + 1) % word \in 0 .. word - 1
    <2>1. w + 1 \in Int
      OBVIOUS
    <2>2. QED
      BY <2>1, DivMod
  <1>8. QED
    BY <1>5, <1>6, <1>7 DEF n, u

-----------------------------------------------------------------------------
(* A set of naturals has a least element: the one that ends the smallest of  *)
(* the intervals from 0, since inclusion of finite sets is well-founded.     *)
LEMMA HasMinimum ==
  ASSUME NEW T, T \subseteq Nat, T # {}
  PROVE  \E x \in T : \A y \in T : x <= y
  <1> DEFINE Smaller == StrictSubsetOrdering(Nat)
             Intervals == {0 .. n : n \in T}
  <1>1. \A n \in Nat : 0 .. n \in FiniteSubsetsOf(Nat)
    <2> SUFFICES ASSUME NEW n \in Nat PROVE 0 .. n \in FiniteSubsetsOf(Nat)
      OBVIOUS
    <2>1. IsFiniteSet(0 .. n)
      BY FS_Interval
    <2>2. 0 .. n \in SUBSET Nat
      OBVIOUS
    <2>3. QED
      BY <2>1, <2>2 DEF FiniteSubsetsOf
  <1>2. Intervals \subseteq FiniteSubsetsOf(Nat) /\ Intervals # {}
    BY <1>1
  <1>3. IsWellFoundedOn(Smaller, FiniteSubsetsOf(Nat))
    BY FS_StrictSubsetOrderingWellFounded
  <1>4. \A x, y \in Nat : y < x => <<0 .. y, 0 .. x>> \in Smaller
    <2> SUFFICES ASSUME NEW x \in Nat, NEW y \in Nat, y < x
                 PROVE  <<0 .. y, 0 .. x>> \in Smaller
      OBVIOUS
    <2>1. 0 .. x \in SUBSET Nat /\ 0 .. y \in SUBSET Nat
      OBVIOUS
    <2>2. 0 .. y \subseteq 0 .. x /\ x \in 0 .. x /\ x \notin 0 .. y
      BY SMT
    <2>3. QED
      BY <2>1, <2>2 DEF StrictSubsetOrdering
  <1> HIDE DEF Smaller
  <1>5. PICK I \in Intervals : \A J \in Intervals : ~ (<<J, I>> \in Smaller)
    <2> HIDE DEF Intervals
    <2>1. QED
      BY <1>2, <1>3, WFMin
  <1>6. PICK x \in T : I = 0 .. x
    OBVIOUS
  <1>7. \A y \in T : x \in Nat /\ y \in Nat /\ ~ (y < x)
    BY <1>4, <1>5, <1>6
  <1>8. QED
    BY <1>7

(* And one that is bounded a greatest. *)
LEMMA HasMaximum ==
  ASSUME NEW m \in Nat, NEW T, T \subseteq 0 .. m, T # {}
  PROVE  \E x \in T : \A y \in T : y <= x
  <1> DEFINE U == {m - y : y \in T}
  <1>1. U \subseteq Nat /\ U # {}
    <2>1. \A y \in T : m - y \in Nat /\ m - y \in U
      BY SMT
    <2>2. QED
      BY <2>1
  <1>2. PICK u \in U : \A v \in U : u <= v
    <2> HIDE DEF U
    <2>1. QED
      BY <1>1, HasMinimum
  <1>3. PICK x \in T : u = m - x
    OBVIOUS
  <1>4. ASSUME NEW y \in T PROVE y <= x
    <2>1. m - x <= m - y
      BY <1>2, <1>3
    <2>2. QED
      BY <2>1
  <1>5. QED
    BY <1>4

-----------------------------------------------------------------------------
(* A sequence up to a place. *)
LEMMA UpTo ==
  ASSUME NEW S, NEW s \in Seq(S), NEW c \in 0 .. Len(s)
  PROVE  /\ SubSeq(s, 1, c) \in Seq(S)
         /\ Len(SubSeq(s, 1, c)) = c
         /\ \A i \in 1 .. c : SubSeq(s, 1, c)[i] = s[i]
  <1>1. Len(s) \in Nat /\ c \in Int /\ 1 \in Int /\ c >= 0
    OBVIOUS
  <1>2. \A i \in 1 .. c : s[i] \in S
    BY <1>1, ElementOfSeq
  <1>3. /\ SubSeq(s, 1, c) \in Seq(S)
        /\ Len(SubSeq(s, 1, c)) = IF 1 <= c THEN c - 1 + 1 ELSE 0
        /\ \A i \in 1 .. c - 1 + 1 : SubSeq(s, 1, c)[i] = s[1 + i - 1]
    BY <1>1, <1>2, SubSeqProperties
  <1>4. QED
    BY <1>1, <1>3

-----------------------------------------------------------------------------
(* Linked lists. *)

LEMMA ReachedStart ==
  ASSUME NEW N, NEW null, NEW next \in [N -> N \cup {null}], NEW first \in N \cup {null}
  PROVE  /\ first \in Reached(next, first, null)
         /\ Reached(next, first, null) \subseteq N \cup {null}
  BY DEF Reached

(* The links do not leave what is reached. *)
LEMMA ReachedClosed ==
  ASSUME NEW N, NEW null, NEW next \in [N -> N \cup {null}], NEW first \in N \cup {null}
  PROVE  Closed(next, Reached(next, first, null))
  <1> DEFINE R == Reached(next, first, null)
  <1> SUFFICES ASSUME NEW n \in R, n \in N
               PROVE  next[n] \in R
    BY DEF Closed
  <1>1. ASSUME NEW S \in SUBSET (N \cup {null}), first \in S, Closed(next, S)
        PROVE  next[n] \in S
    <2>1. n \in S
      BY <1>1 DEF Reached
    <2>2. QED
      BY <1>1, <2>1 DEF Closed
  <1>2. QED
    BY <1>1 DEF Reached

(* It is the least such set. *)
LEMMA ReachedLeast ==
  ASSUME NEW N, NEW null, NEW next \in [N -> N \cup {null}], NEW first,
         NEW S \in SUBSET (N \cup {null}), first \in S, Closed(next, S)
  PROVE  Reached(next, first, null) \subseteq S
  BY DEF Reached

(* From the end nothing is reached. *)
LEMMA ReachedNull ==
  ASSUME NEW N, NEW null, null \notin N, NEW next \in [N -> N \cup {null}]
  PROVE  Reached(next, null, null) = {null}
  <1>1. Closed(next, {null})
    BY DEF Closed
  <1>2. Reached(next, null, null) \subseteq {null}
    BY <1>1, ReachedLeast
  <1>3. QED
    BY <1>2, ReachedStart

(* A list is its first node and the list behind it. *)
LEMMA ReachedUnfold ==
  ASSUME NEW N, NEW null, null \notin N, NEW next \in [N -> N \cup {null}], NEW first \in N
  PROVE  Reached(next, first, null) = {first} \cup Reached(next, next[first], null)
  <1> DEFINE R == Reached(next, first, null)
             T == Reached(next, next[first], null)
  <1>1. next[first] \in N \cup {null}
    OBVIOUS
  <1>2. next[first] \in T /\ T \subseteq N \cup {null} /\ Closed(next, T)
    BY <1>1, ReachedStart, ReachedClosed
  <1>3. first \in R /\ R \subseteq N \cup {null} /\ Closed(next, R)
    BY ReachedStart, ReachedClosed
  <1>4. R \subseteq {first} \cup T
    <2>1. Closed(next, {first} \cup T)
      BY <1>2 DEF Closed
    <2>2. {first} \cup T \in SUBSET (N \cup {null})
      BY <1>2
    <2> HIDE DEF T
    <2>3. QED
      BY <2>1, <2>2, ReachedLeast
  <1>5. T \subseteq R
    <2>1. next[first] \in R
      BY <1>3 DEF Closed
    <2> HIDE DEF R
    <2>2. QED
      BY <1>3, <2>1, ReachedLeast
  <1>6. QED
    BY <1>3, <1>4, <1>5

(* Only the links on the way matter. *)
LEMMA ReachedSame ==
  ASSUME NEW N, NEW null, NEW next \in [N -> N \cup {null}],
         NEW other \in [N -> N \cup {null}], NEW first \in N \cup {null},
         \A n \in Reached(next, first, null) \cap N : other[n] = next[n]
  PROVE  Reached(other, first, null) = Reached(next, first, null)
  <1> DEFINE R == Reached(next, first, null)
             T == Reached(other, first, null)
  <1>1. first \in R /\ R \subseteq N \cup {null} /\ Closed(next, R)
    BY ReachedStart, ReachedClosed
  <1>2. first \in T /\ T \subseteq N \cup {null} /\ Closed(other, T)
    BY ReachedStart, ReachedClosed
  <1>3. \A n \in R \cap N : other[n] = next[n]
    OBVIOUS
  <1> HIDE DEF R, T
  <1>4. T \subseteq R
    <2>1. Closed(other, R)
      BY <1>1, <1>3 DEF Closed
    <2>2. QED
      BY <1>1, <2>1, ReachedLeast DEF T
  <1>5. R \subseteq T
    <2>1. Closed(next, T)
      BY <1>2, <1>3, <1>4 DEF Closed
    <2>2. QED
      BY <1>2, <2>1, ReachedLeast DEF R
  <1>6. QED
    BY <1>4, <1>5 DEF R, T

(* What is behind a node of the list is in the list. *)
LEMMA ReachedOnward ==
  ASSUME NEW N, NEW null, NEW next \in [N -> N \cup {null}], NEW first \in N \cup {null},
         NEW n \in Reached(next, first, null) \cap N
  PROVE  /\ next[n] \in Reached(next, first, null)
         /\ Reached(next, next[n], null) \subseteq Reached(next, first, null)
  <1> DEFINE R == Reached(next, first, null)
  <1>1. R \subseteq N \cup {null} /\ Closed(next, R)
    BY ReachedStart, ReachedClosed
  <1>2. next[n] \in R
    BY <1>1 DEF Closed
  <1> HIDE DEF R
  <1>3. QED
    BY <1>1, <1>2, ReachedLeast DEF R

(* Taking the first node off a list. *)
LEMMA ListPop ==
  ASSUME NEW N, NEW null, null \notin N, NEW next \in [N -> N \cup {null}], NEW first \in N,
         IsList(next, first, null)
  PROVE  /\ IsList(next, next[first], null)
         /\ Reached(next, next[first], null) = Reached(next, first, null) \ {first}
  <1>1. Reached(next, first, null) = {first} \cup Reached(next, next[first], null)
    BY ReachedUnfold
  <1>2. first \notin Reached(next, next[first], null)
    BY <1>1 DEF IsList
  <1>3. QED
    BY <1>1, <1>2 DEF IsList

(* Putting a node in front of a list. *)
LEMMA ListPush ==
  ASSUME NEW N, NEW null, null \notin N, NEW next \in [N -> N \cup {null}],
         NEW first \in N \cup {null}, IsList(next, first, null),
         NEW n \in N \ Reached(next, first, null), next[n] = first
  PROVE  /\ IsList(next, n, null)
         /\ Reached(next, n, null) = Reached(next, first, null) \cup {n}
  <1>1. Reached(next, n, null) = {n} \cup Reached(next, first, null)
    BY ReachedUnfold
  <1>2. QED
    BY <1>1 DEF IsList

(* Links off the list may change. *)
LEMMA ListSame ==
  ASSUME NEW N, NEW null, null \notin N, NEW next \in [N -> N \cup {null}],
         NEW other \in [N -> N \cup {null}], NEW first \in N \cup {null},
         IsList(next, first, null),
         \A n \in Reached(next, first, null) \cap N : other[n] = next[n]
  PROVE  /\ IsList(other, first, null)
         /\ Reached(other, first, null) = Reached(next, first, null)
  <1>1. Reached(other, first, null) = Reached(next, first, null)
    BY ReachedSame
  <1>2. Reached(next, first, null) \subseteq N \cup {null}
    BY ReachedStart
  <1>3. ASSUME NEW n \in Reached(next, first, null) \ {null}
        PROVE  n \notin Reached(other, other[n], null)
    <2>1. n \in N /\ other[n] = next[n] /\ next[n] \in N \cup {null}
      BY <1>2
    <2>2. Reached(next, next[n], null) \subseteq Reached(next, first, null)
      BY <2>1, ReachedOnward
    <2>3. Reached(other, next[n], null) = Reached(next, next[n], null)
      BY <2>1, <2>2, ReachedSame
    <2>4. QED
      BY <2>1, <2>3 DEF IsList
  <1>4. QED
    BY <1>1, <1>3 DEF IsList

(* Nodes that link to the next higher number, up to the last one. *)
IsRun(next, a, b, null) ==
  /\ a \in Nat /\ b \in Nat /\ a <= b /\ a .. b \subseteq DOMAIN next
  /\ \A n \in a .. b : next[n] = IF n = b THEN null ELSE n + 1

LEMMA ListOfRun ==
  ASSUME NEW N, NEW null, null \notin N, NEW next \in [N -> N \cup {null}],
         NEW a, NEW b, IsRun(next, a, b, null)
  PROVE  /\ IsList(next, a, null)
         /\ Reached(next, a, null) = (a .. b) \cup {null}
  <1> USE DEF IsRun
  <1>1. ASSUME NEW S \in SUBSET (N \cup {null}), a \in S, Closed(next, S)
        PROVE  (a .. b) \cup {null} \subseteq S
    <2> DEFINE T == (a .. b) \ S
    <2>1. ASSUME T # {} PROVE FALSE
      <3>1. T \subseteq Nat
        BY SMT
      <3>2. PICK x \in T : \A y \in T : x <= y
        <4> HIDE DEF T
        <4>1. QED
          BY <2>1, <3>1, HasMinimum
      <3>3. x - 1 \in a .. b /\ x - 1 \notin T /\ x - 1 # b /\ (x - 1) + 1 = x
        BY <1>1, <3>2, SMT
      <3>4. x - 1 \in S /\ x - 1 \in N /\ next[x - 1] = x
        BY <3>3
      <3>5. x \in S
        BY <1>1, <3>4 DEF Closed
      <3>6. QED
        BY <3>2, <3>5
    <2>2. b \in S /\ b \in N /\ next[b] = null
      BY <2>1
    <2>3. null \in S
      BY <1>1, <2>2 DEF Closed
    <2>4. QED
      BY <2>1, <2>3
  <1>2. Reached(next, a, null) = (a .. b) \cup {null}
    <2>1. a \in N
      OBVIOUS
    <2>2. (a .. b) \cup {null} \subseteq Reached(next, a, null)
      <3> DEFINE R == Reached(next, a, null)
      <3>1. R \in SUBSET (N \cup {null}) /\ a \in R
        BY <2>1, ReachedStart
      <3>2. Closed(next, R)
        BY <2>1, ReachedClosed
      <3> HIDE DEF R
      <3>3. (a .. b) \cup {null} \subseteq R
        BY <1>1, <3>1, <3>2
      <3>4. QED
        BY <3>3 DEF R
    <2>3. \A n \in a .. b : next[n] \in (a .. b) \cup {null}
      BY SMT
    <2>4. Closed(next, (a .. b) \cup {null})
      BY <2>3 DEF Closed
    <2>5. (a .. b) \cup {null} \in SUBSET (N \cup {null}) /\ a \in (a .. b) \cup {null}
      OBVIOUS
    <2>6. Reached(next, a, null) \subseteq (a .. b) \cup {null}
      BY <2>4, <2>5, ReachedLeast
    <2>7. QED
      BY <2>2, <2>6
  <1>3. ASSUME NEW n \in a .. b
        PROVE  n \notin Reached(next, next[n], null)
    <2> DEFINE S == {m \in a .. b : m > n} \cup {null}
    <2>1. S \in SUBSET (N \cup {null}) /\ n \notin S
      OBVIOUS
    <2>2. next[n] \in S
      BY SMT
    <2>3. \A m \in S \ {null} : next[m] \in S
      BY SMT
    <2>4. Closed(next, S)
      BY <2>1, <2>3 DEF Closed
    <2> HIDE DEF S
    <2>5. Reached(next, next[n], null) \subseteq S
      BY <2>1, <2>2, <2>4, ReachedLeast
    <2>6. QED
      BY <2>1, <2>5
  <1>4. QED
    BY <1>2, <1>3 DEF IsList
=============================================================================
