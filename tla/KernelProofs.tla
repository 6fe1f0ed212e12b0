----------------------------- MODULE KernelProofs -----------------------------
(***************************************************************************)
(* Proofs about the two parts of the kernel that every play uses.          *)
(*                                                                         *)
(* Part 1, KernelQueue, for any tasks, lengths, wrap-arounds and wait      *)
(* times: the ring of slots implements FifoQueue whoever sends and         *)
(* wherever a call is interrupted; the queue is locked only by the task    *)
(* that holds the scheduler; no call fails before its time; no wake-up is  *)
(* lost between the test of the queue and the event list; and nobody is    *)
(* left in a delayed list past its time, across overflows of the clock.    *)
(*                                                                         *)
(* Part 2, PlayHeap on the allocator of Heap5, for any size of the region  *)
(* and of what is allocated in it: its blocks cover it once and each has   *)
(* one owner, a play opens its own name or that of a later command, and    *)
(* plays that do not overlap find memory as long as the leaked queues      *)
(* leave room.                                                             *)
(***************************************************************************)
EXTENDS KernelQueue, PlayHeap, SequenceTheorems, FiniteSetTheorems, TLAPS

-----------------------------------------------------------------------------
(* Counting modulo *)

\* One turn of a ring at most.
LEMMA ModTurn ==
    ASSUME NEW n \in Nat \ {0}, NEW x \in 0 .. 2 * n - 1
    PROVE  x % n = IF x < n THEN x ELSE x - n
<1>1. CASE x < n
  BY <1>1
<1>2. CASE ~(x < n)
  <2>1. x - n \in 0 .. n - 1 /\ x = (x - n) + 1 * n
    BY <1>2
  <2>2. x % n = x - n
    BY <2>1
  <2>3. QED
    BY <1>2, <2>2
<1>3. QED
  BY <1>1, <1>2

-----------------------------------------------------------------------------
(* Event lists: the tasks in one, and those that leave it *)

Members(s) == {s[i] : i \in DOMAIN s}
Distinct(s) == \A i, j \in DOMAIN s : s[i] = s[j] => i = j

\* The first k of a list leave it: they are k tasks, and the others stay.
LEMMA FirstLeave ==
    ASSUME NEW G, NEW s \in Seq(G), Distinct(s), NEW k \in 0 .. Len(s)
    PROVE  /\ First(k, s) \in Seq(G)
           /\ Rest(k, s) \in Seq(G) /\ Distinct(Rest(k, s))
           /\ Len(Rest(k, s)) = Len(s) - k
           /\ Members(First(k, s)) \subseteq Members(s)
           /\ Members(Rest(k, s)) = Members(s) \ Members(First(k, s))
           /\ IsFiniteSet(Members(First(k, s)))
           /\ Cardinality(Members(First(k, s))) = k
<1> DEFINE f == First(k, s)
           r == Rest(k, s)
<1>1. /\ Len(s) \in Nat /\ DOMAIN s = 1 .. Len(s)
      /\ \A i \in 1 .. Len(s) : s[i] \in G
  OBVIOUS
<1>2. /\ f \in Seq(G) /\ Len(f) = k /\ DOMAIN f = 1 .. k
      /\ \A i \in 1 .. k : f[i] = s[i]
  <2>1. \A i \in 1 .. k : s[i] \in G
    BY <1>1
  <2>2. QED
    BY <2>1, <1>1 DEF First
<1>3. /\ r \in Seq(G) /\ Len(r) = Len(s) - k /\ DOMAIN r = 1 .. Len(s) - k
      /\ \A i \in 1 .. Len(s) - k : r[i] = s[i + k]
  <2>1. /\ \A i \in k + 1 .. Len(s) : s[i] \in G
        /\ k + 1 \in Int /\ Len(s) \in Int
    BY <1>1
  <2>2. /\ r \in Seq(G) /\ Len(r) = IF k + 1 <= Len(s) THEN Len(s) - (k + 1) + 1 ELSE 0
        /\ \A i \in 1 .. Len(s) - (k + 1) + 1 : r[i] = s[k + 1 + i - 1]
    <3>1. r = SubSeq(s, k + 1, Len(s))
      BY DEF Rest
    <3> HIDE DEF r
    <3>2. /\ SubSeq(s, k + 1, Len(s)) \in Seq(G)
          /\ Len(SubSeq(s, k + 1, Len(s))) =
                IF k + 1 <= Len(s) THEN Len(s) - (k + 1) + 1 ELSE 0
          /\ \A i \in 1 .. Len(s) - (k + 1) + 1 :
                SubSeq(s, k + 1, Len(s))[i] = s[k + 1 + i - 1]
      <4>1. ASSUME NEW m \in Int, NEW n \in Int, \A i \in m .. n : s[i] \in G
            PROVE  /\ SubSeq(s, m, n) \in Seq(G)
                   /\ Len(SubSeq(s, m, n)) = IF m <= n THEN n - m + 1 ELSE 0
                   /\ \A i \in 1 .. n - m + 1 : SubSeq(s, m, n)[i] = s[m + i - 1]
        BY <4>1, SubSeqProperties
      <4>2. QED
        BY <2>1, <4>1
    <3>3. QED
      BY <3>1, <3>2
  <2> HIDE DEF r
  <2>3. Len(r) = Len(s) - k /\ Len(s) - (k + 1) + 1 = Len(s) - k
    <3>1. k \in Nat /\ Len(s) \in Nat /\ k <= Len(s)
      BY <1>1
    <3>2. k + 1 <= Len(s) \/ k = Len(s)
      BY <3>1
    <3>3. QED
      BY <2>2, <3>1, <3>2
  <2>4. \A i \in 1 .. Len(s) - k : k + 1 + i - 1 = i + k
    BY <1>1
  <2>5. DOMAIN r = 1 .. Len(r)
    BY <2>2
  <2>6. QED
    BY <2>2, <2>3, <2>4, <2>5
<1> HIDE DEF f, r
<1>4. Distinct(r)
  <2>1. ASSUME NEW i \in DOMAIN r, NEW j \in DOMAIN r, r[i] = r[j] PROVE i = j
    <3>1. s[i + k] = s[j + k] /\ i + k \in DOMAIN s /\ j + k \in DOMAIN s
      BY <1>1, <1>3, <2>1
    <3>2. i + k = j + k
      BY <3>1 DEF Distinct
    <3>3. QED
      BY <3>2, <1>3
  <2>2. QED
    BY <2>1 DEF Distinct
<1>5. Members(f) \subseteq Members(s)
  BY <1>1, <1>2 DEF Members
<1>6. Members(r) = Members(s) \ Members(f)
  <2>1. ASSUME NEW x \in Members(r) PROVE x \in Members(s) \ Members(f)
    <3>1. PICK i \in DOMAIN r : x = r[i]
      BY DEF Members
    <3>2. i + k \in DOMAIN s /\ x = s[i + k] /\ i >= 1
      BY <1>1, <1>3, <3>1
    <3>3. ASSUME NEW j \in DOMAIN f, f[j] = x PROVE FALSE
      <4>1. j \in DOMAIN s /\ s[j] = s[i + k] /\ j <= k
        BY <1>1, <1>2, <3>2, <3>3
      <4>2. j = i + k
        BY <3>2, <4>1 DEF Distinct
      <4>3. QED
        BY <3>2, <4>1, <4>2, <1>3, <3>1
    <3>4. QED
      BY <3>2, <3>3 DEF Members
  <2>2. ASSUME NEW x \in Members(s), x \notin Members(f) PROVE x \in Members(r)
    <3>1. PICK i \in DOMAIN s : x = s[i]
      BY DEF Members
    <3>2. i > k
      <4>1. i \in 1 .. k => i \in DOMAIN f /\ f[i] = x
        BY <1>2, <3>1
      <4>2. i \notin 1 .. k
        BY <2>2, <4>1 DEF Members
      <4>3. QED
        BY <1>1, <3>1, <4>2
    <3>3. i - k \in DOMAIN r /\ r[i - k] = s[i]
      <4>1. i - k \in 1 .. Len(s) - k /\ (i - k) + k = i
        BY <1>1, <3>1, <3>2
      <4>2. r[i - k] = s[(i - k) + k]
        BY <1>3, <4>1
      <4>3. QED
        BY <1>3, <4>1, <4>2
    <3>4. QED
      BY <3>1, <3>3 DEF Members
  <2>3. QED
    BY <2>1, <2>2
<1>7. IsFiniteSet(Members(f)) /\ Cardinality(Members(f)) = k
  <2>1. f \in Surjection(1 .. k, Members(f))
    <3>1. f \in [1 .. k -> Members(f)]
      BY <1>2 DEF Members
    <3>2. \A x \in Members(f) : \E i \in 1 .. k : f[i] = x
      BY <1>2 DEF Members
    <3>3. QED
      BY <3>1, <3>2 DEF Surjection
  <2>2. f \in Injection(1 .. k, Members(f))
    <3>1. f \in [1 .. k -> Members(f)]
      BY <1>2 DEF Members
    <3>2. \A i \in 1 .. k : i \in DOMAIN s /\ f[i] = s[i]
      BY <1>1, <1>2
    <3>3. \A i, j \in 1 .. k : f[i] = f[j] => i = j
      BY <3>2 DEF Distinct
    <3>4. QED
      BY <1>2, <3>1, <3>3 DEF Injection, IsInjective
  <2>3. IsFiniteSet(1 .. k) /\ Cardinality(1 .. k) = k
    <3>1. Cardinality(1 .. k) = IF 1 > k THEN 0 ELSE k - 1 + 1
      BY FS_Interval
    <3>2. QED
      BY <3>1, FS_Interval
  <2>4. QED
    BY <2>1, <2>2, <2>3, FS_Surjection
<1>8. QED
  BY <1>2, <1>3, <1>4, <1>5, <1>6, <1>7 DEF f, r

\* A task that is put at the end of a list, and lists that are joined.
LEMMA LastJoins ==
    ASSUME NEW G, NEW s \in Seq(G), Distinct(s), NEW x \in G, x \notin Members(s)
    PROVE  /\ Append(s, x) \in Seq(G) /\ Distinct(Append(s, x))
           /\ Members(Append(s, x)) = Members(s) \cup {x}
<1> DEFINE a == Append(s, x)
<1>1. /\ Len(s) \in Nat /\ DOMAIN s = 1 .. Len(s)
      /\ a \in Seq(G) /\ DOMAIN a = 1 .. Len(s) + 1
      /\ \A i \in 1 .. Len(s) : a[i] = s[i]
      /\ a[Len(s) + 1] = x
  BY AppendProperties
<1> HIDE DEF a
<1>2. Members(a) = Members(s) \cup {x}
  BY <1>1 DEF Members
<1>3. ASSUME NEW i \in DOMAIN a, NEW j \in DOMAIN a, a[i] = a[j] PROVE i = j
  <2>1. (i \in DOMAIN s /\ a[i] = s[i]) \/ (i = Len(s) + 1 /\ a[i] = x)
    BY <1>1
  <2>2. (j \in DOMAIN s /\ a[j] = s[j]) \/ (j = Len(s) + 1 /\ a[j] = x)
    BY <1>1
  <2>3. QED
    BY <1>3, <2>1, <2>2 DEF Distinct, Members
<1>4. QED
  BY <1>1, <1>2, <1>3 DEF Distinct, a

LEMMA JoinedLists ==
    ASSUME NEW G, NEW s \in Seq(G), NEW w \in Seq(G)
    PROVE  s \o w \in Seq(G) /\ Members(s \o w) = Members(s) \cup Members(w)
<1> DEFINE c == s \o w
<1>1. /\ Len(s) \in Nat /\ DOMAIN s = 1 .. Len(s)
      /\ Len(w) \in Nat /\ DOMAIN w = 1 .. Len(w)
      /\ c \in Seq(G) /\ DOMAIN c = 1 .. Len(s) + Len(w)
      /\ \A i \in 1 .. Len(s) + Len(w) :
            c[i] = IF i <= Len(s) THEN s[i] ELSE w[i - Len(s)]
  BY ConcatProperties
<1> HIDE DEF c
<1>2. ASSUME NEW x \in Members(c) PROVE x \in Members(s) \cup Members(w)
  <2>1. PICK i \in DOMAIN c : c[i] = x
    BY DEF Members
  <2>2. CASE i <= Len(s)
    <3>1. i \in DOMAIN s /\ s[i] = x
      BY <1>1, <2>1, <2>2
    <3>2. QED
      BY <3>1 DEF Members
  <2>3. CASE ~(i <= Len(s))
    <3>1. i - Len(s) \in DOMAIN w /\ w[i - Len(s)] = x
      BY <1>1, <2>1, <2>3
    <3>2. QED
      BY <3>1 DEF Members
  <2>4. QED
    BY <2>2, <2>3
<1>3. ASSUME NEW x \in Members(s) PROVE x \in Members(c)
  <2>1. PICK i \in DOMAIN s : s[i] = x
    BY DEF Members
  <2>2. i \in DOMAIN c /\ c[i] = x
    BY <1>1, <2>1
  <2>3. QED
    BY <2>2 DEF Members
<1>4. ASSUME NEW x \in Members(w) PROVE x \in Members(c)
  <2>1. PICK i \in DOMAIN w : w[i] = x
    BY DEF Members
  <2>2. i + Len(s) \in DOMAIN c /\ c[i + Len(s)] = w[(i + Len(s)) - Len(s)]
    BY <1>1, <2>1
  <2>3. (i + Len(s)) - Len(s) = i
    BY <1>1, <2>1
  <2>4. QED
    BY <2>1, <2>2, <2>3 DEF Members
<1>5. QED
  BY <1>1, <1>2, <1>3, <1>4 DEF c

LEMMA ListMembers ==
    ASSUME NEW G, NEW s \in Seq(G)
    PROVE  /\ Members(s) \subseteq G
           /\ Members(s) = {} <=> s = <<>>
           /\ IsFiniteSet(Members(s))
<1>1. Len(s) \in Nat /\ DOMAIN s = 1 .. Len(s) /\ \A i \in DOMAIN s : s[i] \in G
  OBVIOUS
<1>2. s # <<>> => 1 \in DOMAIN s
  BY <1>1
<1>3. s = <<>> => DOMAIN s = {}
  BY <1>1
<1>4. IsFiniteSet(Members(s))
  <2>1. s \in Surjection(DOMAIN s, Members(s))
    BY <1>1 DEF Surjection, Members
  <2>2. IsFiniteSet(DOMAIN s)
    BY <1>1, FS_Interval
  <2>3. QED
    BY <2>1, <2>2, FS_Surjection
<1>5. QED
  BY <1>1, <1>2, <1>3, <1>4 DEF Members

\* Ranks: the k-th of those that stay, for each k, is one of them.
LEMMA Ranked ==
    ASSUME NEW n \in Nat, NEW stay \in SUBSET (1 .. n)
    PROVE  LET Rank(i) == Cardinality({j \in stay : j <= i})
               size == Cardinality(stay)
           IN  /\ size \in Nat
               /\ \A i \in stay : Rank(i) \in 1 .. size
               /\ \A i, j \in stay : Rank(i) = Rank(j) => i = j
               /\ \A k \in 1 .. size : \E i \in stay : Rank(i) = k
<1> DEFINE Upto(i) == {j \in stay : j <= i}
           Rank(i) == Cardinality(Upto(i))
           size == Cardinality(stay)
           rank == [i \in stay |-> Rank(i)]
<1>1. IsFiniteSet(stay) /\ size \in Nat
  <2>1. IsFiniteSet(1 .. n)
    BY FS_Interval
  <2>2. IsFiniteSet(stay)
    BY <2>1, FS_Subset
  <2>3. QED
    BY <2>2, FS_CardinalityType
<1>2. ASSUME NEW i \in stay
      PROVE  IsFiniteSet(Upto(i)) /\ Rank(i) \in 1 .. size
  <2>1. Upto(i) \in SUBSET stay /\ i \in Upto(i)
    OBVIOUS
  <2> HIDE DEF Upto
  <2>2. IsFiniteSet(Upto(i)) /\ Cardinality(Upto(i)) <= size
    BY <1>1, <2>1, FS_Subset
  <2>3. Cardinality(Upto(i)) \in Nat /\ Cardinality(Upto(i)) # 0
    BY <2>1, <2>2, FS_CardinalityType, FS_EmptySet
  <2>4. QED
    BY <1>1, <2>2, <2>3
<1>3. ASSUME NEW i \in stay, NEW j \in stay, i < j PROVE Rank(i) # Rank(j)
  <2>1. \A m \in stay : m \in Int
    OBVIOUS
  <2>2. Upto(i) \in SUBSET Upto(j) /\ j \in Upto(j) /\ j \notin Upto(i)
    <3>1. i \in Int /\ j \in Int /\ ~(j <= i) /\ j <= j
      BY <1>3, <2>1
    <3>2. \A m \in stay : m <= i => m <= j
      BY <1>3, <2>1, <3>1
    <3>3. QED
      BY <3>1, <3>2
  <2> HIDE DEF Upto
  <2>3. IsFiniteSet(Upto(j))
    BY <1>2
  <2>4. Cardinality(Upto(j)) = Cardinality(Upto(i)) => Upto(j) = Upto(i)
    BY <2>2, <2>3, FS_Subset
  <2>5. QED
    BY <2>2, <2>4
<1> HIDE DEF Rank, size
<1>4. ASSUME NEW i \in stay, NEW j \in stay, Rank(i) = Rank(j) PROVE i = j
  <2>1. i < j \/ j < i \/ i = j
    <3>1. i \in Int /\ j \in Int
      OBVIOUS
    <3>2. QED
      BY <3>1
  <2>2. QED
    BY <1>3, <1>4, <2>1
<1>5. rank \in Injection(stay, 1 .. size)
  <2>1. \A i \in stay : rank[i] = Rank(i)
    OBVIOUS
  <2>2. rank \in [stay -> 1 .. size]
    BY <1>2 DEF size
  <2> HIDE DEF rank
  <2>3. QED
    BY <1>4, <2>1, <2>2 DEF Injection, IsInjective
<1>6. rank \in Surjection(stay, 1 .. size)
  <2>1. IsFiniteSet(1 .. size) /\ Cardinality(1 .. size) = size
    <3>1. Cardinality(1 .. size) = IF 1 > size THEN 0 ELSE size - 1 + 1
      BY <1>1, FS_Interval
    <3>2. QED
      BY <1>1, <3>1, FS_Interval
  <2>2. Cardinality(stay) = Cardinality(1 .. size)
    BY <2>1 DEF size
  <2> HIDE DEF rank
  <2>3. QED
    BY <1>5, <2>1, <2>2, FS_Injection
<1>7. \A k \in 1 .. size : \E i \in stay : Rank(i) = k
  BY <1>6 DEF Surjection
<1>8. QED
  BY <1>1, <1>2, <1>4, <1>7 DEF Rank, size

\* Those that are gone have left the list, the others are still in it, once.
LEMMA OthersStay ==
    ASSUME NEW G, NEW s \in Seq(G), Distinct(s), NEW gone
    PROVE  /\ Without(s, gone) \in Seq(G) /\ Distinct(Without(s, gone))
           /\ Members(Without(s, gone)) = Members(s) \ gone
<1> DEFINE stay == {i \in DOMAIN s : s[i] \notin gone}
           Rank(i) == Cardinality({j \in stay : j <= i})
           size == Cardinality(stay)
           Pick(k) == CHOOSE i \in stay : Rank(i) = k
           w == [k \in 1 .. size |-> s[Pick(k)]]
<1>1. Len(s) \in Nat /\ DOMAIN s = 1 .. Len(s) /\ \A i \in DOMAIN s : s[i] \in G
  OBVIOUS
<1>2. Without(s, gone) = w
  BY DEF Without
<1>3. stay \in SUBSET (1 .. Len(s)) /\ \A i \in stay : s[i] \notin gone /\ s[i] \in G
  BY <1>1
<1>4. /\ size \in Nat
      /\ \A i \in stay : Rank(i) \in 1 .. size
      /\ \A i, j \in stay : Rank(i) = Rank(j) => i = j
      /\ \A k \in 1 .. size : \E i \in stay : Rank(i) = k
  <2> HIDE DEF stay
  <2>1. QED
    BY <1>1, <1>3, Ranked
<1>5. \A x \in Members(s) \ gone : \E i \in stay : s[i] = x
  BY DEF Members
<1>6. \A i \in stay : s[i] \in Members(s)
  BY DEF Members
<1>7. \A i, j \in stay : s[i] = s[j] => i = j
  BY DEF Distinct
<1> HIDE DEF stay, Rank, size
<1>8. \A k \in 1 .. size : Pick(k) \in stay /\ Rank(Pick(k)) = k
  BY <1>4
<1> HIDE DEF Pick
<1>9. w \in Seq(G) /\ DOMAIN w = 1 .. size /\ \A k \in 1 .. size : w[k] = s[Pick(k)]
  <2>1. \A k \in 1 .. size : s[Pick(k)] \in G
    BY <1>3, <1>8
  <2>2. QED
    BY <1>4, <2>1
<1> HIDE DEF w
<1>10. Distinct(w)
  <2>1. ASSUME NEW k \in 1 .. size, NEW m \in 1 .. size, w[k] = w[m] PROVE k = m
    <3>1. Pick(k) = Pick(m)
      BY <1>7, <1>8, <1>9, <2>1
    <3>2. QED
      BY <1>8, <3>1
  <2>2. QED
    BY <1>9, <2>1 DEF Distinct
<1>11. Members(w) \subseteq Members(s) \ gone
  BY <1>3, <1>6, <1>8, <1>9 DEF Members
<1>12. ASSUME NEW x \in Members(s) \ gone PROVE x \in Members(w)
  <2>1. PICK i \in stay : s[i] = x
    BY <1>5
  <2>2. Rank(i) \in 1 .. size /\ Pick(Rank(i)) = i
    BY <1>4, <1>8
  <2>3. w[Rank(i)] = x
    BY <1>9, <2>1, <2>2
  <2>4. QED
    BY <1>9, <2>2, <2>3 DEF Members
<1>13. QED
  BY <1>2, <1>9, <1>10, <1>11, <1>12

\* A set of numbers that is not empty has a least one.
LEMMA LeastOne ==
    ASSUME NEW S \in SUBSET Nat, NEW x \in S
    PROVE  \E m \in S : \A y \in S : m <= y
<1> DEFINE Below == {n \in 0 .. x : \A y \in S : n <= y}
           up == [n \in Below |-> n + 1]
<1>1. SUFFICES ASSUME \A m \in S : \E y \in S : ~(m <= y) PROVE FALSE
  OBVIOUS
<1>2. ASSUME NEW n \in Below PROVE n + 1 \in Below
  <2>1. n \notin S
    BY <1>1
  <2>2. \A y \in S : n <= y /\ n # y /\ y \in Nat
    BY <2>1
  <2>3. \A y \in S : n + 1 <= y
    BY <2>2
  <2>4. QED
    BY <2>3
<1>3. IsFiniteSet(Below)
  <2>1. IsFiniteSet(0 .. x)
    BY FS_Interval
  <2>2. QED
    BY <2>1, FS_Subset
<1>4. 0 \in Below
  OBVIOUS
<1>5. \A n \in Below : n \in Nat
  OBVIOUS
<1> HIDE DEF Below
<1>6. up \in Injection(Below, Below)
  <2>1. up \in [Below -> Below] /\ \A n \in Below : up[n] = n + 1
    BY <1>2
  <2>2. \A m, n \in Below : up[m] = up[n] => m = n
    BY <1>5, <2>1
  <2> HIDE DEF up
  <2>3. QED
    BY <2>1, <2>2 DEF Injection, IsInjective
<1>7. \A n \in Below : up[n] # 0
  BY <1>5
<1> HIDE DEF up
<1>8. up \in Surjection(Below, Below)
  BY <1>3, <1>6, FS_Injection
<1>9. QED
  BY <1>4, <1>7, <1>8 DEF Surjection

-----------------------------------------------------------------------------
(* The ring *)

RingTyped ==
    /\ slots \in [0 .. Length - 1 -> 0 .. Numbers - 1]
    /\ writeTo \in 0 .. Length - 1 /\ readFrom \in 0 .. Length - 1
    /\ messages \in 0 .. Length
    /\ sent \in 0 .. Numbers - 1 /\ got \in 0 .. Numbers - 1

\* Each slot between the two pointers holds the number of its place.
RingInv ==
    /\ RingTyped
    /\ writeTo = (readFrom + messages + 1) % Length
    /\ sent = (got + messages) % Numbers
    /\ \A i \in 1 .. messages :
          slots[(readFrom + i) % Length] = (got + i) % Numbers

\* What is left of a place or a number after at most one turn.
Turned(x, n) == IF x < n THEN x ELSE x - n

LEMMA OneTurn ==
    ASSUME NEW n \in Nat, NEW x \in Int, NEW i \in Int,
           0 <= x, x <= n - 1, 0 <= i, i <= n
    PROVE  x + i \in 0 .. 2 * n - 1
OBVIOUS

LEMMA LengthTurn ==
    ASSUME NEW x, x \in 0 .. 2 * Length - 1
    PROVE  x % Length = Turned(x, Length)
BY ModTurn, LengthAssumption DEF Turned

LEMMA NumbersTurn ==
    ASSUME NEW x, x \in 0 .. 2 * Numbers - 1
    PROVE  x % Numbers = Turned(x, Numbers)
<1>1. Numbers \in Nat \ {0}
  BY LengthAssumption
<1>2. QED
  BY <1>1, ModTurn DEF Turned

\* Counting on from the next number is counting one further.
LEMMA NumbersShift ==
    ASSUME NEW g \in 0 .. Numbers - 1, NEW h, h = (g + 1) % Numbers,
           NEW i \in 0 .. Length - 1
    PROVE  (h + i) % Numbers = (g + i + 1) % Numbers
<1>1. /\ Numbers \in Nat /\ Length \in Nat /\ Length < Numbers
      /\ g \in Int /\ 0 <= g /\ g <= Numbers - 1
      /\ i \in Int /\ 0 <= i /\ i <= Numbers /\ i + 1 \in Int /\ 0 <= i + 1
      /\ i + 1 <= Numbers
  BY LengthAssumption
<1>2. h = Turned(g + 1, Numbers)
  <2>1. g + 1 \in 0 .. 2 * Numbers - 1
    BY <1>1
  <2>2. QED
    BY <2>1, NumbersTurn
<1>3. h \in Int /\ 0 <= h /\ h <= Numbers - 1
  BY <1>1, <1>2 DEF Turned
<1>4. g + (i + 1) \in 0 .. 2 * Numbers - 1 /\ h + i \in 0 .. 2 * Numbers - 1
  BY <1>1, <1>3, OneTurn
<1>5. /\ (g + (i + 1)) % Numbers = Turned(g + (i + 1), Numbers)
      /\ (h + i) % Numbers = Turned(h + i, Numbers)
  BY <1>4, NumbersTurn
<1>6. Turned(h + i, Numbers) = Turned(g + (i + 1), Numbers)
  BY <1>1, <1>2, <1>3 DEF Turned
<1>7. g + (i + 1) = g + i + 1
  BY <1>1
<1>8. QED
  BY <1>5, <1>6, <1>7

USE LengthAssumption

\* Only the two copies touch the data, when there is room and when there is an
\* item.
LEMMA DataStep ==
    [Next]_vars => \/ CanSend /\ CopyTo
                   \/ CanReceive /\ CopyFrom
                   \/ UNCHANGED dataVars
<1> SUFFICES ASSUME [Next]_vars
             PROVE  \/ CanSend /\ CopyTo
                    \/ CanReceive /\ CopyFrom
                    \/ UNCHANGED dataVars
  OBVIOUS
<1>1. ASSUME NEW t \in Tasks, Transfer(t)
      PROVE  (CanSend /\ CopyTo) \/ (CanReceive /\ CopyFrom)
  <2>1. CASE t \in Senders
    <3>1. t \notin Receivers
      BY <2>1, TasksAssumption
    <3>2. CanSend /\ CopyTo
      BY <1>1, <2>1, <3>1 DEF Transfer, CanGo
    <3>3. QED
      BY <3>2
  <2>2. CASE t \notin Senders
    <3>1. CanReceive /\ CopyFrom
      <4>1. CopyFrom
        BY <1>1, <2>2 DEF Transfer
      <4>2. CanReceive
        BY <1>1, <2>2 DEF Transfer, CanGo, CanReceive, CanSend
      <4>3. QED
        BY <4>1, <4>2
    <3>2. QED
      BY <3>1
  <2>3. QED
    BY <2>1, <2>2
<1>2. ASSUME NEW t \in Tasks, Call(t) \/ (Step(t) /\ ~Transfer(t))
      PROVE  UNCHANGED dataVars
  BY <1>2 DEF Call, Step, GiveUp, SetTimeOut, SuspendAll, LockQueue,
     CheckForTimeOut, Test, Place, UnlockTx, UnlockRx, ResumeAll, Recheck
<1>3. CASE SendFromISR
  BY <1>3 DEF SendFromISR
<1>4. CASE Tick
  BY <1>4 DEF Tick
<1>5. CASE UNCHANGED vars
  BY <1>5 DEF vars
<1>6. QED
  BY <1>1, <1>2, <1>3, <1>4, <1>5 DEF Next, Step

\* A ring index within one turn.
LEMMA SlotIn ==
    ASSUME NEW x \in Nat
    PROVE  x % Length \in 0 .. Length - 1
OBVIOUS

LEMMA RingStep == RingInv /\ [Next]_vars => RingInv'
<1> SUFFICES ASSUME RingInv, [Next]_vars PROVE RingInv'
  OBVIOUS
<1>0. RingTyped
  BY DEF RingInv
<1>1. CASE CanSend /\ CopyTo
  <2>1. /\ sent' = (sent + 1) % Numbers
        /\ slots' = [slots EXCEPT ![writeTo] = sent']
        /\ writeTo' = (writeTo + 1) % Length
        /\ messages' = messages + 1
        /\ readFrom' = readFrom /\ got' = got
        /\ messages < Length
    BY <1>1 DEF CanSend, CopyTo, NextSlot
  <2>2. /\ sent' \in 0 .. Numbers - 1
        /\ writeTo' \in 0 .. Length - 1
        /\ readFrom' \in 0 .. Length - 1
        /\ messages' \in 0 .. Length
        /\ got' \in 0 .. Numbers - 1
    BY <2>1, <1>0 DEF RingTyped, Turned
  <2>3. slots' \in [0 .. Length - 1 -> 0 .. Numbers - 1]
    BY <2>1, <2>2, <1>0 DEF RingTyped, Turned
  <2>4. writeTo' = (readFrom' + messages' + 1) % Length
    <3>1. writeTo = (readFrom + messages + 1) % Length
      BY DEF RingInv
    <3>2. readFrom + messages + 1 \in 0 .. 2 * Length - 1
      BY <2>1, <1>0 DEF RingTyped, Turned
    <3>3. writeTo = Turned(readFrom + messages + 1, Length)
      BY <3>1, <3>2, LengthTurn
    <3>4. readFrom + messages + 2 \in 0 .. 2 * Length - 1
          \/ readFrom + messages + 2 = 2 * Length
      BY <2>1, <1>0 DEF RingTyped, Turned
    <3>5. CASE readFrom + messages + 2 = 2 * Length
      <4>1. readFrom = Length - 1 /\ messages = Length - 1
        BY <3>5, <2>1, <1>0 DEF RingTyped, Turned
      <4>2. writeTo = Length - 1
        BY <3>3, <4>1, <1>0 DEF RingTyped, Turned
      <4>3. writeTo' = 0
        BY <4>2, <2>1
      <4>4. (2 * Length) % Length = 0
        OBVIOUS
      <4>5. readFrom' + messages' + 1 = 2 * Length
        BY <3>5, <2>1, <2>2, <1>0 DEF RingTyped, Turned
      <4>6. QED
        BY <4>3, <4>4, <4>5
    <3>6. CASE readFrom + messages + 2 \in 0 .. 2 * Length - 1
      <4>1. (readFrom + messages + 2) % Length = Turned(readFrom + messages + 2, Length)
        BY <3>6, LengthTurn
      <4>2. writeTo + 1 \in 0 .. 2 * Length - 1
        BY <1>0 DEF RingTyped, Turned
      <4>3. (writeTo + 1) % Length = Turned(writeTo + 1, Length)
        BY <4>2, LengthTurn
      <4>4. (writeTo + 1) % Length = (readFrom + messages + 2) % Length
        BY <3>3, <4>1, <4>3, <3>6, <2>1, <1>0 DEF RingTyped, Turned
      <4>5. readFrom' + messages' + 1 = readFrom + messages + 2
        BY <2>1, <1>0 DEF RingTyped, Turned
      <4>6. QED
        BY <4>4, <4>5, <2>1
    <3>7. QED
      BY <3>4, <3>5, <3>6
  <2>5. sent' = (got' + messages') % Numbers
    <3>1. got + messages \in 0 .. 2 * Numbers - 1
          /\ got + messages + 1 \in 0 .. 2 * Numbers - 1
      BY <2>1, <1>0 DEF RingTyped, Turned
    <3>2. sent = Turned(got + messages, Numbers)
      BY <3>1, NumbersTurn DEF RingInv
    <3>3. (got + messages + 1) % Numbers = Turned(got + messages + 1, Numbers)
      BY <3>1, NumbersTurn
    <3>4. (sent + 1) % Numbers = Turned(sent + 1, Numbers)
      <4>1. sent + 1 \in 0 .. 2 * Numbers - 1
        BY <1>0 DEF RingTyped, Turned
      <4>2. QED
        BY <4>1, NumbersTurn
    <3>5. (sent + 1) % Numbers = (got + messages + 1) % Numbers
      BY <3>1, <3>2, <3>3, <3>4, <1>0 DEF RingTyped, Turned
    <3>6. got' + messages' = got + messages + 1
      BY <2>1, <1>0 DEF RingTyped, Turned
    <3>7. QED
      BY <3>5, <3>6, <2>1
  <2>6. ASSUME NEW i \in 1 .. messages'
        PROVE  slots'[(readFrom' + i) % Length] = (got' + i) % Numbers
    <3>1. i \in 1 .. messages \/ i = messages + 1
      BY <2>1, <1>0 DEF RingTyped, Turned
    <3>2. writeTo = (readFrom + messages + 1) % Length
      BY DEF RingInv
    <3>3. CASE i = messages + 1
      <4>1. readFrom' + i = readFrom + messages + 1
        BY <3>3, <2>1, <1>0 DEF RingTyped, Turned
      <4>2. slots'[writeTo] = sent'
        BY <2>1, <1>0 DEF RingTyped, Turned
      <4>3. i = messages'
        BY <3>3, <2>1
      <4>4. QED
        BY <4>1, <4>2, <4>3, <3>2, <2>1, <2>5
    <3>4. CASE i \in 1 .. messages
      <4>1. readFrom + i \in 0 .. 2 * Length - 1
            /\ readFrom + messages + 1 \in 0 .. 2 * Length - 1
        BY <3>4, <2>1, <1>0 DEF RingTyped, Turned
      <4>2. (readFrom + i) % Length = Turned(readFrom + i, Length)
        BY <4>1, LengthTurn
      <4>3. writeTo = Turned(readFrom + messages + 1, Length)
        BY <3>2, <4>1, LengthTurn
      <4>4. (readFrom + i) % Length # writeTo
        <5>1. /\ messages \in Nat /\ messages < Length
              /\ i \in Nat /\ 1 <= i /\ i <= messages
              /\ Length \in Nat /\ readFrom \in 0 .. Length - 1
          BY <3>4, <2>1, <1>0 DEF RingTyped
        <5> DEFINE x == Turned(readFrom + i, Length)
                   y == Turned(readFrom + messages + 1, Length)
        <5>2. /\ x = readFrom + i \/ x = readFrom + i - Length
              /\ \/ y = readFrom + messages + 1
                 \/ y = readFrom + messages + 1 - Length
          BY <5>1 DEF Turned
        <5> HIDE DEF x, y
        <5>3. x # y
          <6>1. readFrom + i # readFrom + messages + 1
            BY <5>1
          <6>2. readFrom + i - Length # readFrom + messages + 1
            BY <5>1
          <6>3. readFrom + i # readFrom + messages + 1 - Length
            BY <5>1
          <6>4. readFrom + i - Length # readFrom + messages + 1 - Length
            BY <5>1
          <6>5. QED
            BY <5>2, <6>1, <6>2, <6>3, <6>4
        <5>4. QED
          BY <4>2, <4>3, <5>3 DEF x, y
      <4>5. (readFrom + i) % Length \in 0 .. Length - 1
        BY <4>1, <4>2
      <4>6. slots'[(readFrom + i) % Length] = slots[(readFrom + i) % Length]
        BY <2>1, <4>4, <4>5, <1>0 DEF RingTyped, Turned
      <4>7. QED
        BY <4>6, <3>4, <2>1 DEF RingInv
    <3>5. QED
      BY <3>1, <3>3, <3>4
  <2>7. QED
    BY <2>2, <2>3, <2>4, <2>5, <2>6 DEF RingInv, RingTyped
<1>2. CASE CanReceive /\ CopyFrom
  <2>1. /\ readFrom' = (readFrom + 1) % Length
        /\ got' = slots[readFrom']
        /\ messages' = messages - 1
        /\ slots' = slots /\ writeTo' = writeTo /\ sent' = sent
        /\ messages > 0
    BY <1>2 DEF CanReceive, CopyFrom, NextSlot
  <2>2. /\ sent' \in 0 .. Numbers - 1
        /\ writeTo' \in 0 .. Length - 1
        /\ readFrom' \in 0 .. Length - 1
        /\ messages' \in 0 .. Length
        /\ slots' \in [0 .. Length - 1 -> 0 .. Numbers - 1]
    BY <2>1, <1>0 DEF RingTyped, Turned
  <2>3. got' \in 0 .. Numbers - 1
    BY <2>1, <2>2, <1>0 DEF RingTyped, Turned
  <2>4. 1 \in 1 .. messages
    BY <2>1, <1>0 DEF RingTyped, Turned
  <2>5. got' = (got + 1) % Numbers
    BY <2>1, <2>4 DEF RingInv
  <2>6. readFrom' = Turned(readFrom + 1, Length)
    <3>1. readFrom + 1 \in 0 .. 2 * Length - 1
      BY <1>0 DEF RingTyped, Turned
    <3>2. QED
      BY <3>1, <2>1, LengthTurn
  <2>7. got' = Turned(got + 1, Numbers)
    <3>1. got + 1 \in 0 .. 2 * Numbers - 1
      BY <1>0 DEF RingTyped, Turned
    <3>2. QED
      BY <3>1, <2>5, NumbersTurn
  <2>8. ASSUME NEW i \in 0 .. messages
        PROVE  (readFrom' + i) % Length = (readFrom + i + 1) % Length
    <3>1. /\ readFrom' \in Int /\ 0 <= readFrom' /\ readFrom' <= Length - 1
          /\ i \in Int /\ 0 <= i /\ i <= Length
      BY <2>2, <1>0 DEF RingTyped
    <3>2. readFrom + i + 1 \in 0 .. 2 * Length - 1 \/ readFrom + i + 1 = 2 * Length
      BY <1>0 DEF RingTyped, Turned
    <3>3. readFrom' + i \in 0 .. 2 * Length - 1
      BY <3>1, OneTurn, LengthAssumption
    <3>4. (readFrom' + i) % Length = Turned(readFrom' + i, Length)
      BY <3>3, LengthTurn
    <3>5. CASE readFrom + i + 1 = 2 * Length
      <4>1. readFrom = Length - 1 /\ i = Length
        BY <3>5, <1>0 DEF RingTyped, Turned
      <4>2. readFrom' + i = Length
        BY <4>1, <2>6, <1>0 DEF RingTyped, Turned
      <4>3. (2 * Length) % Length = 0 /\ Length % Length = 0
        OBVIOUS
      <4>4. QED
        BY <4>2, <4>3, <3>5
    <3>6. CASE readFrom + i + 1 \in 0 .. 2 * Length - 1
      <4>1. (readFrom + i + 1) % Length = Turned(readFrom + i + 1, Length)
        BY <3>6, LengthTurn
      <4>2. QED
        BY <4>1, <3>4, <3>6, <2>6, <2>2, <1>0 DEF RingTyped, Turned
    <3>7. QED
      BY <3>2, <3>5, <3>6
  <2>9. ASSUME NEW i \in 0 .. messages - 1
        PROVE  (got' + i) % Numbers = (got + i + 1) % Numbers
    <3>1. /\ got \in 0 .. Numbers - 1
          /\ i \in Int /\ 0 <= i /\ i <= Length - 1
      BY <1>0 DEF RingTyped
    <3>2. i \in 0 .. Length - 1
      BY <3>1
    <3>3. QED
      BY <3>1, <3>2, <2>5, NumbersShift
  <2>10. writeTo' = (readFrom' + messages' + 1) % Length
    <3>1. messages \in 0 .. messages /\ readFrom' + messages' + 1 = readFrom' + messages
      BY <2>1, <2>2, <1>0 DEF RingTyped
    <3>2. QED
      BY <3>1, <2>8, <2>1 DEF RingInv
  <2>11. sent' = (got' + messages') % Numbers
    <3>1. messages - 1 \in 0 .. messages - 1 /\ got + (messages - 1) + 1 = got + messages
      BY <2>4, <1>0 DEF RingTyped, Turned
    <3>2. (got' + (messages - 1)) % Numbers = (got + (messages - 1) + 1) % Numbers
      BY <3>1, <2>9
    <3>3. QED
      BY <3>1, <3>2, <2>1 DEF RingInv
  <2>12. ASSUME NEW i \in 1 .. messages'
         PROVE  slots'[(readFrom' + i) % Length] = (got' + i) % Numbers
    <3>1. i \in 0 .. messages /\ i \in 0 .. messages - 1 /\ i + 1 \in 1 .. messages
      BY <2>1, <1>0 DEF RingTyped, Turned
    <3>2. slots[(readFrom + (i + 1)) % Length] = (got + (i + 1)) % Numbers
      BY <3>1 DEF RingInv
    <3>3. readFrom + (i + 1) = readFrom + i + 1 /\ got + (i + 1) = got + i + 1
      BY <3>1, <1>0 DEF RingTyped, Turned
    <3>4. QED
      BY <3>1, <3>2, <3>3, <2>8, <2>9, <2>1
  <2>13. QED
    BY <2>2, <2>3, <2>10, <2>11, <2>12 DEF RingInv, RingTyped
<1>3. CASE UNCHANGED dataVars
  BY <1>3 DEF RingInv, RingTyped, dataVars
<1>4. QED
  BY <1>1, <1>2, <1>3, DataStep

LEMMA RingStart == Init => RingInv
<1> SUFFICES ASSUME Init PROVE RingInv
  OBVIOUS
<1>1. RingTyped
  BY DEF Init, RingTyped
<1>2. writeTo = (readFrom + messages + 1) % Length
  <2>1. Length % Length = 0
    OBVIOUS
  <2>2. readFrom + messages + 1 = Length /\ writeTo = 0
    BY DEF Init
  <2>3. QED
    BY <2>1, <2>2
<1>3. sent = (got + messages) % Numbers
  <2>1. 0 \in 0 .. 2 * Numbers - 1
    OBVIOUS
  <2>2. 0 % Numbers = Turned(0, Numbers)
    BY <2>1, NumbersTurn
  <2>3. QED
    BY <2>2 DEF Init, Turned
<1>4. 1 .. messages = {}
  BY DEF Init
<1>5. QED
  BY <1>1, <1>2, <1>3, <1>4 DEF RingInv

LEMMA RingAlways == Spec => []RingInv
<1>1. RingInv /\ [Next]_vars => RingInv'
  BY RingStep
<1>2. QED
  BY RingStart, <1>1, PTL DEF Spec

-----------------------------------------------------------------------------
(* The refinement *)

\* The queue holds the numbers after that of the last item received.
Numbered ==
    /\ Contents \in Seq(0 .. Numbers - 1)
    /\ Len(Contents) = messages
    /\ \A i \in 1 .. messages : Contents[i] = (got + i) % Numbers

LEMMA ContentsAre == RingInv => Numbered
<1> SUFFICES ASSUME RingInv PROVE Numbered
  OBVIOUS
<1>1. messages \in Nat /\ got \in 0 .. Numbers - 1
  BY DEF RingInv, RingTyped
<1>2. \A i \in 1 .. messages : Contents[i] = (got + i) % Numbers
  BY DEF Contents, RingInv
<1>3. \A i \in 1 .. messages : (got + i) % Numbers \in 0 .. Numbers - 1
  BY <1>1
<1>4. Contents \in [1 .. messages -> 0 .. Numbers - 1]
  BY <1>2, <1>3 DEF Contents
<1>5. QED
  BY <1>1, <1>2, <1>4 DEF Numbered

\* A step of the kernel is a step of the queue it promises, or none.
LEMMA FifoStep ==
    RingInv /\ RingInv' /\ [Next]_vars => [Fifo!FifoNext]_<<Contents, sent, got>>
<1> SUFFICES ASSUME RingInv, RingInv', [Next]_vars
             PROVE  [Fifo!FifoNext]_<<Contents, sent, got>>
  OBVIOUS
<1> DEFINE Held0 == Contents
           Held1 == Contents'
<1>1. /\ Held0 \in Seq(0 .. Numbers - 1) /\ Len(Held0) = messages
      /\ \A i \in 1 .. messages : Held0[i] = (got + i) % Numbers
  BY ContentsAre DEF Numbered
<1>2. /\ Held1 \in Seq(0 .. Numbers - 1) /\ Len(Held1) = messages'
      /\ \A i \in 1 .. messages' : Held1[i] = (got' + i) % Numbers
  <2>1. RingInv' => Numbered'
    BY ContentsAre, PTL
  <2>2. QED
    BY <2>1 DEF Numbered
<1>3. /\ messages \in 0 .. Length /\ got \in 0 .. Numbers - 1
      /\ messages' \in 0 .. Length /\ got' \in 0 .. Numbers - 1
      /\ sent' \in 0 .. Numbers - 1
  BY DEF RingInv, RingTyped
<1> HIDE DEF Held0, Held1
<1>4. CASE CanSend /\ CopyTo
  <2>1. /\ sent' = (sent + 1) % Numbers /\ messages' = messages + 1
        /\ got' = got /\ messages < Length
    BY <1>4 DEF CanSend, CopyTo
  <2>2. sent' = (got + messages + 1) % Numbers
    <3>1. got' + messages' = got + messages + 1
      BY <1>3, <2>1
    <3>2. QED
      BY <3>1 DEF RingInv
  <2>3. Held1 = Append(Held0, sent')
    <3>1. Append(Held0, sent') \in Seq(0 .. Numbers - 1)
          /\ Len(Append(Held0, sent')) = messages'
      BY <1>1, <1>3, <2>1
    <3>2. ASSUME NEW i \in 1 .. messages'
          PROVE  Held1[i] = Append(Held0, sent')[i]
      <4>1. CASE i = messages + 1
        <5>1. Held1[i] = (got + i) % Numbers
          BY <1>2, <2>1
        <5>2. got + i = got + messages + 1
          BY <4>1, <1>3
        <5>3. Append(Held0, sent')[i] = sent'
          BY <4>1, <1>1
        <5>4. QED
          BY <5>1, <5>2, <5>3, <2>2
      <4>2. CASE i # messages + 1
        <5>1. i \in 1 .. messages
          BY <4>2, <2>1, <1>3
        <5>2. Held1[i] = (got + i) % Numbers
          BY <1>2, <2>1
        <5>3. Held0[i] = (got + i) % Numbers
          BY <1>1, <5>1
        <5>4. Append(Held0, sent')[i] = Held0[i]
          BY <1>1, <5>1
        <5>5. QED
          BY <5>2, <5>3, <5>4
      <4>3. QED
        BY <4>1, <4>2
    <3>3. QED
      BY <3>1, <3>2, <1>2, SeqEqual
  <2>4. QED
    BY <2>1, <2>3, <1>1 DEF Held0, Held1, Fifo!FifoNext, Fifo!Put
<1>5. CASE CanReceive /\ CopyFrom
  <2>1. /\ messages' = messages - 1 /\ sent' = sent /\ messages > 0
        /\ got' = slots[readFrom'] /\ readFrom' = (readFrom + 1) % Length
    BY <1>5 DEF CanReceive, CopyFrom, NextSlot
  <2>2. got' = (got + 1) % Numbers
    <3>1. 1 \in 1 .. messages
      BY <2>1, <1>3
    <3>2. QED
      BY <3>1, <2>1 DEF RingInv
  <2>3. Held0 = <<got'>> \o Held1
    <3>1. <<got'>> \in Seq(0 .. Numbers - 1)
      BY <1>3
    <3>2. <<got'>> \o Held1 \in Seq(0 .. Numbers - 1)
          /\ Len(<<got'>> \o Held1) = messages
      BY <3>1, <1>2, <1>3, <2>1
    <3>3. ASSUME NEW i \in 1 .. messages
          PROVE  Held0[i] = (<<got'>> \o Held1)[i]
      <4>1. Held0[i] = (got + i) % Numbers
        BY <1>1
      <4>2. CASE i = 1
        <5>1. (<<got'>> \o Held1)[i] = got'
          BY <4>2, <1>2, <3>1
        <5>2. QED
          BY <5>1, <4>1, <4>2, <2>2
      <4>3. CASE i # 1
        <5>1. /\ i - 1 \in 1 .. messages' /\ i - 1 \in 0 .. Length - 1
              /\ got + (i - 1) + 1 = got + i
          BY <4>3, <2>1, <1>3
        <5>2. (<<got'>> \o Held1)[i] = Held1[i - 1]
          BY <4>3, <5>1, <1>2, <3>1
        <5>3. Held1[i - 1] = (got' + (i - 1)) % Numbers
          BY <1>2, <5>1
        <5>4. (got' + (i - 1)) % Numbers = (got + (i - 1) + 1) % Numbers
          BY <5>1, <1>3, <2>2, NumbersShift
        <5>5. QED
          BY <4>1, <5>1, <5>2, <5>3, <5>4
      <4>4. QED
        BY <4>2, <4>3
    <3>4. QED
      BY <3>2, <3>3, <1>1, SeqEqual
  <2>4. Held0 # <<>>
    BY <1>1, <2>1, <1>3
  <2>5. QED
    BY <2>1, <2>2, <2>3, <2>4 DEF Held0, Held1, Fifo!FifoNext, Fifo!Take
<1>6. CASE UNCHANGED dataVars
  BY <1>6 DEF dataVars, Contents
<1>7. QED
  BY <1>4, <1>5, <1>6, DataStep

\* The kernel's ring with its two pointers, its count, its lock and its two
\* ways to send is a queue: items leave once, in the order they came, and
\* none is lost.
THEOREM QueueIsFifo == Spec => ImplementsFifo
<1>1. Init => Fifo!FifoInit
  <2>1. ASSUME Init PROVE Contents = <<>>
    <3>1. Contents \in Seq(0 .. Numbers - 1) /\ Len(Contents) = 0
      BY <2>1, RingStart, ContentsAre DEF Init, Numbered
    <3>2. QED
      BY <3>1
  <2>2. QED
    BY <2>1 DEF Init, Fifo!FifoInit
<1>2. QED
  BY <1>1, RingAlways, FifoStep, PTL DEF Spec, ImplementsFifo, Fifo!FifoSpec

-----------------------------------------------------------------------------
(* The scheduler, the lock of the queue and the time of a call *)

\* A task has suspended the scheduler from vTaskSuspendAll to xTaskResumeAll.
Held == {"lock", "check", "test", "place", "unlockTx", "unlockRx", "resume"}
Locking == {"check", "test", "place", "unlockTx"}

HolderInv ==
    /\ suspender \in SUBSET Tasks
    /\ \A t \in Tasks : t \in suspender <=> pc[t] \in Held
    /\ \A t, u \in suspender : t = u
    /\ pendedTick \in 0 .. 1
    /\ pendedTick = 1 => suspender # Nobody

LockInv ==
    /\ messages \in 0 .. Length
    /\ txLock \in Unlocked .. Length
    /\ LockDiscipline

\* The ticks counted since the time o, e.
SinceEntry(o, e) ==
    IF over = o /\ tick >= e THEN tick - e
    ELSE IF over = (o + 1) % OverWrap /\ tick < e THEN tick + Wrap - e
    ELSE Wrap

TimeTyped ==
    /\ pc \in [Tasks -> PC] /\ after \in [Tasks -> {"try", "recheck", "out"}]
    /\ left \in [Tasks -> Ticks] /\ asked \in [Tasks -> Ticks]
    /\ entryAt \in [Tasks -> Ticks \cup {NoEntry}]
    /\ entryOver \in [Tasks -> 0 .. OverWrap - 1]
    /\ waited \in [Tasks -> 0 .. Wrap]
    /\ tick \in Ticks /\ over \in 0 .. OverWrap - 1

\* Until a call finds that it has to wait no time has passed for it.
Unstarted(t) ==
    /\ pc[t] = "out" => entryAt[t] = NoEntry
    /\ entryAt[t] = NoEntry => waited[t] = 0 /\ left[t] = asked[t]

\* What is left of the time to wait, with what has passed since it was last
\* looked at, is no less than what the caller gave.
Counted(t) ==
    /\ left[t] <= asked[t]
    /\ asked[t] = MaxDelay => left[t] = MaxDelay
    /\ left[t] = 0 => waited[t] >= asked[t]
    /\ left[t] # 0 /\ entryAt[t] # NoEntry =>
          \/ waited[t] = Wrap
          \/ waited[t] >= asked[t] - left[t] + pendedTick
                             + SinceEntry(entryOver[t], entryAt[t])

\* Where a call is says whether it has time left.
Position(t) ==
    /\ pc[t] \in {"suspend", "lock", "check"} =>
          left[t] # 0 /\ (left[t] = MaxDelay \/ entryAt[t] # NoEntry)
    /\ pc[t] \in {"place", "unlockTx", "unlockRx", "resume"} =>
          after[t] = "try" \/ left[t] = 0
    /\ pc[t] = "recheck" => left[t] = 0

OnTime(t) == Unstarted(t) /\ Counted(t) /\ Position(t)

TimeInv == TimeTyped /\ \A t \in Tasks : OnTime(t)

IInv == RingInv /\ HolderInv /\ LockInv /\ TimeInv

-----------------------------------------------------------------------------
(* Types *)

USE TicksAssumption, TasksAssumption

LEMMA ClockStep ==
    ASSUME NEW S, IncrementTick(S)
    PROVE  /\ tick' = (tick + 1) % Wrap
           /\ over' = IF (tick + 1) % Wrap = 0 THEN (over + 1) % OverWrap ELSE over
BY DEF IncrementTick, NextTick

LEMMA TypedStart == Init => TimeTyped
BY DEF Init, TimeTyped, PC, Ticks, NoEntry

LEMMA TypedStep == TimeTyped /\ [Next]_vars => TimeTyped'
<1> SUFFICES ASSUME TimeTyped, [Next]_vars PROVE TimeTyped'
  OBVIOUS
<1>0. /\ pc \in [Tasks -> PC] /\ after \in [Tasks -> {"try", "recheck", "out"}]
      /\ left \in [Tasks -> Ticks] /\ asked \in [Tasks -> Ticks]
      /\ entryAt \in [Tasks -> Ticks \cup {NoEntry}]
      /\ entryOver \in [Tasks -> 0 .. OverWrap - 1]
      /\ waited \in [Tasks -> 0 .. Wrap]
      /\ tick \in Ticks /\ over \in 0 .. OverWrap - 1
  BY DEF TimeTyped
<1>a. ASSUME NEW t \in Tasks, Return(t), UNCHANGED <<tick, over>> PROVE TimeTyped'
  BY <1>0, <1>a DEF Return, TimeTyped, PC, Ticks
<1>b. ASSUME NEW S, IncrementTick(S)
      PROVE  tick' \in Ticks /\ over' \in 0 .. OverWrap - 1
  <2>1. (tick + 1) % Wrap \in Ticks /\ (over + 1) % OverWrap \in 0 .. OverWrap - 1
    BY <1>0 DEF Ticks
  <2>2. QED
    BY <1>0, <2>1, <1>b, ClockStep
<1>1. ASSUME NEW t \in Tasks, Call(t) PROVE TimeTyped'
  <2>1. pc' \in [Tasks -> PC]
    BY <1>0, <1>1 DEF Call, Goto, PC
  <2>2. PICK n \in Waits[t] : /\ left' = [left EXCEPT ![t] = n]
                              /\ asked' = [asked EXCEPT ![t] = n]
    BY <1>1 DEF Call
  <2>3. n \in Ticks
    BY DEF Ticks, MaxDelay
  <2>4. QED
    BY <1>0, <1>1, <2>1, <2>2, <2>3 DEF Call, TimeTyped, tickVars
<1>2. ASSUME NEW t \in Tasks, Transfer(t) PROVE TimeTyped'
  BY <1>2, <1>a DEF Transfer
<1>3. ASSUME NEW t \in Tasks, GiveUp(t) PROVE TimeTyped'
  BY <1>3, <1>a DEF GiveUp
<1>4. ASSUME NEW t \in Tasks, SetTimeOut(t) PROVE TimeTyped'
  <2>1. pc' \in [Tasks -> PC]
    BY <1>0, <1>4 DEF SetTimeOut, Goto, PC
  <2>2. entryAt' \in [Tasks -> Ticks \cup {NoEntry}]
        /\ entryOver' \in [Tasks -> 0 .. OverWrap - 1]
    BY <1>0, <1>4 DEF SetTimeOut
  <2>3. QED
    BY <1>0, <1>4, <2>1, <2>2 DEF SetTimeOut, TimeTyped, tickVars
<1>5. ASSUME NEW t \in Tasks, SuspendAll(t) \/ LockQueue(t) \/ UnlockTx(t) \/ UnlockRx(t)
      PROVE  TimeTyped'
  <2>1. pc' \in [Tasks -> PC]
    BY <1>0, <1>5 DEF SuspendAll, LockQueue, UnlockTx, UnlockRx, Goto, PC
  <2>2. QED
    BY <1>0, <1>5, <2>1
    DEF SuspendAll, LockQueue, UnlockTx, UnlockRx, TimeTyped, tickVars
<1>6. ASSUME NEW t \in Tasks, CheckForTimeOut(t) PROVE TimeTyped'
  <2>1. pc' \in [Tasks -> PC]
    BY <1>0, <1>6 DEF CheckForTimeOut, Goto, PC, UnlockFirst
  <2>2. Elapsed(t) \in Nat
    BY <1>0 DEF Elapsed, Ticks, NoEntry
  <2>3. left[t] \in Ticks /\ (~TimedOut(t) /\ left[t] # MaxDelay => left[t] - Elapsed(t) \in Ticks)
    BY <1>0, <2>2 DEF TimedOut, Ticks
  <2>4. left' \in [Tasks -> Ticks] /\ after' \in [Tasks -> {"try", "recheck", "out"}]
    BY <1>0, <1>6, <2>3 DEF CheckForTimeOut, Ticks
  <2>5. entryAt' \in [Tasks -> Ticks \cup {NoEntry}]
        /\ entryOver' \in [Tasks -> 0 .. OverWrap - 1]
    BY <1>0, <1>6 DEF CheckForTimeOut
  <2>6. QED
    BY <1>0, <1>6, <2>1, <2>4, <2>5 DEF CheckForTimeOut, TimeTyped, tickVars
<1>7. ASSUME NEW t \in Tasks, Test(t) PROVE TimeTyped'
  <2>1. pc' \in [Tasks -> PC]
    BY <1>0, <1>7 DEF Test, Goto, PC
  <2>2. after' \in [Tasks -> {"try", "recheck", "out"}]
    BY <1>0, <1>7 DEF Test
  <2>3. QED
    BY <1>0, <1>7, <2>1, <2>2 DEF Test, TimeTyped, tickVars
<1>8. ASSUME NEW t \in Tasks, Place(t) PROVE TimeTyped'
  <2>1. pc' \in [Tasks -> PC]
    BY <1>0, <1>8 DEF Place, Goto, PC
  <2>2. UNCHANGED <<after, left, entryAt, entryOver, asked, waited, tick, over>>
    BY <1>8 DEF Place
  <2>3. QED
    BY <1>0, <2>1, <2>2 DEF TimeTyped
<1>9. ASSUME NEW t \in Tasks, ResumeAll(t) PROVE TimeTyped'
  <2>1. tick' \in Ticks /\ over' \in 0 .. OverWrap - 1
    BY <1>0, <1>9, <1>b DEF ResumeAll
  <2>2. CASE Return(t)
    BY <1>0, <2>1, <2>2 DEF Return, TimeTyped, PC, Ticks
  <2>3. CASE /\ pc' = [pc EXCEPT ![t] = after[t]]
             /\ UNCHANGED <<after, left, entryAt, entryOver, asked, waited, wake>>
    <3>1. pc' \in [Tasks -> PC]
      BY <1>0, <2>3 DEF PC
    <3>2. QED
      BY <1>0, <2>1, <2>3, <3>1 DEF TimeTyped
  <2>4. QED
    BY <1>9, <2>2, <2>3 DEF ResumeAll
<1>10. ASSUME NEW t \in Tasks, Recheck(t) PROVE TimeTyped'
  <2>1. UNCHANGED <<tick, over>>
    BY <1>10 DEF Recheck
  <2>2. CASE Return(t)
    BY <2>1, <2>2, <1>a
  <2>3. CASE /\ pc' = [pc EXCEPT ![t] = "try"]
             /\ UNCHANGED <<after, left, entryAt, entryOver, asked, waited, wake>>
    <3>1. pc' \in [Tasks -> PC]
      BY <1>0, <2>3 DEF PC
    <3>2. QED
      BY <1>0, <2>1, <2>3, <3>1 DEF TimeTyped
  <2>4. QED
    BY <1>10, <2>2, <2>3 DEF Recheck
<1>11. CASE SendFromISR
  BY <1>0, <1>11 DEF SendFromISR, TimeTyped, callVars, tickVars
<1>12. CASE Tick
  <2>1. tick' \in Ticks /\ over' \in 0 .. OverWrap - 1
    BY <1>0, <1>12, <1>b DEF Tick
  <2>2. waited' \in [Tasks -> 0 .. Wrap]
    BY <1>0, <1>12 DEF Tick, Aged
  <2>3. UNCHANGED callVars
    BY <1>12 DEF Tick
  <2>4. QED
    BY <1>0, <2>1, <2>2, <2>3 DEF TimeTyped, callVars
<1>13. CASE UNCHANGED vars
  BY <1>0, <1>13 DEF vars, callVars, tickVars, TimeTyped
<1>14. QED
  BY <1>1, <1>2, <1>3, <1>4, <1>5, <1>6, <1>7, <1>8, <1>9, <1>10, <1>11, <1>12,
     <1>13 DEF Next, Step

-----------------------------------------------------------------------------
(* Who holds the scheduler and the queue *)

LEMMA HolderStart == Init => HolderInv
BY DEF Init, HolderInv, Held, Nobody

LEMMA HolderStep == TimeTyped /\ HolderInv /\ [Next]_vars => HolderInv'
<1> SUFFICES ASSUME TimeTyped, HolderInv, [Next]_vars PROVE HolderInv'
  OBVIOUS
<1>0. /\ pc \in [Tasks -> PC] /\ after \in [Tasks -> {"try", "recheck", "out"}]
      /\ suspender \in SUBSET Tasks
      /\ \A t \in Tasks : t \in suspender <=> pc[t] \in Held
      /\ \A t, u \in suspender : t = u
      /\ pendedTick \in 0 .. 1
      /\ pendedTick = 1 => suspender # Nobody
  BY DEF TimeTyped, HolderInv
\* Most steps leave the scheduler with the task that holds it.
<1>a. ASSUME NEW t \in Tasks, NEW p, pc' = [pc EXCEPT ![t] = p],
             pc[t] \in Held <=> p \in Held, UNCHANGED <<suspender, pendedTick>>
      PROVE  HolderInv'
  <2>1. \A u \in Tasks : pc'[u] \in Held <=> pc[u] \in Held
    BY <1>0, <1>a
  <2>2. QED
    BY <1>0, <1>a, <2>1 DEF HolderInv
<1>1. ASSUME NEW t \in Tasks, Call(t) PROVE HolderInv'
  <2>1. pc' = [pc EXCEPT ![t] = "try"] /\ pc[t] = "out" /\ UNCHANGED <<suspender, pendedTick>>
    BY <1>1 DEF Call, Goto, tickVars
  <2>2. QED
    BY <2>1, <1>a DEF Held
<1>2. ASSUME NEW t \in Tasks, Transfer(t) \/ GiveUp(t) PROVE HolderInv'
  <2>1. pc' = [pc EXCEPT ![t] = "out"] /\ pc[t] = "try" /\ UNCHANGED <<suspender, pendedTick>>
    BY <1>2 DEF Transfer, GiveUp, Return
  <2>2. QED
    BY <2>1, <1>a DEF Held
<1>3. ASSUME NEW t \in Tasks, SetTimeOut(t) PROVE HolderInv'
  <2>1. pc' = [pc EXCEPT ![t] = "suspend"] /\ pc[t] = "try" /\ UNCHANGED <<suspender, pendedTick>>
    BY <1>3 DEF SetTimeOut, Goto, tickVars
  <2>2. QED
    BY <2>1, <1>a DEF Held
<1>4. ASSUME NEW t \in Tasks, SuspendAll(t) PROVE HolderInv'
  <2>1. /\ pc' = [pc EXCEPT ![t] = "lock"] /\ pc[t] = "suspend"
        /\ suspender' = {t} /\ pendedTick' = pendedTick /\ Running(t)
    BY <1>4 DEF SuspendAll, Goto, tickVars
  <2>2. t \notin suspender
    BY <1>0, <2>1 DEF Held
  <2>3. suspender = Nobody
    BY <2>1, <2>2 DEF Running
  <2>4. \A u \in Tasks : pc'[u] \in Held <=> u = t
    BY <1>0, <2>1, <2>3 DEF Held, Nobody
  <2>5. QED
    BY <1>0, <2>1, <2>4 DEF HolderInv, Nobody
<1>5. ASSUME NEW t \in Tasks,
             LockQueue(t) \/ CheckForTimeOut(t) \/ Test(t) \/ Place(t)
                \/ UnlockTx(t) \/ UnlockRx(t)
      PROVE  HolderInv'
  <2>1. \E p \in Held : pc' = [pc EXCEPT ![t] = p] /\ pc[t] \in Held
    BY <1>5
    DEF LockQueue, CheckForTimeOut, Test, Place, UnlockTx, UnlockRx, Goto, Held,
        UnlockFirst
  <2>2. UNCHANGED <<suspender, pendedTick>>
    BY <1>5
    DEF LockQueue, CheckForTimeOut, Test, Place, UnlockTx, UnlockRx, tickVars
  <2>3. QED
    BY <2>1, <2>2, <1>a
<1>6. ASSUME NEW t \in Tasks, ResumeAll(t) PROVE HolderInv'
  <2>1. /\ suspender' = Nobody /\ pendedTick' = 0 /\ pc[t] = "resume" /\ Running(t)
        /\ \/ pc' = [pc EXCEPT ![t] = "out"]
           \/ pc' = [pc EXCEPT ![t] = after[t]]
    BY <1>6 DEF ResumeAll, Return
  <2>2. pc'[t] \notin Held
    BY <1>0, <2>1 DEF Held
  <2>3. t \in suspender
    BY <1>0, <2>1 DEF Held
  <2>4. \A u \in Tasks : u # t => pc'[u] = pc[u] /\ u \notin suspender
    BY <1>0, <2>1, <2>3
  <2>5. \A u \in Tasks : pc'[u] \notin Held
    BY <1>0, <2>2, <2>4
  <2>6. QED
    BY <2>1, <2>5 DEF HolderInv, Nobody
<1>7. ASSUME NEW t \in Tasks, Recheck(t) PROVE HolderInv'
  <2>1. /\ UNCHANGED <<suspender, pendedTick>> /\ pc[t] = "recheck"
        /\ \/ pc' = [pc EXCEPT ![t] = "out"]
           \/ pc' = [pc EXCEPT ![t] = "try"]
    BY <1>7 DEF Recheck, Return
  <2>2. QED
    BY <2>1, <1>a DEF Held
<1>8. CASE SendFromISR
  BY <1>0, <1>8 DEF SendFromISR, HolderInv, callVars, tickVars
<1>9. CASE Tick
  <2>1. /\ pc' = pc /\ suspender' = suspender
        /\ \/ suspender = Nobody /\ pendedTick' = pendedTick
           \/ suspender # Nobody /\ pendedTick' = 1
    BY <1>9 DEF Tick, callVars
  <2>2. QED
    BY <1>0, <2>1 DEF HolderInv
<1>10. CASE UNCHANGED vars
  BY <1>0, <1>10 DEF vars, callVars, tickVars, HolderInv
<1>11. QED
  BY <1>1, <1>2, <1>3, <1>4, <1>5, <1>6, <1>7, <1>8, <1>9, <1>10 DEF Next, Step

LEMMA LockStart == Init => LockInv
BY DEF Init, LockInv, LockDiscipline, Unlocked, LockedUnmodified

LEMMA LockStep ==
    TimeTyped /\ HolderInv /\ LockInv /\ [Next]_vars => LockInv'
<1> SUFFICES ASSUME TimeTyped, HolderInv, LockInv, [Next]_vars PROVE LockInv'
  OBVIOUS
<1>0. /\ pc \in [Tasks -> PC] /\ suspender \in SUBSET Tasks
      /\ \A t \in Tasks : t \in suspender <=> pc[t] \in Held
      /\ \A t, u \in suspender : t = u
  BY DEF TimeTyped, HolderInv
<1>m. messages \in 0 .. Length /\ txLock \in -1 .. Length
  BY DEF LockInv, Unlocked
<1>d. /\ txLock # -1 => \E t \in suspender : pc[t] \in Locking
      /\ txLock > 0 => txLock <= messages
  BY DEF LockInv, LockDiscipline, Locking, Unlocked, LockedUnmodified
\* A step after which the queue is unlocked.
<1>a. ASSUME txLock' = -1, messages' \in 0 .. Length PROVE LockInv'
  BY <1>a DEF LockInv, LockDiscipline, Unlocked, LockedUnmodified
\* A step of a task that goes on with the queue, or has nothing to do with it.
<1>b. ASSUME NEW t \in Tasks, NEW p, pc' = [pc EXCEPT ![t] = p],
             pc[t] \notin Locking \/ p \in Locking,
             UNCHANGED <<suspender, txLock, messages>>
      PROVE  LockInv'
  <2>1. txLock # -1 => \E u \in suspender : pc'[u] \in Locking
    <3>1. SUFFICES ASSUME txLock # -1 PROVE \E u \in suspender : pc'[u] \in Locking
      OBVIOUS
    <3>2. PICK u \in suspender : pc[u] \in Locking
      BY <3>1, <1>d
    <3>3. u \in Tasks
      BY <1>0
    <3>4. pc'[u] \in Locking
      BY <1>0, <1>b, <3>2, <3>3
    <3>5. QED
      BY <3>4
  <2>2. QED
    BY <1>b, <1>m, <1>d, <2>1
    DEF LockInv, LockDiscipline, Locking, Unlocked, LockedUnmodified
\* Nobody holds the scheduler: the queue is unlocked.
<1>c. suspender = Nobody => txLock = -1
  BY <1>d DEF Nobody
<1>1. ASSUME NEW t \in Tasks, Transfer(t) PROVE LockInv'
  <2>1. pc[t] = "try" /\ Running(t) /\ txLock' = txLock
    BY <1>1 DEF Transfer, lockVars
  <2>2. suspender = Nobody
    BY <1>0, <2>1 DEF Running, Held
  <2>3. messages' \in 0 .. Length
    BY <1>m, DataStep DEF CanSend, CanReceive, CopyTo, CopyFrom, dataVars
  <2>4. QED
    BY <2>1, <2>2, <2>3, <1>a, <1>c
<1>2. ASSUME NEW t \in Tasks,
             Call(t) \/ GiveUp(t) \/ SetTimeOut(t) \/ Recheck(t)
      PROVE  LockInv'
  <2>1. /\ \E p \in {"try", "out", "suspend"} : pc' = [pc EXCEPT ![t] = p]
        /\ pc[t] \notin Locking
    BY <1>2 DEF Call, GiveUp, SetTimeOut, Recheck, Goto, Return, Locking
  <2>2. UNCHANGED <<suspender, txLock, messages>>
    BY <1>2 DEF Call, GiveUp, SetTimeOut, Recheck, dataVars, lockVars
  <2>3. QED
    BY <2>1, <2>2, <1>b
<1>3. ASSUME NEW t \in Tasks, SuspendAll(t) PROVE LockInv'
  <2>1. pc[t] = "suspend" /\ Running(t) /\ UNCHANGED <<txLock, messages>>
    BY <1>3 DEF SuspendAll, Goto, lockVars, dataVars
  <2>2. suspender = Nobody
    BY <1>0, <2>1 DEF Running, Held
  <2>3. QED
    BY <2>1, <2>2, <1>a, <1>c, <1>m
<1>4. ASSUME NEW t \in Tasks, LockQueue(t) PROVE LockInv'
  <2>1. /\ pc' = [pc EXCEPT ![t] = "check"] /\ pc[t] = "lock"
        /\ txLock' = IF txLock = -1 THEN 0 ELSE txLock
        /\ UNCHANGED <<suspender, messages>>
    BY <1>4 DEF LockQueue, Goto, Locked, Unlocked, LockedUnmodified, dataVars
  <2>2. t \in suspender' /\ pc'[t] \in Locking
    BY <1>0, <2>1 DEF Held, Locking
  <2>3. QED
    BY <2>1, <2>2, <1>m, <1>d
    DEF LockInv, LockDiscipline, Locking, Unlocked, LockedUnmodified
<1>5. ASSUME NEW t \in Tasks,
             CheckForTimeOut(t) \/ Test(t) \/ Place(t) \/ UnlockRx(t)
      PROVE  LockInv'
  <2>1. \E p \in PC : /\ pc' = [pc EXCEPT ![t] = p]
                      /\ pc[t] \notin Locking \/ p \in Locking
    BY <1>5 DEF CheckForTimeOut, Test, Place, UnlockRx, Goto, Locking, UnlockFirst, PC
  <2>2. UNCHANGED <<suspender, txLock, messages>>
    BY <1>5 DEF CheckForTimeOut, Test, Place, UnlockRx, dataVars, lockVars
  <2>3. QED
    BY <2>1, <2>2, <1>b
<1>6. ASSUME NEW t \in Tasks, UnlockTx(t) PROVE LockInv'
  BY <1>6, <1>a, <1>m DEF UnlockTx, dataVars, Unlocked
<1>7. ASSUME NEW t \in Tasks, ResumeAll(t) PROVE LockInv'
  <2>1. pc[t] = "resume" /\ UNCHANGED <<txLock, messages>>
    BY <1>7 DEF ResumeAll, dataVars, lockVars
  <2>2. t \in suspender
    BY <1>0, <2>1 DEF Held
  <2>3. \A u \in suspender : pc[u] \notin Locking
    BY <1>0, <2>1, <2>2 DEF Locking
  <2>4. QED
    BY <2>1, <2>3, <1>a, <1>d, <1>m
<1>8. CASE SendFromISR
  <2>1. /\ messages' = messages + 1 /\ messages < Length
        /\ UNCHANGED <<pc, suspender>>
        /\ txLock = -1 => txLock' = txLock
        /\ txLock # -1 => txLock' = txLock + 1
    BY <1>8 DEF SendFromISR, CanSend, CopyTo, CountItem, Unlocked, callVars
  <2>2. messages' \in 0 .. Length /\ txLock' \in -1 .. Length
    BY <2>1, <1>m, <1>d
  <2>3. txLock' > 0 => txLock' <= messages'
    BY <2>1, <1>m, <1>d
  <2>4. txLock' # -1 => \E u \in suspender' : pc'[u] \in Locking
    BY <2>1, <1>d
  <2>5. QED
    BY <2>2, <2>3, <2>4
    DEF LockInv, LockDiscipline, Locking, Unlocked, LockedUnmodified
<1>9. CASE Tick
  <2>1. UNCHANGED <<pc, suspender, messages, txLock>>
    BY <1>9 DEF Tick, callVars, dataVars, lockVars
  <2>2. QED
    BY <2>1, <1>m, <1>d
    DEF LockInv, LockDiscipline, Locking, Unlocked, LockedUnmodified
<1>10. CASE UNCHANGED vars
  <2>1. UNCHANGED <<pc, suspender, messages, txLock>>
    BY <1>10 DEF vars, callVars, dataVars, lockVars
  <2>2. QED
    BY <2>1, <1>m, <1>d
    DEF LockInv, LockDiscipline, Locking, Unlocked, LockedUnmodified
<1>11. QED
  BY <1>1, <1>2, <1>3, <1>4, <1>5, <1>6, <1>7, <1>8, <1>9, <1>10 DEF Next, Step

LEMMA HoldersAlways == Spec => [](TimeTyped /\ HolderInv)
<1>1. Init => TimeTyped /\ HolderInv
  BY TypedStart, HolderStart
<1>2. (TimeTyped /\ HolderInv) /\ [Next]_vars => (TimeTyped /\ HolderInv)'
  BY TypedStep, HolderStep
<1>3. QED
  BY <1>1, <1>2, PTL DEF Spec

\* The queue is locked only by the task that has suspended the scheduler, so it
\* is never left locked when tasks may be switched, and the items counted while
\* it is locked are in it: no more tasks are woken than there are items.
THEOREM LockHeld == Spec => []LockDiscipline
<1>1. TimeTyped /\ HolderInv /\ LockInv /\ [Next]_vars => LockInv'
  BY LockStep
<1>2. Spec => []LockInv
  BY LockStart, <1>1, HoldersAlways, PTL DEF Spec
<1>3. LockInv => LockDiscipline
  BY DEF LockInv
<1>4. QED
  BY <1>2, <1>3, PTL

-----------------------------------------------------------------------------
(* The time of a call *)

\* The count of a clock that wraps around and its overflows.
LEMMA CountOn ==
    /\ \A x \in 0 .. Wrap - 1 : (x + 1) % Wrap = IF x + 1 < Wrap THEN x + 1 ELSE 0
    /\ \A x \in 0 .. OverWrap - 1 :
          (x + 1) % OverWrap = IF x + 1 < OverWrap THEN x + 1 ELSE 0
<1>1. ASSUME NEW n \in Nat \ {0}, NEW x \in 0 .. n - 1
      PROVE  (x + 1) % n = IF x + 1 < n THEN x + 1 ELSE 0
  <2>1. CASE x + 1 < n
    BY <2>1
  <2>2. CASE ~(x + 1 < n)
    <3>1. x + 1 = n
      BY <2>2
    <3>2. n % n = 0
      OBVIOUS
    <3>3. QED
      BY <3>1, <3>2
  <2>3. QED
    BY <2>1, <2>2
<1>2. Wrap \in Nat \ {0} /\ OverWrap \in Nat \ {0}
  OBVIOUS
<1>3. QED
  BY <1>1, <1>2

\* A tick takes no time-out further than one tick.
LEMMA SinceGrows ==
    ASSUME TimeTyped,
           NEW S, IncrementTick(S),
           NEW o \in 0 .. OverWrap - 1, NEW e \in Ticks
    PROVE  /\ SinceEntry(o, e)' \in 0 .. Wrap
           /\ SinceEntry(o, e)' <= SinceEntry(o, e) + 1
<1>1. tick \in 0 .. Wrap - 1 /\ over \in 0 .. OverWrap - 1
  BY DEF TimeTyped, Ticks
<1>2. /\ tick' = IF tick + 1 < Wrap THEN tick + 1 ELSE 0
      /\ over' = IF tick + 1 < Wrap THEN over
                 ELSE IF over + 1 < OverWrap THEN over + 1 ELSE 0
  BY <1>1, ClockStep, CountOn
<1>3. (o + 1) % OverWrap = IF o + 1 < OverWrap THEN o + 1 ELSE 0
  BY CountOn
<1>4. SinceEntry(o, e) =
         IF over = o /\ tick >= e THEN tick - e
         ELSE IF over = (o + 1) % OverWrap /\ tick < e THEN tick + Wrap - e
         ELSE Wrap
  BY DEF SinceEntry
<1>5. SinceEntry(o, e)' =
         IF over' = o /\ tick' >= e THEN tick' - e
         ELSE IF over' = (o + 1) % OverWrap /\ tick' < e THEN tick' + Wrap - e
         ELSE Wrap
  BY DEF SinceEntry
<1>6. e \in 0 .. Wrap - 1
  BY DEF Ticks
<1>t. SinceEntry(o, e)' \in 0 .. Wrap
  <2>1. tick' \in 0 .. Wrap - 1
    BY <1>1, <1>2
  <2>2. \/ SinceEntry(o, e)' = tick' - e /\ tick' >= e
        \/ SinceEntry(o, e)' = tick' + Wrap - e /\ tick' < e
        \/ SinceEntry(o, e)' = Wrap
    BY <1>5
  <2>3. QED
    BY <2>1, <2>2, <1>6
<1>7. CASE tick + 1 < Wrap
  BY <1>1, <1>2, <1>3, <1>4, <1>5, <1>6, <1>7, <1>t
<1>8. CASE ~(tick + 1 < Wrap)
  <2>1. /\ tick' = 0 /\ tick = Wrap - 1 /\ over' # over
        /\ over' = IF over + 1 < OverWrap THEN over + 1 ELSE 0
    BY <1>1, <1>2, <1>8
  <2>2. CASE over = o
    <3>1. SinceEntry(o, e) = Wrap - 1 - e
      BY <1>4, <1>6, <2>1, <2>2
    <3>2. SinceEntry(o, e)' = Wrap - e
      BY <1>1, <1>3, <1>5, <1>6, <2>1, <2>2
    <3>3. QED
      BY <3>1, <3>2, <1>6
  <2>3. CASE over # o
    <3>1. SinceEntry(o, e) = Wrap
      BY <1>1, <1>3, <1>4, <1>6, <2>1, <2>3
    <3>2. SinceEntry(o, e)' <= Wrap
      BY <1>5, <1>6, <2>1
    <3>3. QED
      BY <3>1, <3>2, <1>5, <1>6, <2>1
  <2>4. QED
    BY <2>2, <2>3
<1>9. QED
  BY <1>7, <1>8, <1>t

\* It is a number of ticks, up to one turn.
LEMMA SinceTyped ==
    ASSUME TimeTyped, NEW o \in 0 .. OverWrap - 1, NEW e \in Ticks
    PROVE  SinceEntry(o, e) \in 0 .. Wrap
<1>1. tick \in 0 .. Wrap - 1 /\ e \in 0 .. Wrap - 1
  BY DEF TimeTyped, Ticks
<1>2. QED
  BY <1>1 DEF SinceEntry

\* What xTaskCheckForTimeOut reckons has passed.
LEMMA ElapsedIs ==
    ASSUME TimeTyped, NEW t \in Tasks, entryAt[t] # NoEntry
    PROVE  /\ Elapsed(t) \in Ticks
           /\ Elapsed(t) <= SinceEntry(entryOver[t], entryAt[t])
           /\ WrappedAround(t) => SinceEntry(entryOver[t], entryAt[t]) = Wrap
<1> DEFINE e == entryAt[t]
           o == entryOver[t]
<1>1. /\ tick \in 0 .. Wrap - 1 /\ e \in 0 .. Wrap - 1
      /\ over \in 0 .. OverWrap - 1 /\ o \in 0 .. OverWrap - 1
  BY DEF TimeTyped, Ticks
<1>2. Elapsed(t) = (tick - e) % Wrap
  BY DEF Elapsed
<1> HIDE DEF e, o
<1>3. (tick - e) % Wrap = IF tick >= e THEN tick - e ELSE tick - e + Wrap
  <2>1. CASE tick >= e
    BY <1>1, <2>1
  <2>2. CASE ~(tick >= e)
    <3>1. tick - e + Wrap \in 0 .. Wrap - 1 /\ tick - e = (tick - e + Wrap) + (-1) * Wrap
      BY <1>1, <2>2
    <3>2. QED
      BY <3>1, <2>2
  <2>3. QED
    BY <2>1, <2>2
<1>4. SinceEntry(o, e) =
         IF over = o /\ tick >= e THEN tick - e
         ELSE IF over = (o + 1) % OverWrap /\ tick < e THEN tick + Wrap - e
         ELSE Wrap
  BY DEF SinceEntry
<1>5. Elapsed(t) \in 0 .. Wrap - 1
  BY <1>1, <1>2, <1>3
<1>6. Elapsed(t) <= SinceEntry(o, e)
  BY <1>1, <1>2, <1>3, <1>4
<1>7. WrappedAround(t) => over # o /\ tick >= e
  BY DEF WrappedAround, e, o
<1>8. WrappedAround(t) => SinceEntry(o, e) = Wrap
  BY <1>1, <1>4, <1>7
<1>9. QED
  BY <1>5, <1>6, <1>8 DEF e, o, Ticks

LEMMA TimeStart == Init => TimeInv
<1> SUFFICES ASSUME Init PROVE TimeInv
  OBVIOUS
<1>1. ASSUME NEW t \in Tasks PROVE OnTime(t)
  <2>1. /\ pc[t] = "out" /\ after[t] = "try" /\ left[t] = 0 /\ asked[t] = 0
        /\ entryAt[t] = NoEntry /\ waited[t] = 0 /\ MaxDelay # 0
    BY DEF Init, MaxDelay
  <2>2. QED
    BY <2>1 DEF OnTime, Unstarted, Counted, Position
<1>2. QED
  BY <1>1, TypedStart DEF TimeInv

\* What a call knows of its time.
Same(u) ==
    /\ pc'[u] = pc[u] /\ after'[u] = after[u]
    /\ left'[u] = left[u] /\ asked'[u] = asked[u]
    /\ entryAt'[u] = entryAt[u] /\ entryOver'[u] = entryOver[u]

SameClock == UNCHANGED <<tick, over, pendedTick>>

LEMMA SameOnTime ==
    ASSUME NEW u \in Tasks, OnTime(u), Same(u), waited'[u] = waited[u], SameClock
    PROVE  OnTime(u)'
BY DEF Same, SameClock, OnTime, Unstarted, Counted, Position, SinceEntry

\* A step of a task changes only its own call, and the clock only when the
\* scheduler resumes.
LEMMA OwnCall ==
    ASSUME TimeTyped, NEW t \in Tasks, Call(t) \/ Step(t)
    PROVE  /\ \A u \in Tasks \ {t} : Same(u) /\ waited'[u] = waited[u]
           /\ ResumeAll(t) \/ SameClock
<1>1. /\ pc \in [Tasks -> PC] /\ after \in [Tasks -> {"try", "recheck", "out"}]
      /\ left \in [Tasks -> Ticks] /\ asked \in [Tasks -> Ticks]
      /\ entryAt \in [Tasks -> Ticks \cup {NoEntry}]
      /\ entryOver \in [Tasks -> 0 .. OverWrap - 1]
      /\ waited \in [Tasks -> 0 .. Wrap]
  BY DEF TimeTyped
<1>a. ASSUME Return(t)
      PROVE  \A u \in Tasks \ {t} : Same(u) /\ waited'[u] = waited[u]
  BY <1>1, <1>a DEF Return, Same
<1>2. CASE Call(t)
  <2>1. PICK n \in Waits[t] : /\ left' = [left EXCEPT ![t] = n]
                              /\ asked' = [asked EXCEPT ![t] = n]
    BY <1>2 DEF Call
  <2>2. pc' = [pc EXCEPT ![t] = "try"]
        /\ UNCHANGED <<after, entryAt, entryOver, waited, tick, over, pendedTick>>
    BY <1>2 DEF Call, Goto, tickVars
  <2>3. QED
    BY <1>1, <2>1, <2>2 DEF Same, SameClock
<1>3. CASE Transfer(t) \/ GiveUp(t)
  <2>1. Return(t) /\ UNCHANGED <<tick, over, pendedTick>>
    BY <1>3 DEF Transfer, GiveUp
  <2>2. QED
    BY <2>1, <1>a DEF SameClock
<1>4. CASE SetTimeOut(t)
  <2>1. pc' = [pc EXCEPT ![t] = "suspend"]
        /\ UNCHANGED <<after, left, asked, waited, tick, over, pendedTick>>
    BY <1>4 DEF SetTimeOut, Goto, tickVars
  <2>2. \A u \in Tasks \ {t} : entryAt'[u] = entryAt[u] /\ entryOver'[u] = entryOver[u]
    BY <1>1, <1>4 DEF SetTimeOut
  <2>3. QED
    BY <1>1, <2>1, <2>2 DEF Same, SameClock
<1>5. CASE SuspendAll(t) \/ LockQueue(t) \/ UnlockTx(t) \/ UnlockRx(t) \/ Place(t)
  <2>1. /\ \E p \in PC : pc' = [pc EXCEPT ![t] = p]
        /\ UNCHANGED <<after, left, entryAt, entryOver, asked, waited, tick,
                       over, pendedTick>>
    BY <1>5 DEF SuspendAll, LockQueue, UnlockTx, UnlockRx, Place, Goto, tickVars, PC
  <2>2. QED
    BY <1>1, <2>1 DEF Same, SameClock
<1>6. CASE CheckForTimeOut(t)
  <2>1. /\ \E p \in PC : pc' = [pc EXCEPT ![t] = p]
        /\ UNCHANGED <<asked, waited, tick, over, pendedTick>>
    BY <1>6 DEF CheckForTimeOut, Goto, tickVars, PC, UnlockFirst
  <2>2. \A u \in Tasks \ {t} :
           /\ left'[u] = left[u] /\ after'[u] = after[u]
           /\ entryAt'[u] = entryAt[u] /\ entryOver'[u] = entryOver[u]
    BY <1>1, <1>6 DEF CheckForTimeOut
  <2>3. QED
    BY <1>1, <2>1, <2>2 DEF Same, SameClock
<1>7. CASE Test(t)
  <2>1. /\ \E p \in PC : pc' = [pc EXCEPT ![t] = p]
        /\ after' = [after EXCEPT ![t] = "try"]
        /\ UNCHANGED <<left, entryAt, entryOver, asked, waited, tick, over,
                       pendedTick>>
    BY <1>7 DEF Test, Goto, tickVars, PC
  <2>2. QED
    BY <1>1, <2>1 DEF Same, SameClock
<1>8. CASE ResumeAll(t)
  <2>1. CASE Return(t)
    BY <1>8, <2>1, <1>a
  <2>2. CASE pc' = [pc EXCEPT ![t] = after[t]]
             /\ UNCHANGED <<after, left, entryAt, entryOver, asked, waited, wake>>
    BY <1>1, <1>8, <2>2 DEF Same
  <2>3. QED
    BY <1>8, <2>1, <2>2 DEF ResumeAll
<1>9. CASE Recheck(t)
  <2>1. SameClock
    BY <1>9 DEF Recheck, SameClock
  <2>2. CASE Return(t)
    BY <2>1, <2>2, <1>a
  <2>3. CASE pc' = [pc EXCEPT ![t] = "try"]
             /\ UNCHANGED <<after, left, entryAt, entryOver, asked, waited, wake>>
    BY <1>1, <2>1, <2>3 DEF Same
  <2>4. QED
    BY <1>9, <2>2, <2>3 DEF Recheck
<1>10. QED
  BY <1>2, <1>3, <1>4, <1>5, <1>6, <1>7, <1>8, <1>9 DEF Step

\* A returned call has no time to wait.
LEMMA ReturnOnTime ==
    ASSUME TimeTyped, NEW t \in Tasks, Return(t)
    PROVE  OnTime(t)'
<1>1. /\ pc'[t] = "out" /\ left'[t] = 0 /\ asked'[t] = 0 /\ waited'[t] = 0
      /\ entryAt'[t] = NoEntry
  BY DEF TimeTyped, Return
<1>2. MaxDelay # 0
  BY DEF MaxDelay
<1>3. QED
  BY <1>1, <1>2 DEF OnTime, Unstarted, Counted, Position

\* A step that moves a call on and leaves its time alone.
LEMMA MovesOn ==
    ASSUME NEW t \in Tasks, OnTime(t), SameClock,
           left'[t] = left[t], asked'[t] = asked[t],
           entryAt'[t] = entryAt[t], entryOver'[t] = entryOver[t],
           waited'[t] = waited[t], pc'[t] # "out", Position(t)'
    PROVE  OnTime(t)'
<1>1. Unstarted(t)'
  BY DEF OnTime, Unstarted
<1>2. Counted(t)'
  BY DEF OnTime, Counted, SameClock, SinceEntry
<1>3. QED
  BY <1>1, <1>2 DEF OnTime

\* The tick that is made up for was counted when it was pended.
LEMMA TickMadeUp ==
    ASSUME TimeTyped, NEW t \in Tasks, OnTime(t), NEW S, IncrementTick(S),
           pendedTick = 1, pendedTick' = 0,
           left'[t] = left[t], asked'[t] = asked[t],
           entryAt'[t] = entryAt[t], entryOver'[t] = entryOver[t],
           waited'[t] = waited[t], pc'[t] = "out" => pc[t] = "out", Position(t)'
    PROVE  OnTime(t)'
<1>1. /\ left[t] \in Ticks /\ asked[t] \in Ticks /\ waited[t] \in 0 .. Wrap
      /\ entryAt[t] \in Ticks \cup {NoEntry} /\ entryOver[t] \in 0 .. OverWrap - 1
  BY DEF TimeTyped
<1>2. Unstarted(t)'
  BY DEF OnTime, Unstarted
<1>3. ASSUME entryAt[t] # NoEntry, left[t] # 0
      PROVE  \/ waited[t] = Wrap
             \/ waited[t] >= asked[t] - left[t] + 0
                                + SinceEntry(entryOver[t], entryAt[t])'
  <2>1. PICK e \in Ticks : e = entryAt[t]
    BY <1>1, <1>3
  <2>2. PICK o \in 0 .. OverWrap - 1 : o = entryOver[t]
    BY <1>1
  <2>3. SinceEntry(entryOver[t], entryAt[t])' = SinceEntry(o, e)'
    BY <2>1, <2>2 DEF SinceEntry
  <2>4. PICK s0 \in Int : s0 = SinceEntry(o, e)
    BY SinceTyped
  <2>5. PICK s1 \in Int : s1 = SinceEntry(o, e)'
    BY SinceGrows
  <2>6. s1 <= s0 + 1
    BY <2>4, <2>5, SinceGrows
  <2>7. \/ waited[t] = Wrap
        \/ waited[t] >= asked[t] - left[t] + 1 + s0
    BY <1>3, <2>1, <2>2, <2>4 DEF OnTime, Counted
  <2>8. \/ waited[t] = Wrap
        \/ waited[t] >= asked[t] - left[t] + 0 + s1
    BY <1>1, <2>4, <2>5, <2>6, <2>7 DEF Ticks
  <2>9. QED
    BY <2>3, <2>5, <2>8
<1>4. Counted(t)'
  BY <1>3 DEF OnTime, Counted
<1>5. QED
  BY <1>2, <1>4 DEF OnTime

LEMMA OwnTime ==
    ASSUME TimeInv, HolderInv, NEW t \in Tasks, Call(t) \/ Step(t)
    PROVE  OnTime(t)'
<1>1. /\ pc \in [Tasks -> PC] /\ after \in [Tasks -> {"try", "recheck", "out"}]
      /\ left \in [Tasks -> Ticks] /\ asked \in [Tasks -> Ticks]
      /\ entryAt \in [Tasks -> Ticks \cup {NoEntry}]
      /\ entryOver \in [Tasks -> 0 .. OverWrap - 1]
      /\ waited \in [Tasks -> 0 .. Wrap]
      /\ tick \in Ticks /\ over \in 0 .. OverWrap - 1 /\ TimeTyped
  BY DEF TimeInv, TimeTyped
<1>2. OnTime(t)
  BY DEF TimeInv
<1>h. /\ \A u \in Tasks : u \in suspender <=> pc[u] \in Held
      /\ pendedTick \in 0 .. 1
      /\ pendedTick = 1 => suspender # Nobody
  BY DEF HolderInv
<1>3. CASE Call(t)
  <2>1. PICK n \in Waits[t] : /\ left' = [left EXCEPT ![t] = n]
                              /\ asked' = [asked EXCEPT ![t] = n]
    BY <1>3 DEF Call
  <2>2. /\ pc'[t] = "try" /\ pc[t] = "out"
        /\ UNCHANGED <<entryAt, entryOver, waited>>
    BY <1>1, <1>3 DEF Call, Goto, tickVars
  <2>3. left'[t] = n /\ asked'[t] = n /\ n \in Ticks
    BY <1>1, <2>1 DEF Ticks, MaxDelay
  <2>4. entryAt'[t] = NoEntry /\ waited'[t] = 0
    BY <1>2, <2>2 DEF OnTime, Unstarted
  <2>5. QED
    BY <2>2, <2>3, <2>4 DEF OnTime, Unstarted, Counted, Position, Ticks
<1>4. CASE Transfer(t) \/ GiveUp(t)
  <2>1. Return(t)
    BY <1>4 DEF Transfer, GiveUp
  <2>2. QED
    BY <2>1, <1>1, ReturnOnTime
<1>5. CASE SetTimeOut(t)
  <2>1. /\ pc'[t] = "suspend" /\ pc[t] = "try" /\ Running(t) /\ left[t] # 0
        /\ UNCHANGED <<left, asked, waited, tick, over, pendedTick>>
    BY <1>1, <1>5 DEF SetTimeOut, Goto, tickVars
  <2>2. SameClock
    BY <2>1 DEF SameClock
  <2>3. CASE entryAt[t] = NoEntry /\ left[t] # MaxDelay
    <3>1. entryAt'[t] = tick /\ entryOver'[t] = over
      BY <1>1, <1>5, <2>3 DEF SetTimeOut
    <3>2. pendedTick = 0
      BY <1>h, <2>1 DEF Running, Held
    <3>3. waited[t] = 0 /\ left[t] = asked[t]
      BY <1>2, <2>3 DEF OnTime, Unstarted
    <3>4. tick # NoEntry
      BY <1>1 DEF Ticks, NoEntry
    <3>5. SinceEntry(entryOver[t], entryAt[t])' = 0
      BY <1>1, <2>1, <3>1 DEF SinceEntry, Ticks
    <3>6. waited'[t] >= asked'[t] - left'[t] + pendedTick'
             + SinceEntry(entryOver[t], entryAt[t])'
      BY <1>1, <2>1, <3>2, <3>3, <3>5 DEF Ticks
    <3>7. Counted(t)'
      BY <1>1, <1>2, <2>1, <3>3, <3>6 DEF OnTime, Counted, Ticks
    <3>8. QED
      BY <2>1, <2>3, <3>1, <3>4, <3>7 DEF OnTime, Unstarted, Position
  <2>4. CASE ~(entryAt[t] = NoEntry /\ left[t] # MaxDelay)
    <3>1. entryAt' = entryAt /\ entryOver' = entryOver
      BY <1>5, <2>4 DEF SetTimeOut
    <3>2. Position(t)'
      BY <2>1, <2>4, <3>1 DEF Position
    <3>3. QED
      BY <1>2, <2>1, <2>2, <3>1, <3>2, MovesOn
  <2>5. QED
    BY <2>3, <2>4
<1>6. CASE SuspendAll(t) \/ LockQueue(t)
  <2>1. /\ pc[t] \in {"suspend", "lock"} /\ pc'[t] \in {"lock", "check"}
        /\ UNCHANGED <<left, asked, entryAt, entryOver, waited, tick, over, pendedTick>>
    BY <1>1, <1>6 DEF SuspendAll, LockQueue, Goto, tickVars
  <2>2. Position(t)'
    BY <1>2, <2>1 DEF OnTime, Position
  <2>3. SameClock
    BY <2>1 DEF SameClock
  <2>4. QED
    BY <1>2, <2>1, <2>2, <2>3, MovesOn
<1>7. CASE UnlockTx(t) \/ UnlockRx(t) \/ Place(t)
  <2>1. /\ pc[t] \in {"place", "unlockTx", "unlockRx"}
        /\ pc'[t] \in {"unlockTx", "unlockRx", "resume"}
        /\ UNCHANGED <<after, left, asked, entryAt, entryOver, waited, tick, over, pendedTick>>
    BY <1>1, <1>7 DEF UnlockTx, UnlockRx, Place, Goto, tickVars
  <2>2. Position(t)'
    BY <1>2, <2>1 DEF OnTime, Position
  <2>3. SameClock
    BY <2>1 DEF SameClock
  <2>4. QED
    BY <1>2, <2>1, <2>2, <2>3, MovesOn
<1>8. CASE CheckForTimeOut(t)
  <2>1. /\ pc[t] = "check" /\ left[t] # 0
        /\ left[t] = MaxDelay \/ entryAt[t] # NoEntry
        /\ UNCHANGED <<asked, waited, tick, over, pendedTick>>
    BY <1>2, <1>8 DEF CheckForTimeOut, Goto, tickVars, OnTime, Position
  <2>2. SameClock
    BY <2>1 DEF SameClock
  <2>3. CASE /\ left[t] = MaxDelay
             /\ Goto(t, "check", "test")
             /\ UNCHANGED <<after, left, entryAt, entryOver>>
    <3>1. pc'[t] = "test"
      BY <1>1, <2>3 DEF Goto
    <3>2. Position(t)'
      BY <3>1 DEF Position
    <3>3. QED
      BY <1>2, <2>1, <2>2, <2>3, <3>1, <3>2, MovesOn
  <2> DEFINE e == entryAt[t]
             o == entryOver[t]
             since == SinceEntry(o, e)
  <2>4. ASSUME left[t] # MaxDelay
        PROVE  /\ e # NoEntry /\ e \in Ticks /\ since \in 0 .. Wrap
               /\ Elapsed(t) \in Ticks /\ Elapsed(t) <= since
               /\ WrappedAround(t) => since = Wrap
               /\ \/ waited[t] = Wrap
                  \/ waited[t] >= asked[t] - left[t] + pendedTick + since
               /\ left[t] <= asked[t] /\ asked[t] # MaxDelay
    <3>1. e # NoEntry /\ e \in Ticks /\ o \in 0 .. OverWrap - 1
      BY <1>1, <2>1, <2>4
    <3>2. since \in 0 .. Wrap
      BY <1>1, <3>1, SinceTyped
    <3>3. /\ Elapsed(t) \in Ticks /\ Elapsed(t) <= since
          /\ WrappedAround(t) => since = Wrap
      BY <1>1, <3>1, ElapsedIs
    <3>4. /\ \/ waited[t] = Wrap
             \/ waited[t] >= asked[t] - left[t] + pendedTick + since
          /\ left[t] <= asked[t] /\ asked[t] # MaxDelay
      BY <1>2, <2>1, <2>4, <3>1 DEF OnTime, Counted
    <3>5. QED
      BY <3>1, <3>2, <3>3, <3>4
  <2>5. CASE /\ left[t] # MaxDelay /\ ~TimedOut(t)
             /\ Goto(t, "check", "test")
             /\ left' = [left EXCEPT ![t] = @ - Elapsed(t)]
             /\ entryAt' = [entryAt EXCEPT ![t] = tick]
             /\ entryOver' = [entryOver EXCEPT ![t] = over]
    <3>1. /\ pc'[t] = "test" /\ left'[t] = left[t] - Elapsed(t)
          /\ entryAt'[t] = tick /\ entryOver'[t] = over
      BY <1>1, <2>5 DEF Goto
    <3>2. Elapsed(t) < left[t]
      BY <1>1, <2>4, <2>5 DEF TimedOut, Ticks
    <3>3. SinceEntry(entryOver[t], entryAt[t])' = 0
      BY <1>1, <2>1, <3>1 DEF SinceEntry, Ticks
    <3>4. tick # NoEntry
      BY <1>1 DEF Ticks, NoEntry
    <3>5. \/ waited'[t] = Wrap
          \/ waited'[t] >= asked'[t] - left'[t] + pendedTick'
                             + SinceEntry(entryOver[t], entryAt[t])'
      <4> HIDE DEF since
      <4>1. waited[t] = Wrap \/ waited[t] >= asked[t] - left[t] + pendedTick + since
        BY <2>4, <2>5
      <4>2. /\ Elapsed(t) <= since /\ Elapsed(t) \in Int /\ since \in Int
            /\ left[t] \in Int /\ asked[t] \in Int /\ waited[t] \in Int
            /\ pendedTick \in Int
        BY <1>1, <1>h, <2>4, <2>5 DEF Ticks
      <4>3. asked[t] - left[t] + pendedTick + since
               >= asked[t] - (left[t] - Elapsed(t)) + pendedTick + 0
        BY <4>2
      <4>4. QED
        BY <2>1, <3>1, <3>3, <4>1, <4>2, <4>3
    <3>6. left'[t] \in Ticks /\ left'[t] <= asked'[t] /\ left'[t] # 0
      BY <1>1, <2>1, <2>4, <2>5, <3>1, <3>2 DEF Ticks
    <3>7. Counted(t)'
      BY <2>1, <2>4, <2>5, <3>5, <3>6 DEF Counted
    <3>8. QED
      BY <3>1, <3>4, <3>7 DEF OnTime, Unstarted, Position
  <2>6. CASE /\ TimedOut(t)
             /\ Goto(t, "check", UnlockFirst)
             /\ left' = [left EXCEPT ![t] = 0]
             /\ UNCHANGED <<entryAt, entryOver>>
    <3>1. pc'[t] = "unlockTx" /\ left'[t] = 0 /\ entryAt' = entryAt
      BY <1>1, <2>6 DEF Goto, UnlockFirst
    <3>2. left[t] # MaxDelay
      BY <2>6 DEF TimedOut
    <3>3. WrappedAround(t) \/ Elapsed(t) >= left[t]
      BY <2>6 DEF TimedOut
    <3>4. since >= left[t]
      <4> HIDE DEF since
      <4>1. /\ since \in Int /\ Elapsed(t) \in Int /\ left[t] \in 0 .. Wrap - 1
            /\ Elapsed(t) <= since
            /\ WrappedAround(t) => since = Wrap
        BY <1>1, <2>4, <3>2 DEF Ticks
      <4>2. CASE WrappedAround(t)
        BY <4>1, <4>2
      <4>3. CASE Elapsed(t) >= left[t]
        BY <4>1, <4>3
      <4>4. QED
        BY <3>3, <4>2, <4>3
    <3>5. waited[t] >= asked[t]
      <4> HIDE DEF since
      <4>1. /\ waited[t] = Wrap \/ waited[t] >= asked[t] - left[t] + pendedTick + since
            /\ since \in Int
        BY <2>4, <3>2
      <4>2. /\ left[t] \in Int /\ asked[t] \in 0 .. Wrap - 1 /\ waited[t] \in Int
            /\ pendedTick \in 0 .. 1
        BY <1>1, <1>h DEF Ticks
      <4>3. QED
        BY <3>4, <4>1, <4>2
    <3>6. asked'[t] # MaxDelay /\ asked'[t] \in Ticks /\ waited'[t] >= asked'[t]
      BY <1>1, <2>1, <2>4, <3>2, <3>5
    <3>7. Counted(t)'
      BY <3>1, <3>6 DEF Counted, Ticks
    <3>8. QED
      BY <2>1, <2>4, <3>1, <3>2, <3>7 DEF OnTime, Unstarted, Position
  <2>7. QED
    BY <1>8, <2>3, <2>5, <2>6 DEF CheckForTimeOut
<1>9. CASE Test(t)
  <2>1. /\ pc'[t] \in {"unlockTx", "place"} /\ after'[t] = "try"
        /\ UNCHANGED <<left, asked, entryAt, entryOver, waited, tick, over, pendedTick>>
    BY <1>1, <1>9 DEF Test, Goto, tickVars
  <2>2. Position(t)'
    BY <2>1 DEF Position
  <2>3. SameClock
    BY <2>1 DEF SameClock
  <2>4. QED
    BY <1>2, <2>1, <2>2, <2>3, MovesOn
<1>10. CASE ResumeAll(t)
  <2>1. CASE Return(t)
    BY <1>1, <2>1, ReturnOnTime
  <2>2. CASE /\ after[t] # "out"
             /\ pc' = [pc EXCEPT ![t] = after[t]]
             /\ UNCHANGED <<after, left, entryAt, entryOver, asked, waited, wake>>
    <3>1. pc[t] = "resume" /\ pc'[t] = after[t] /\ after[t] \in {"try", "recheck"}
      BY <1>1, <1>10, <2>2 DEF ResumeAll
    <3>2. after[t] = "try" \/ left[t] = 0
      BY <1>2, <3>1 DEF OnTime, Position
    <3>3. Position(t)'
      BY <2>2, <3>1, <3>2 DEF Position
    <3>4. CASE pendedTick = 0
      <4>1. SameClock
        BY <1>10, <3>4 DEF ResumeAll, SameClock
      <4>2. QED
        BY <1>2, <2>2, <3>1, <3>3, <4>1, MovesOn
    <3>5. CASE pendedTick = 1
      <4>1. IncrementTick(PendingTasks) /\ pendedTick' = 0
        BY <1>10, <3>5 DEF ResumeAll
      <4>2. QED
        BY <1>1, <1>2, <2>2, <3>1, <3>3, <3>5, <4>1, TickMadeUp
    <3>6. QED
      BY <1>h, <3>4, <3>5
  <2>3. QED
    BY <1>10, <2>1, <2>2 DEF ResumeAll
<1>11. CASE Recheck(t)
  <2>1. CASE Return(t)
    BY <1>1, <2>1, ReturnOnTime
  <2>2. CASE pc' = [pc EXCEPT ![t] = "try"]
             /\ UNCHANGED <<after, left, entryAt, entryOver, asked, waited, wake>>
    <3>1. pc'[t] = "try" /\ SameClock
      BY <1>1, <1>11, <2>2 DEF Recheck, SameClock
    <3>2. Position(t)'
      BY <3>1 DEF Position
    <3>3. QED
      BY <1>2, <2>2, <3>1, <3>2, MovesOn
  <2>3. QED
    BY <1>11, <2>1, <2>2 DEF Recheck
<1>12. QED
  BY <1>3, <1>4, <1>5, <1>6, <1>7, <1>8, <1>9, <1>10, <1>11 DEF Step

LEMMA TimeStep == TimeInv /\ HolderInv /\ [Next]_vars => TimeInv'
<1> SUFFICES ASSUME TimeInv, HolderInv, [Next]_vars PROVE TimeInv'
  OBVIOUS
<1>1. TimeTyped /\ \A u \in Tasks : OnTime(u)
  BY DEF TimeInv
<1>2. TimeTyped'
  BY <1>1, TypedStep
<1>h. pendedTick \in 0 .. 1 /\ (pendedTick = 1 => suspender # Nobody)
  BY DEF HolderInv
<1>3. ASSUME NEW t \in Tasks, Call(t) \/ Step(t) PROVE TimeInv'
  <2>1. OnTime(t)'
    BY <1>3, OwnTime
  <2>2. /\ \A u \in Tasks \ {t} : Same(u) /\ waited'[u] = waited[u]
        /\ ResumeAll(t) \/ SameClock
    BY <1>1, <1>3, OwnCall
  <2>3. ASSUME NEW u \in Tasks \ {t} PROVE OnTime(u)'
    <3>1. OnTime(u) /\ Same(u) /\ waited'[u] = waited[u]
      BY <1>1, <2>2
    <3>2. CASE SameClock
      BY <3>1, <3>2, SameOnTime
    <3>3. CASE ResumeAll(t) /\ pendedTick = 0
      <4>1. SameClock
        BY <3>3 DEF ResumeAll, SameClock
      <4>2. QED
        BY <3>1, <4>1, SameOnTime
    <3>4. CASE ResumeAll(t) /\ pendedTick = 1
      <4>1. IncrementTick(PendingTasks) /\ pendedTick' = 0
        BY <3>4 DEF ResumeAll
      <4>2. Position(u)'
        BY <3>1 DEF Same, OnTime, Position
      <4>3. QED
        BY <1>1, <3>1, <3>4, <4>1, <4>2, TickMadeUp DEF Same
    <3>5. QED
      BY <1>h, <2>2, <3>2, <3>3, <3>4
  <2>4. QED
    BY <1>2, <2>1, <2>3 DEF TimeInv
<1>4. CASE SendFromISR
  <2>1. /\ \A u \in Tasks : Same(u) /\ waited'[u] = waited[u]
        /\ SameClock
    BY <1>4 DEF SendFromISR, callVars, tickVars, Same, SameClock
  <2>2. \A u \in Tasks : OnTime(u)'
    BY <1>1, <2>1, SameOnTime
  <2>3. QED
    BY <1>2, <2>2 DEF TimeInv
<1>5. CASE Tick
  <2>1. ASSUME NEW u \in Tasks PROVE OnTime(u)'
    <3>1. /\ OnTime(u) /\ Same(u) /\ waited \in [Tasks -> 0 .. Wrap]
          /\ left[u] \in Ticks /\ asked[u] \in Ticks
          /\ entryAt[u] \in Ticks \cup {NoEntry} /\ entryOver[u] \in 0 .. OverWrap - 1
      BY <1>1, <1>5 DEF Tick, callVars, Same, TimeTyped
    <3>2. waited'[u] = IF entryAt[u] # NoEntry /\ waited[u] < Wrap
                       THEN waited[u] + 1 ELSE waited[u]
      BY <1>5 DEF Tick, Aged
    <3>3. waited'[u] >= waited[u] /\ waited'[u] \in Int
      BY <3>1, <3>2
    <3>4. Unstarted(u)' /\ Position(u)'
      BY <3>1, <3>2 DEF Same, OnTime, Unstarted, Position
    <3>5. ASSUME left[u] # 0, entryAt[u] # NoEntry
          PROVE  \/ waited'[u] = Wrap
                 \/ waited'[u] >= asked[u] - left[u] + pendedTick'
                               + SinceEntry(entryOver[u], entryAt[u])'
      <4>1. PICK e \in Ticks : e = entryAt[u]
        BY <3>1, <3>5
      <4>2. PICK o \in 0 .. OverWrap - 1 : o = entryOver[u]
        BY <3>1
      <4>3. SinceEntry(entryOver[u], entryAt[u])' = SinceEntry(o, e)'
        BY <3>1, <4>1, <4>2 DEF SinceEntry, Same
      <4>4. PICK s0 \in Int : s0 = SinceEntry(o, e)
        BY <1>1, SinceTyped
      <4>5. waited[u] = Wrap \/ waited[u] >= asked[u] - left[u] + pendedTick + s0
        BY <3>1, <3>5, <4>1, <4>2, <4>4 DEF OnTime, Counted
      <4>6. PICK s1 \in Int : /\ s1 = SinceEntry(o, e)'
                              /\ pendedTick' \in 0 .. 1
                              /\ pendedTick' + s1 <= pendedTick + s0 + 1
        <5>1. CASE suspender = Nobody
          <6>1. IncrementTick({}) /\ pendedTick' = pendedTick
            BY <1>5, <5>1 DEF Tick
          <6>2. PICK s1 \in Int : s1 = SinceEntry(o, e)'
            BY <1>1, <6>1, SinceGrows
          <6>3. s1 <= s0 + 1
            BY <1>1, <4>4, <6>1, <6>2, SinceGrows
          <6>4. QED
            BY <1>h, <6>1, <6>2, <6>3
        <5>2. CASE suspender # Nobody
          <6>1. pendedTick = 0 /\ pendedTick' = 1 /\ tick' = tick /\ over' = over
            BY <1>5, <5>2 DEF Tick
          <6>2. SinceEntry(o, e)' = s0
            BY <4>4, <6>1 DEF SinceEntry
          <6>3. QED
            BY <6>1, <6>2
        <5>3. QED
          BY <5>1, <5>2
      <4>7. waited[u] \in 0 .. Wrap /\ (waited[u] < Wrap => waited'[u] = waited[u] + 1)
            /\ (waited[u] = Wrap => waited'[u] = Wrap)
        BY <3>1, <3>2, <3>5
      <4>8. \/ waited'[u] = Wrap
            \/ waited'[u] >= asked[u] - left[u] + pendedTick' + s1
        <5>1. CASE waited[u] = Wrap
          BY <4>7, <5>1
        <5>2. CASE waited[u] < Wrap
          <6>1. /\ waited[u] >= asked[u] - left[u] + pendedTick + s0
                /\ waited'[u] = waited[u] + 1
            BY <4>5, <4>7, <5>2
          <6>2. /\ asked[u] \in Int /\ left[u] \in Int /\ waited[u] \in Int
                /\ pendedTick \in Int /\ pendedTick' \in Int
            BY <1>h, <3>1, <4>6 DEF Ticks
          <6>3. QED
            BY <4>4, <4>6, <6>1, <6>2
        <5>3. QED
          BY <4>7, <5>1, <5>2
      <4>9. QED
        BY <4>3, <4>6, <4>8
    <3>6. left[u] = 0 => waited'[u] >= asked[u]
      <4>1. left[u] = 0 => waited[u] >= asked[u]
        BY <3>1 DEF OnTime, Counted
      <4>2. waited[u] \in Int /\ asked[u] \in Int
        BY <3>1 DEF Ticks
      <4>3. QED
        BY <3>3, <4>1, <4>2
    <3>7. Counted(u)'
      BY <3>1, <3>5, <3>6 DEF Same, OnTime, Counted
    <3>8. QED
      BY <3>4, <3>7 DEF OnTime
  <2>2. QED
    BY <1>2, <2>1 DEF TimeInv
<1>6. CASE UNCHANGED vars
  <2>1. /\ \A u \in Tasks : Same(u) /\ waited'[u] = waited[u]
        /\ SameClock
    BY <1>6 DEF vars, callVars, tickVars, Same, SameClock
  <2>2. \A u \in Tasks : OnTime(u)'
    BY <1>1, <2>1, SameOnTime
  <2>3. QED
    BY <1>2, <2>2 DEF TimeInv
<1>7. QED
  BY <1>3, <1>4, <1>5, <1>6 DEF Next

LEMMA TimeAlways == Spec => [](TimeInv /\ HolderInv)
<1>1. Init => TimeInv /\ HolderInv
  BY TimeStart, HolderStart
<1>2. (TimeInv /\ HolderInv) /\ [Next]_vars => (TimeInv /\ HolderInv)'
  <2>1. TimeInv => TimeTyped
    BY DEF TimeInv
  <2>2. QED
    BY <2>1, TimeStep, HolderStep
<1>3. QED
  BY <1>1, <1>2, PTL DEF Spec

\* A call that ends without an item moved has had its time: the lemma for one
\* step.
LEMMA FailStep ==
    ASSUME TimeInv, HolderInv, RingInv, [Next]_vars,
           NEW t \in Tasks, pc[t] # "out", pc'[t] = "out", messages' = messages
    PROVE  asked[t] # MaxDelay /\ waited[t] >= asked[t]
<1>1. TimeTyped /\ OnTime(t)
  BY DEF TimeInv
<1>2. pc \in [Tasks -> PC]
  BY <1>1 DEF TimeTyped
<1>3. PICK u \in Tasks : Call(u) \/ Step(u)
  <2>1. ~SendFromISR /\ ~Tick /\ ~UNCHANGED vars
    BY DEF SendFromISR, Tick, vars, callVars
  <2>2. QED
    BY <2>1 DEF Next
<1>4. u = t
  BY <1>1, <1>3, OwnCall DEF Same
<1>5. left[t] = 0
  <2>1. CASE Transfer(t)
    <3>1. messages' = messages + 1 \/ messages' = messages - 1
      BY <2>1 DEF Transfer, CopyTo, CopyFrom
    <3>2. messages \in Int
      BY DEF RingInv, RingTyped
    <3>3. QED
      BY <3>1, <3>2
  <2>2. CASE GiveUp(t)
    BY <2>2 DEF GiveUp
  <2>3. CASE ResumeAll(t)
    <3>1. pc[t] = "resume" /\ after[t] # "try"
      BY <1>2, <2>3 DEF ResumeAll
    <3>2. QED
      BY <1>1, <3>1 DEF OnTime, Position
  <2>4. CASE Recheck(t)
    BY <1>1, <2>4 DEF Recheck, OnTime, Position
  <2>5. CASE \/ Call(t) \/ SetTimeOut(t) \/ SuspendAll(t) \/ LockQueue(t)
             \/ CheckForTimeOut(t) \/ Test(t) \/ Place(t) \/ UnlockTx(t)
             \/ UnlockRx(t)
    <3>1. pc'[t] # "out"
      BY <1>2, <2>5
      DEF Call, SetTimeOut, SuspendAll, LockQueue, CheckForTimeOut, Test, Place,
          UnlockTx, UnlockRx, Goto, UnlockFirst
    <3>2. QED
      BY <3>1
  <2>6. QED
    BY <1>3, <1>4, <2>1, <2>2, <2>3, <2>4, <2>5 DEF Step
<1>6. QED
  BY <1>1, <1>5 DEF OnTime, Counted, MaxDelay

\* No call fails before the time its caller gave has passed, whatever the tick
\* count and its overflows do meanwhile, and none fails that waits for good.
THEOREM FailsNotEarly == Spec => NeverEarly
<1>1. TimeInv /\ HolderInv /\ RingInv /\ [Next]_vars =>
         [\A t \in Tasks : pc[t] # "out" /\ pc'[t] = "out" /\ messages' = messages
             => asked[t] # MaxDelay /\ waited[t] >= asked[t]]_vars
  BY FailStep
<1>2. QED
  BY <1>1, TimeAlways, RingAlways, PTL DEF Spec, NeverEarly

-----------------------------------------------------------------------------
(* Where a task is *)

Waiting == Members(toSend) \cup Members(toReceive)

LocksTyped ==
    txLock \in Unlocked .. Length /\ rxLock \in Unlocked .. LockedUnmodified

LEMMA WakeAllTyped ==
    LocksTyped => WakeAll(txLock) \in Nat /\ WakeAll(rxLock) = 0
BY DEF LocksTyped, WakeAll, Unlocked, LockedUnmodified

\* It tries again as soon as it runs, and will not wait before it has tried.
Again(t) ==
    \/ pc[t] = "try"
    \/ pc[t] \in {"unlockTx", "unlockRx", "resume"} /\ after[t] = "try"

ListTyped ==
    /\ list \in [Tasks -> {"ready", "delayed", "overflow", "suspended"}]
    /\ toSend \in Seq(Senders) /\ toReceive \in Seq(Receivers)
    /\ pendingReady \in Seq(Tasks)

\* A task that is not ready is in one event list, or has been taken from it and
\* is in the pending ready list.
Lists ==
    /\ ListTyped
    /\ Distinct(toSend) /\ Distinct(toReceive)
    /\ Waiting \cap PendingTasks = {}
    /\ \A t \in Tasks : list[t] # "ready" <=> t \in Waiting \cup PendingTasks
    /\ suspender = Nobody => pendingReady = <<>>

Places ==
    /\ \A t \in Tasks : list[t] # "ready" => Again(t)
    /\ \A t \in Tasks : pc[t] = "place" => after[t] = "try"

ListInv == Lists /\ Places

\* A ready task, or one that will be when the scheduler resumes.
Ready(t) == list[t] = "ready" \/ t \in PendingTasks

\* The tasks in woken are made ready.
Moved(woken) ==
    \/ /\ suspender = Nobody
       /\ list' = [t \in Tasks |-> IF t \in woken THEN "ready" ELSE list[t]]
       /\ pendingReady' = pendingReady
    \/ /\ suspender # Nobody
       /\ list' = list
       /\ pendingReady' \in Seq(Tasks)
       /\ PendingTasks' = PendingTasks \cup woken

LEMMA PendingAre == PendingTasks = Members(pendingReady)
BY DEF PendingTasks, Members

LEMMA MovedBy ==
    ASSUME ListTyped, NEW G \in SUBSET Tasks, NEW s \in Seq(G), MadeReady(s)
    PROVE  Moved(Members(s))
<1>1. CASE suspender = Nobody
  <2>1. /\ list' = [t \in Tasks |-> IF \E i \in DOMAIN s : s[i] = t
                                    THEN "ready" ELSE list[t]]
        /\ pendingReady' = pendingReady
    BY <1>1 DEF MadeReady
  <2>2. \A t \in Tasks : (\E i \in DOMAIN s : s[i] = t) <=> t \in Members(s)
    BY DEF Members
  <2>3. list' = [t \in Tasks |-> IF t \in Members(s) THEN "ready" ELSE list[t]]
    BY <2>1, <2>2
  <2>4. QED
    BY <1>1, <2>1, <2>3 DEF Moved
<1>2. CASE suspender # Nobody
  <2>1. pendingReady' = pendingReady \o s /\ list' = list
    BY <1>2 DEF MadeReady
  <2>2. pendingReady \in Seq(Tasks) /\ s \in Seq(Tasks)
    BY SeqMonotonic DEF ListTyped
  <2>3. /\ pendingReady \o s \in Seq(Tasks)
        /\ Members(pendingReady \o s) = Members(pendingReady) \cup Members(s)
    BY <2>2, JoinedLists
  <2>4. PendingTasks' = Members(pendingReady \o s)
    BY <2>1 DEF PendingTasks, Members
  <2>5. QED
    BY <1>2, <2>1, <2>3, <2>4, PendingAre DEF Moved
<1>3. QED
  BY <1>1, <1>2

\* n tasks of a list are woken, or all if there are fewer.
LEMMA WokenFrom ==
    ASSUME ListTyped, NEW G \in SUBSET Tasks, NEW s \in Seq(G), Distinct(s),
           NEW n \in Nat, NEW k, k = Lesser(n, Len(s)), MadeReady(First(k, s))
    PROVE  LET woken == Members(First(k, s))
           IN  /\ Rest(k, s) \in Seq(G) /\ Distinct(Rest(k, s))
               /\ woken \subseteq Members(s)
               /\ Members(Rest(k, s)) = Members(s) \ woken
               /\ IsFiniteSet(woken)
               /\ Rest(k, s) # <<>> => Cardinality(woken) = n
               /\ Moved(woken)
<1>1. Len(s) \in Nat
  OBVIOUS
<1>2. k \in 0 .. Len(s) /\ (k = n \/ k = Len(s))
  BY <1>1 DEF Lesser
<1>3. /\ First(k, s) \in Seq(G)
      /\ Rest(k, s) \in Seq(G) /\ Distinct(Rest(k, s))
      /\ Len(Rest(k, s)) = Len(s) - k
      /\ Members(First(k, s)) \subseteq Members(s)
      /\ Members(Rest(k, s)) = Members(s) \ Members(First(k, s))
      /\ IsFiniteSet(Members(First(k, s)))
      /\ Cardinality(Members(First(k, s))) = k
  BY <1>2, FirstLeave
<1>4. Rest(k, s) # <<>> => k = n
  BY <1>1, <1>2, <1>3
<1>5. Moved(Members(First(k, s)))
  BY <1>3, MovedBy
<1>6. QED
  BY <1>3, <1>4, <1>5

\* What waking receivers, or senders, does to the lists.
WokenIn(woken) ==
    /\ woken \subseteq Waiting
    /\ IsFiniteSet(woken)
    /\ Moved(woken)
    /\ Waiting' = Waiting \ woken
    /\ toSend' \in Seq(Senders) /\ toReceive' \in Seq(Receivers)
    /\ Distinct(toSend') /\ Distinct(toReceive')

LEMMA ReceiversWoken ==
    ASSUME Lists, NEW n \in Nat, WakeReceivers(n)
    PROVE  \E woken \in SUBSET Members(toReceive) :
              /\ WokenIn(woken) /\ toSend' = toSend
              /\ toReceive' # <<>> => Cardinality(woken) = n /\ toReceive # <<>>
<1> DEFINE k == Lesser(n, Len(toReceive))
           woken == Members(First(k, toReceive))
<1>1. /\ toReceive \in Seq(Receivers) /\ toSend \in Seq(Senders)
      /\ Distinct(toReceive) /\ Distinct(toSend) /\ ListTyped
  BY DEF Lists, ListTyped
<1>2. /\ MadeReady(First(k, toReceive))
      /\ toReceive' = Rest(k, toReceive) /\ toSend' = toSend
  BY DEF WakeReceivers
<1>3. Receivers \in SUBSET Tasks
  BY DEF Tasks
<1> HIDE DEF k
<1>4. /\ Rest(k, toReceive) \in Seq(Receivers) /\ Distinct(Rest(k, toReceive))
      /\ woken \subseteq Members(toReceive)
      /\ Members(Rest(k, toReceive)) = Members(toReceive) \ woken
      /\ IsFiniteSet(woken)
      /\ Rest(k, toReceive) # <<>> => Cardinality(woken) = n
      /\ Moved(woken)
  BY <1>1, <1>2, <1>3, WokenFrom DEF k
<1> HIDE DEF woken
<1>5. Members(toSend) \cap Members(toReceive) = {}
  BY <1>1, ListMembers, TasksAssumption
<1>6. Waiting' = Waiting \ woken
  <2>1. Waiting' = Members(toSend) \cup Members(Rest(k, toReceive))
    BY <1>2 DEF Waiting, Members
  <2>2. QED
    BY <1>4, <1>5, <2>1 DEF Waiting
<1>7. Distinct(toSend') /\ Distinct(toReceive')
  BY <1>1, <1>2, <1>4
<1>8. toReceive' # <<>> => toReceive # <<>>
  <2>1. Rest(k, toReceive) # <<>> => Members(Rest(k, toReceive)) # {}
    BY <1>4, ListMembers
  <2>2. Members(toReceive) # {} => toReceive # <<>>
    BY <1>1, ListMembers
  <2>3. QED
    BY <1>2, <1>4, <2>1, <2>2
<1>9. QED
  BY <1>1, <1>2, <1>4, <1>6, <1>7, <1>8 DEF WokenIn, Waiting

LEMMA SendersWoken ==
    ASSUME Lists, NEW n \in Nat, WakeSenders(n)
    PROVE  \E woken \in SUBSET Members(toSend) :
              /\ WokenIn(woken) /\ toReceive' = toReceive
              /\ toSend' # <<>> => Cardinality(woken) = n /\ toSend # <<>>
<1> DEFINE k == Lesser(n, Len(toSend))
           woken == Members(First(k, toSend))
<1>1. /\ toReceive \in Seq(Receivers) /\ toSend \in Seq(Senders)
      /\ Distinct(toReceive) /\ Distinct(toSend) /\ ListTyped
  BY DEF Lists, ListTyped
<1>2. /\ MadeReady(First(k, toSend))
      /\ toSend' = Rest(k, toSend) /\ toReceive' = toReceive
  BY DEF WakeSenders
<1>3. Senders \in SUBSET Tasks
  BY DEF Tasks
<1> HIDE DEF k
<1>4. /\ Rest(k, toSend) \in Seq(Senders) /\ Distinct(Rest(k, toSend))
      /\ woken \subseteq Members(toSend)
      /\ Members(Rest(k, toSend)) = Members(toSend) \ woken
      /\ IsFiniteSet(woken)
      /\ Rest(k, toSend) # <<>> => Cardinality(woken) = n
      /\ Moved(woken)
  BY <1>1, <1>2, <1>3, WokenFrom DEF k
<1> HIDE DEF woken
<1>5. Members(toSend) \cap Members(toReceive) = {}
  BY <1>1, ListMembers, TasksAssumption
<1>6. Waiting' = Waiting \ woken
  <2>1. Waiting' = Members(Rest(k, toSend)) \cup Members(toReceive)
    BY <1>2 DEF Waiting, Members
  <2>2. QED
    BY <1>4, <1>5, <2>1 DEF Waiting
<1>7. Distinct(toSend') /\ Distinct(toReceive')
  BY <1>1, <1>2, <1>4
<1>8. toSend' # <<>> => toSend # <<>>
  <2>1. Rest(k, toSend) # <<>> => Members(Rest(k, toSend)) # {}
    BY <1>4, ListMembers
  <2>2. Members(toSend) # {} => toSend # <<>>
    BY <1>1, ListMembers
  <2>3. QED
    BY <1>2, <1>4, <2>1, <2>2
<1>9. QED
  BY <1>1, <1>2, <1>4, <1>6, <1>7, <1>8 DEF WokenIn, Waiting

\* The lists after a wake-up: those that were ready stay so, the woken are.
LEMMA WokenLists ==
    ASSUME Lists, NEW woken, WokenIn(woken), suspender' = suspender
    PROVE  /\ Lists'
           /\ \A t \in Tasks : list'[t] # "ready" => list[t] # "ready"
           /\ \A t \in Tasks : Ready(t) => Ready(t)'
           /\ woken \subseteq Tasks
           /\ \A t \in woken : ~Ready(t) /\ Ready(t)' /\ list[t] # "ready"
<1>1. /\ list \in [Tasks -> {"ready", "delayed", "overflow", "suspended"}]
      /\ pendingReady \in Seq(Tasks) /\ toSend \in Seq(Senders) /\ toReceive \in Seq(Receivers)
      /\ Waiting \cap PendingTasks = {}
      /\ \A t \in Tasks : list[t] # "ready" <=> t \in Waiting \cup PendingTasks
      /\ suspender = Nobody => pendingReady = <<>>
  BY DEF Lists, ListTyped
<1>2. /\ woken \subseteq Waiting /\ Waiting' = Waiting \ woken
      /\ toSend' \in Seq(Senders) /\ toReceive' \in Seq(Receivers)
      /\ Distinct(toSend') /\ Distinct(toReceive')
      /\ Moved(woken)
  BY DEF WokenIn
<1>3. woken \subseteq Tasks
  <2>1. Waiting \subseteq Tasks
    BY <1>1, ListMembers DEF Waiting, Tasks
  <2>2. QED
    BY <2>1, <1>2
<1>4. CASE suspender = Nobody
  <2>1. /\ list' = [t \in Tasks |-> IF t \in woken THEN "ready" ELSE list[t]]
        /\ pendingReady' = <<>> /\ pendingReady = <<>>
    BY <1>1, <1>2, <1>4 DEF Moved
  <2>2. PendingTasks = {} /\ PendingTasks' = {}
    BY <2>1 DEF PendingTasks
  <2>3. list' \in [Tasks -> {"ready", "delayed", "overflow", "suspended"}]
        /\ pendingReady' \in Seq(Tasks)
    BY <1>1, <2>1
  <2>4. \A t \in Tasks : list'[t] # "ready" <=> t \in Waiting' \cup PendingTasks'
    BY <1>1, <1>2, <2>1, <2>2
  <2>5. Lists'
    BY <1>2, <2>1, <2>2, <2>3, <2>4 DEF Lists, ListTyped
  <2>6. QED
    BY <1>1, <1>2, <1>3, <2>1, <2>2, <2>5 DEF Ready
<1>5. CASE suspender # Nobody
  <2>1. /\ list' = list /\ pendingReady' \in Seq(Tasks)
        /\ PendingTasks' = PendingTasks \cup woken
    BY <1>2, <1>5 DEF Moved
  <2>2. \A t \in Tasks : list'[t] # "ready" <=> t \in Waiting' \cup PendingTasks'
    BY <1>1, <1>2, <2>1
  <2>3. Waiting' \cap PendingTasks' = {}
    BY <1>1, <1>2, <2>1
  <2>4. Lists'
    BY <1>1, <1>2, <1>5, <2>1, <2>2, <2>3 DEF Lists, ListTyped
  <2>5. QED
    BY <1>1, <1>2, <1>3, <2>1, <2>4 DEF Ready
<1>6. QED
  BY <1>4, <1>5

\* The pending ready list is emptied, and those that are gone have left the
\* event lists.
LEMMA MadeReadyLists ==
    ASSUME Lists, NEW gone, gone \cap PendingTasks = {}, gone \subseteq Waiting,
           list' \in [Tasks -> {"ready", "delayed", "overflow", "suspended"}],
           \A t \in Tasks : list'[t] = "ready" <=>
               list[t] = "ready" \/ t \in PendingTasks \/ t \in gone,
           pendingReady' = <<>>,
           Waiting' = Waiting \ gone,
           toSend' \in Seq(Senders), toReceive' \in Seq(Receivers),
           Distinct(toSend'), Distinct(toReceive')
    PROVE  /\ Lists'
           /\ \A t \in Tasks : list'[t] # "ready" => list[t] # "ready"
           /\ \A t \in Tasks : Ready(t) => Ready(t)'
<1>1. /\ Waiting \cap PendingTasks = {}
      /\ \A t \in Tasks : list[t] # "ready" <=> t \in Waiting \cup PendingTasks
  BY DEF Lists
<1>2. PendingTasks' = {} /\ pendingReady' \in Seq(Tasks)
  BY DEF PendingTasks
<1>3. \A t \in Tasks : list'[t] # "ready" <=> t \in Waiting' \cup PendingTasks'
  BY <1>1, <1>2
<1>4. Lists'
  BY <1>2, <1>3 DEF Lists, ListTyped
<1>5. QED
  BY <1>1, <1>3, <1>4 DEF Ready

\* A tick with the tasks in readied made ready first.
LEMMA TickLists ==
    ASSUME Lists, IncrementTick(PendingTasks), pendingReady' = <<>>
    PROVE  /\ Lists'
           /\ \A t \in Tasks : list'[t] # "ready" => list[t] # "ready"
           /\ \A t \in Tasks : Ready(t) => Ready(t)'
           /\ toReceive' # <<>> => toReceive # <<>>
           /\ toSend' # <<>> => toSend # <<>>
<1> DEFINE lists == [t \in Tasks |-> IF t \in PendingTasks THEN "ready"
                                     ELSE Switched(list[t])]
           cached == IF NextTick = 0 \/ PendingTasks # {} THEN Earliest(lists)
                     ELSE nextUnblock
           due == {t \in Delayed(lists) : cached <= NextTick /\ wake[t] <= NextTick}
<1>1. /\ list' = [t \in Tasks |-> IF t \in due THEN "ready" ELSE lists[t]]
      /\ toSend' = Without(toSend, due)
      /\ toReceive' = Without(toReceive, due)
  BY DEF IncrementTick
<1>2. /\ list \in [Tasks -> {"ready", "delayed", "overflow", "suspended"}]
      /\ toSend \in Seq(Senders) /\ toReceive \in Seq(Receivers)
      /\ Distinct(toSend) /\ Distinct(toReceive)
      /\ \A t \in Tasks : list[t] # "ready" <=> t \in Waiting \cup PendingTasks
  BY DEF Lists, ListTyped
<1>3. ASSUME NEW t \in Tasks
      PROVE  /\ lists[t] \in {"ready", "delayed", "overflow", "suspended"}
             /\ lists[t] = "ready" <=> list[t] = "ready" \/ t \in PendingTasks
  BY <1>2 DEF Switched
<1>4. \A t \in due : t \in Tasks /\ lists[t] = "delayed"
  BY DEF Delayed
<1> HIDE DEF lists, due
<1>5. due \cap PendingTasks = {} /\ due \subseteq Waiting
  BY <1>2, <1>3, <1>4
<1>6. /\ toSend' \in Seq(Senders) /\ Distinct(toSend')
      /\ Members(toSend') = Members(toSend) \ due
      /\ toReceive' \in Seq(Receivers) /\ Distinct(toReceive')
      /\ Members(toReceive') = Members(toReceive) \ due
  BY <1>1, <1>2, OthersStay
<1>7. Waiting' = Waiting \ due
  <2>1. Waiting' = Members(toSend') \cup Members(toReceive')
    BY DEF Waiting, Members
  <2>2. QED
    BY <1>6, <2>1 DEF Waiting
<1>8. /\ list' \in [Tasks -> {"ready", "delayed", "overflow", "suspended"}]
      /\ \A t \in Tasks : list'[t] = "ready" <=>
            list[t] = "ready" \/ t \in PendingTasks \/ t \in due
  BY <1>1, <1>3
<1>9. /\ Lists'
      /\ \A t \in Tasks : list'[t] # "ready" => list[t] # "ready"
      /\ \A t \in Tasks : Ready(t) => Ready(t)'
  BY <1>5, <1>6, <1>7, <1>8, MadeReadyLists
<1>10. /\ toReceive' # <<>> => toReceive # <<>>
       /\ toSend' # <<>> => toSend # <<>>
  <2>1. /\ toReceive' # <<>> => Members(toReceive') # {}
        /\ toSend' # <<>> => Members(toSend') # {}
    BY <1>6, ListMembers
  <2>2. /\ Members(toReceive) # {} => toReceive # <<>>
        /\ Members(toSend) # {} => toSend # <<>>
    BY <1>2, ListMembers
  <2>3. QED
    BY <1>6, <2>1, <2>2
<1>11. QED
  BY <1>9, <1>10

\* The scheduler resumes without a tick to make up for.
LEMMA ResumeLists ==
    ASSUME Lists, pendingReady' = <<>>,
           list' = [u \in Tasks |-> IF u \in PendingTasks THEN "ready" ELSE list[u]],
           UNCHANGED <<toSend, toReceive>>
    PROVE  /\ Lists'
           /\ \A t \in Tasks : list'[t] # "ready" => list[t] # "ready"
           /\ \A t \in Tasks : Ready(t) => Ready(t)'
<1>1. /\ list \in [Tasks -> {"ready", "delayed", "overflow", "suspended"}]
      /\ toSend \in Seq(Senders) /\ toReceive \in Seq(Receivers)
      /\ Distinct(toSend) /\ Distinct(toReceive)
  BY DEF Lists, ListTyped
<1>2. Waiting' = Waiting \ {}
  BY DEF Waiting, Members
<1>3. /\ list' \in [Tasks -> {"ready", "delayed", "overflow", "suspended"}]
      /\ \A t \in Tasks : list'[t] = "ready" <=>
            list[t] = "ready" \/ t \in PendingTasks \/ t \in {}
  BY <1>1
<1>4. QED
  BY <1>1, <1>2, <1>3, MadeReadyLists

\* The task that runs is ready until it has a place in an event list.
LEMMA RunsReady ==
    ASSUME ListInv, HolderInv, NEW t \in Tasks, Running(t),
           pc[t] \notin {"unlockTx", "unlockRx", "resume"}
    PROVE  list[t] = "ready"
<1>1. CASE suspender = Nobody
  BY <1>1 DEF Running
<1>2. CASE suspender # Nobody
  <2>1. pc[t] \in Held
    BY <1>2 DEF Running, HolderInv
  <2>2. ~Again(t)
    BY <2>1 DEF Again, Held
  <2>3. QED
    BY <2>2 DEF ListInv, Places
<1>3. QED
  BY <1>1, <1>2

\* Places(t) and Lists when task t gets its place.
LEMMA PlaceLists ==
    ASSUME TimeTyped, Lists, NEW t \in Tasks, list[t] = "ready", Place(t),
           suspender # Nobody
    PROVE  /\ Lists'
           /\ \A u \in Tasks \ {t} : list'[u] = list[u]
           /\ \A u \in Tasks \ {t} : Ready(u) => Ready(u)'
           /\ ~Ready(t)'
<1>1. /\ list \in [Tasks -> {"ready", "delayed", "overflow", "suspended"}]
      /\ toSend \in Seq(Senders) /\ toReceive \in Seq(Receivers)
      /\ pendingReady \in Seq(Tasks)
      /\ Distinct(toSend) /\ Distinct(toReceive)
      /\ Waiting \cap PendingTasks = {}
      /\ \A u \in Tasks : list[u] # "ready" <=> u \in Waiting \cup PendingTasks
  BY DEF Lists, ListTyped
<1>2. /\ toSend' = IF t \in Senders THEN Append(toSend, t) ELSE toSend
      /\ toReceive' = IF t \in Receivers THEN Append(toReceive, t) ELSE toReceive
      /\ pendingReady' = pendingReady /\ suspender' = suspender
  BY DEF Place
<1>3. \E l \in {"delayed", "overflow", "suspended"} : list' = [list EXCEPT ![t] = l]
  BY DEF Place, DelayedList
<1>4. t \notin Members(toSend) /\ t \notin Members(toReceive) /\ t \notin PendingTasks
  BY <1>1 DEF Waiting
<1>5. /\ toSend' \in Seq(Senders) /\ Distinct(toSend')
      /\ Members(toSend') = IF t \in Senders THEN Members(toSend) \cup {t} ELSE Members(toSend)
  <2>1. CASE t \in Senders
    <3>1. toSend' = Append(toSend, t)
      BY <1>2, <2>1
    <3>2. QED
      BY <1>1, <1>4, <2>1, <3>1, LastJoins
  <2>2. CASE t \notin Senders
    <3>1. toSend' = toSend
      BY <1>2, <2>2
    <3>2. QED
      BY <1>1, <2>2, <3>1
  <2>3. QED
    BY <2>1, <2>2
<1>6. /\ toReceive' \in Seq(Receivers) /\ Distinct(toReceive')
      /\ Members(toReceive') = IF t \in Receivers THEN Members(toReceive) \cup {t}
                               ELSE Members(toReceive)
  <2>1. CASE t \in Receivers
    <3>1. toReceive' = Append(toReceive, t)
      BY <1>2, <2>1
    <3>2. QED
      BY <1>1, <1>4, <2>1, <3>1, LastJoins
  <2>2. CASE t \notin Receivers
    <3>1. toReceive' = toReceive
      BY <1>2, <2>2
    <3>2. QED
      BY <1>1, <2>2, <3>1
  <2>3. QED
    BY <2>1, <2>2
<1>7. Waiting' = Waiting \cup {t}
  <2>1. Waiting' = Members(toSend') \cup Members(toReceive')
    BY DEF Waiting, Members
  <2>2. t \in Senders \/ t \in Receivers
    BY DEF Tasks
  <2>3. QED
    BY <1>5, <1>6, <2>1, <2>2 DEF Waiting
<1>8. PendingTasks' = PendingTasks
  BY <1>2 DEF PendingTasks
<1>9. /\ list' \in [Tasks -> {"ready", "delayed", "overflow", "suspended"}]
      /\ list'[t] # "ready" /\ \A u \in Tasks \ {t} : list'[u] = list[u]
  BY <1>1, <1>3
<1>10. \A u \in Tasks : list'[u] # "ready" <=> u \in Waiting' \cup PendingTasks'
  BY <1>1, <1>7, <1>8, <1>9
<1>11. Waiting' \cap PendingTasks' = {}
  BY <1>1, <1>4, <1>7, <1>8
<1>12. Lists'
  BY <1>1, <1>2, <1>5, <1>6, <1>9, <1>10, <1>11 DEF Lists, ListTyped
<1>13. QED
  BY <1>4, <1>8, <1>9, <1>12 DEF Ready

\* A task that has been taken from its event list is ready, at once or soon,
\* and only the task that gets a place stops being ready.
NoneLeaves(u) ==
    /\ list'[u] # "ready" => list[u] # "ready"
    /\ Ready(u) => Ready(u)'

LEMMA QuietLists ==
    ASSUME Lists, UNCHANGED listVars, suspender' = suspender \/ suspender' # Nobody
    PROVE  Lists' /\ \A u \in Tasks : NoneLeaves(u)
<1>1. /\ Waiting' = Waiting /\ PendingTasks' = PendingTasks
      /\ UNCHANGED <<list, toSend, toReceive, pendingReady>>
  BY DEF Waiting, PendingTasks, Members, listVars
<1>2. QED
  BY <1>1 DEF Lists, ListTyped, NoneLeaves, Ready

LEMMA ListsOf ==
    ASSUME TimeTyped, HolderInv, LocksTyped, ListInv, NEW t \in Tasks, Call(t) \/ Step(t)
    PROVE  /\ Lists'
           /\ \A u \in Tasks : u # t \/ ~Place(t) => NoneLeaves(u)
           /\ Place(t) => ~Ready(t)'
<1>1. Lists /\ Places
  BY DEF ListInv
<1>2. CASE Call(t) \/ GiveUp(t) \/ SetTimeOut(t) \/ LockQueue(t)
           \/ CheckForTimeOut(t) \/ Test(t) \/ Recheck(t)
  <2>1. UNCHANGED listVars /\ suspender' = suspender
    BY <1>2 DEF Call, GiveUp, SetTimeOut, LockQueue, CheckForTimeOut, Test, Recheck
  <2>2. ~Place(t)
    BY <1>2 DEF Call, GiveUp, SetTimeOut, LockQueue, CheckForTimeOut, Test,
       Recheck, Place, Goto
  <2>3. QED
    BY <1>1, <2>1, <2>2, QuietLists
<1>3. CASE SuspendAll(t)
  <2>1. UNCHANGED listVars /\ suspender' # Nobody /\ ~Place(t)
    BY <1>3 DEF SuspendAll, Place, Goto, Nobody
  <2>2. QED
    BY <1>1, <2>1, QuietLists
<1>4. ASSUME NEW n \in Nat, WakeReceivers(n) \/ WakeSenders(n), suspender' = suspender,
             ~Place(t)
      PROVE  /\ Lists'
             /\ \A u \in Tasks : u # t \/ ~Place(t) => NoneLeaves(u)
             /\ Place(t) => ~Ready(t)'
  <2>1. \E woken : WokenIn(woken)
    BY <1>1, <1>4, ReceiversWoken, SendersWoken
  <2>2. QED
    BY <1>1, <1>4, <2>1, WokenLists DEF NoneLeaves
<1>5. CASE Transfer(t)
  <2>1. (WakeReceivers(1) \/ WakeSenders(1)) /\ suspender' = suspender
    BY <1>5 DEF Transfer
  <2>2. ~Place(t)
    BY <1>5 DEF Transfer, Place, Goto
  <2>3. QED
    BY <1>4, <2>1, <2>2
<1>6. CASE UnlockTx(t)
  <2>1. WakeReceivers(WakeAll(txLock)) /\ suspender' = suspender
    BY <1>6 DEF UnlockTx
  <2>2. ~Place(t) /\ WakeAll(txLock) \in Nat
    <3>1. ~Place(t)
      BY <1>6 DEF UnlockTx, Place, Goto
    <3>2. QED
      BY <3>1, WakeAllTyped
  <2>3. QED
    BY <1>4, <2>1, <2>2
<1>7. CASE UnlockRx(t)
  <2>1. WakeSenders(WakeAll(rxLock)) /\ suspender' = suspender
    BY <1>7 DEF UnlockRx
  <2>2. ~Place(t) /\ WakeAll(rxLock) \in Nat
    BY <1>7, WakeAllTyped DEF UnlockRx, Place, Goto
  <2>3. QED
    BY <1>4, <2>1, <2>2
<1>8. CASE Place(t)
  <2>1. Running(t) /\ pc[t] = "place"
    BY <1>8 DEF Place, Goto
  <2>2. list[t] = "ready"
    BY <2>1, RunsReady
  <2>3. suspender # Nobody
    BY <2>1 DEF HolderInv, Held, Nobody
  <2>4. QED
    BY <1>1, <1>8, <2>2, <2>3, PlaceLists DEF NoneLeaves
<1>9. CASE ResumeAll(t)
  <2>1. pendingReady' = <<>> /\ ~Place(t)
    BY <1>9 DEF ResumeAll, Place, Goto
  <2>2. CASE IncrementTick(PendingTasks)
    BY <1>1, <2>1, <2>2, TickLists DEF NoneLeaves
  <2>3. CASE /\ list' = [u \in Tasks |-> IF u \in PendingTasks THEN "ready" ELSE list[u]]
             /\ UNCHANGED <<toSend, toReceive>>
    BY <1>1, <2>1, <2>3, ResumeLists DEF NoneLeaves
  <2>4. QED
    BY <1>9, <2>2, <2>3 DEF ResumeAll
<1>10. QED
  BY <1>2, <1>3, <1>5, <1>6, <1>7, <1>8, <1>9 DEF Step

LEMMA LocksStart == Init => LocksTyped
BY DEF Init, LocksTyped, Unlocked, LockedUnmodified

LEMMA LocksStep == LocksTyped /\ LockInv' /\ [Next]_vars => LocksTyped'
<1> SUFFICES ASSUME LocksTyped, LockInv', [Next]_vars PROVE LocksTyped'
  OBVIOUS
<1>1. rxLock' = rxLock \/ rxLock' = Locked(rxLock) \/ rxLock' = Unlocked
  <2>1. ASSUME NEW t \in Tasks, Call(t) \/ Step(t)
        PROVE  rxLock' = rxLock \/ rxLock' = Locked(rxLock) \/ rxLock' = Unlocked
    BY <2>1 DEF Call, Step, Transfer, GiveUp, SetTimeOut, SuspendAll, LockQueue,
       CheckForTimeOut, Test, Place, UnlockTx, UnlockRx, ResumeAll, Recheck, lockVars
  <2>2. SendFromISR \/ Tick \/ UNCHANGED vars => rxLock' = rxLock
    BY DEF SendFromISR, Tick, vars, lockVars
  <2>3. QED
    BY <2>1, <2>2 DEF Next
<1>2. rxLock' \in Unlocked .. LockedUnmodified
  BY <1>1 DEF LocksTyped, Locked, Unlocked, LockedUnmodified
<1>3. QED
  BY <1>2 DEF LockInv, LocksTyped

LEMMA ListStart == Init => ListInv
<1> SUFFICES ASSUME Init PROVE ListInv
  OBVIOUS
<1>1. /\ toSend = <<>> /\ toReceive = <<>> /\ pendingReady = <<>>
      /\ list = [t \in Tasks |-> "ready"] /\ \A t \in Tasks : pc[t] = "out"
  BY DEF Init
<1>2. Waiting = {} /\ PendingTasks = {}
  BY <1>1 DEF Waiting, Members, PendingTasks
<1>3. Lists
  BY <1>1, <1>2 DEF Lists, ListTyped, Distinct
<1>4. QED
  BY <1>1, <1>3 DEF ListInv, Places

\* The task that takes a step is where its lists say it is.
LEMMA OwnPlace ==
    ASSUME TimeTyped, HolderInv, LocksTyped, ListInv, NEW t \in Tasks,
           Call(t) \/ Step(t)
    PROVE  /\ list'[t] # "ready" => Again(t)'
           /\ pc'[t] = "place" => after'[t] = "try"
<1>1. pc \in [Tasks -> PC] /\ after \in [Tasks -> {"try", "recheck", "out"}]
  BY DEF TimeTyped
<1>2. /\ ~Place(t) => (list'[t] # "ready" => list[t] # "ready")
      /\ list[t] # "ready" => Again(t)
      /\ pc[t] = "place" => after[t] = "try"
  BY ListsOf DEF NoneLeaves, ListInv, Places
<1>3. CASE Call(t) \/ Transfer(t) \/ GiveUp(t) \/ SetTimeOut(t) \/ SuspendAll(t)
           \/ LockQueue(t) \/ CheckForTimeOut(t) \/ Recheck(t)
  <2>1. /\ Running(t) /\ ~Place(t) /\ pc'[t] # "place"
        /\ pc[t] \notin {"unlockTx", "unlockRx", "resume"}
    <3>1. CASE Call(t) \/ SetTimeOut(t) \/ SuspendAll(t) \/ LockQueue(t)
               \/ CheckForTimeOut(t)
      BY <1>1, <3>1 DEF Call, SetTimeOut, SuspendAll, LockQueue, CheckForTimeOut,
         Goto, UnlockFirst, Place
    <3>2. CASE Transfer(t) \/ GiveUp(t) \/ Recheck(t)
      BY <1>1, <3>2 DEF Transfer, GiveUp, Recheck, Return, Place, Goto
    <3>3. QED
      BY <1>3, <3>1, <3>2
  <2>2. list[t] = "ready"
    BY <2>1, RunsReady
  <2>3. QED
    BY <1>2, <2>1, <2>2
<1>4. CASE Test(t)
  <2>1. /\ Running(t) /\ ~Place(t) /\ pc[t] = "test" /\ after'[t] = "try"
    BY <1>1, <1>4 DEF Test, Place, Goto
  <2>2. list[t] = "ready"
    BY <2>1, RunsReady
  <2>3. QED
    BY <1>2, <2>1, <2>2
<1>5. CASE Place(t)
  BY <1>1, <1>2, <1>5 DEF Place, Goto, Again
<1>6. CASE UnlockTx(t) \/ UnlockRx(t)
  <2>1. /\ pc[t] \in {"unlockTx", "unlockRx"} /\ pc'[t] \in {"unlockRx", "resume"}
        /\ after' = after /\ ~Place(t)
    BY <1>1, <1>6 DEF UnlockTx, UnlockRx, Goto, Place
  <2>2. QED
    BY <1>2, <2>1 DEF Again
<1>7. CASE ResumeAll(t)
  <2>1. /\ pc[t] = "resume" /\ ~Place(t)
        /\ pc'[t] = "out" \/ (pc'[t] = after[t] /\ after'[t] = after[t])
        /\ after[t] # "out" => pc'[t] = after[t]
    BY <1>1, <1>7 DEF ResumeAll, Return, Place, Goto
  <2>2. Again(t) => after[t] = "try"
    BY <2>1 DEF Again
  <2>3. pc'[t] # "place"
    BY <1>1, <2>1
  <2>4. QED
    BY <1>2, <2>1, <2>2, <2>3 DEF Again
<1>8. QED
  BY <1>3, <1>4, <1>5, <1>6, <1>7 DEF Step

\* The interrupts wake tasks.
LEMMA InterruptLists ==
    ASSUME Lists, HolderInv, SendFromISR \/ Tick
    PROVE  Lists' /\ \A u \in Tasks : NoneLeaves(u)
<1>1. CASE SendFromISR
  <2>1. suspender' = suspender
    BY <1>1 DEF SendFromISR
  <2>2. CASE WakeReceivers(1)
    <3>1. \E woken : WokenIn(woken)
      BY <2>2, ReceiversWoken
    <3>2. QED
      BY <2>1, <3>1, WokenLists DEF NoneLeaves
  <2>3. CASE UNCHANGED listVars
    BY <2>1, <2>3, QuietLists
  <2>4. QED
    BY <1>1, <2>2, <2>3 DEF SendFromISR
<1>2. CASE Tick
  <2>1. suspender' = suspender
    BY <1>2 DEF Tick
  <2>2. CASE suspender = Nobody
    <3>1. IncrementTick({}) /\ pendingReady' = pendingReady
      BY <1>2, <2>2 DEF Tick
    <3>2. pendingReady = <<>>
      BY <2>2 DEF Lists
    <3>3. PendingTasks = {}
      BY <3>2 DEF PendingTasks
    <3>4. QED
      BY <3>1, <3>2, <3>3, TickLists DEF NoneLeaves
  <2>3. CASE suspender # Nobody
    <3>1. UNCHANGED listVars
      BY <1>2, <2>3 DEF Tick
    <3>2. QED
      BY <2>1, <3>1, QuietLists
  <2>4. QED
    BY <2>2, <2>3
<1>3. QED
  BY <1>1, <1>2

LEMMA ListStep ==
    TimeTyped /\ HolderInv /\ LocksTyped /\ ListInv /\ [Next]_vars => ListInv'
<1> SUFFICES ASSUME TimeTyped, HolderInv, LocksTyped, ListInv, [Next]_vars
             PROVE  ListInv'
  OBVIOUS
<1>1. /\ Lists
      /\ \A u \in Tasks : list[u] # "ready" => Again(u)
      /\ \A u \in Tasks : pc[u] = "place" => after[u] = "try"
  BY DEF ListInv, Places
<1>2. ASSUME NEW t \in Tasks, Call(t) \/ Step(t) PROVE ListInv'
  <2>1. Lists' /\ \A u \in Tasks \ {t} : NoneLeaves(u)
    BY <1>2, ListsOf
  <2>2. \A u \in Tasks \ {t} : Same(u)
    BY <1>2, OwnCall
  <2>3. \A u \in Tasks \ {t} :
           /\ list'[u] # "ready" => Again(u)'
           /\ pc'[u] = "place" => after'[u] = "try"
    BY <1>1, <2>1, <2>2 DEF NoneLeaves, Same, Again
  <2>4. /\ list'[t] # "ready" => Again(t)'
        /\ pc'[t] = "place" => after'[t] = "try"
    BY <1>2, OwnPlace
  <2>5. QED
    BY <2>1, <2>3, <2>4 DEF ListInv, Places
<1>3. CASE SendFromISR \/ Tick
  <2>1. Lists' /\ \A u \in Tasks : NoneLeaves(u)
    BY <1>1, <1>3, InterruptLists
  <2>2. UNCHANGED <<pc, after>>
    BY <1>3 DEF SendFromISR, Tick, callVars
  <2>3. QED
    BY <1>1, <2>1, <2>2 DEF ListInv, Places, NoneLeaves, Again
<1>4. CASE UNCHANGED vars
  <2>1. UNCHANGED <<pc, after, listVars, suspender>>
    BY <1>4 DEF vars, callVars
  <2>2. Lists' /\ \A u \in Tasks : NoneLeaves(u)
    BY <1>1, <2>1, QuietLists
  <2>3. QED
    BY <1>1, <2>1, <2>2 DEF ListInv, Places, NoneLeaves, Again
<1>5. QED
  BY <1>2, <1>3, <1>4 DEF Next

\* A task waits in one event list at most and only one that is not ready does.
LEMMA ListsAreOne == ListInv => OneList
<1> SUFFICES ASSUME ListInv, NEW t \in Tasks
             PROVE  list[t] # "ready" <=>
                       \/ \E i \in DOMAIN toSend \cup DOMAIN toReceive :
                             \/ i \in DOMAIN toSend /\ toSend[i] = t
                             \/ i \in DOMAIN toReceive /\ toReceive[i] = t
                       \/ t \in PendingTasks
  BY DEF OneList
<1>1. list[t] # "ready" <=> t \in Waiting \cup PendingTasks
  BY DEF ListInv, Lists
<1>2. t \in Waiting <=>
         \E i \in DOMAIN toSend \cup DOMAIN toReceive :
            \/ i \in DOMAIN toSend /\ toSend[i] = t
            \/ i \in DOMAIN toReceive /\ toReceive[i] = t
  BY DEF Waiting, Members
<1>3. QED
  BY <1>1, <1>2

-----------------------------------------------------------------------------
(* Whoever waits is behind enough that are awake *)

Up(t) == Ready(t) /\ Again(t)
Awake(group) == {t \in group : Up(t)}

\* While items, or room, are left to somebody who waits, as many tasks are on
\* their way to take them, or will be woken when the queue is unlocked.
ItemsTold ==
    toReceive # <<>> =>
        messages <= Cardinality(Awake(Receivers)) + WakeAll(txLock)
RoomTold ==
    toSend # <<>> => Length - messages <= Cardinality(Awake(Senders))

\* What the test before waiting has found is still so, but for the items that
\* an interrupt has counted since.
TestHolds ==
    \A t \in Tasks : pc[t] = "place" =>
        IF t \in Senders THEN messages = Length ELSE messages <= WakeAll(txLock)

LockedHere == \A t \in Tasks : pc[t] \in Locking => txLock # Unlocked

WakeInv == ItemsTold /\ RoomTold /\ TestHolds /\ LockedHere

LEMMA AwakeTyped ==
    ASSUME NEW G \in SUBSET Tasks
    PROVE  /\ IsFiniteSet(Awake(G)) /\ Cardinality(Awake(G)) \in Nat
           /\ IsFiniteSet(Awake(G)') /\ Cardinality(Awake(G)') \in Nat
<1>1. Awake(G) \in SUBSET Tasks /\ Awake(G)' \in SUBSET Tasks
  BY DEF Awake
<1>2. IsFiniteSet(Awake(G)) /\ IsFiniteSet(Awake(G)')
  BY <1>1, FS_Subset, TasksAssumption
<1>3. QED
  BY <1>2, FS_CardinalityType

\* Tasks that come, and one that goes.
LEMMA SomeWake ==
    ASSUME NEW G \in SUBSET Tasks, NEW woken, IsFiniteSet(woken),
           woken \subseteq Awake(G)', woken \cap Awake(G) = {},
           \A u \in Awake(G) : u \in Awake(G)'
    PROVE  Cardinality(Awake(G)) + Cardinality(woken) <= Cardinality(Awake(G)')
<1> DEFINE before == Awake(G)
           now == Awake(G)'
<1>1. IsFiniteSet(before) /\ IsFiniteSet(now)
  BY AwakeTyped
<1>2. before \cup woken \in SUBSET now /\ before \cap woken = {}
  OBVIOUS
<1> HIDE DEF before, now
<1>3. /\ Cardinality(before \cup woken) =
            Cardinality(before) + Cardinality(woken) - Cardinality(before \cap woken)
      /\ Cardinality(before \cup woken) <= Cardinality(now)
  BY <1>1, <1>2, FS_Union, FS_Subset
<1>4. Cardinality(before \cap woken) = 0
  BY <1>2, FS_EmptySet
<1>5. Cardinality(before) \in Nat /\ Cardinality(woken) \in Nat
  BY <1>1, FS_CardinalityType
<1>6. QED
  BY <1>3, <1>4, <1>5 DEF before, now

LEMMA OneGoes ==
    ASSUME NEW G \in SUBSET Tasks, NEW t, \A u \in Awake(G) \ {t} : u \in Awake(G)'
    PROVE  Cardinality(Awake(G)) - 1 <= Cardinality(Awake(G)')
<1> DEFINE before == Awake(G)
           now == Awake(G)'
<1>1. IsFiniteSet(before) /\ IsFiniteSet(now) /\ before \ {t} \in SUBSET now
  BY AwakeTyped
<1> HIDE DEF before, now
<1>2. Cardinality(before \ {t}) =
         IF t \in before THEN Cardinality(before) - 1 ELSE Cardinality(before)
  BY <1>1, FS_RemoveElement
<1>3. Cardinality(before \ {t}) <= Cardinality(now)
  BY <1>1, FS_Subset
<1>4. Cardinality(before) \in Nat /\ Cardinality(now) \in Nat
  BY <1>1, FS_CardinalityType
<1>5. QED
  BY <1>2, <1>3, <1>4 DEF before, now

LEMMA NoneGoes ==
    ASSUME NEW G \in SUBSET Tasks, \A u \in Awake(G) : u \in Awake(G)'
    PROVE  Cardinality(Awake(G)) <= Cardinality(Awake(G)')
<1>1. IsFiniteSet(Awake(G)') /\ Awake(G) \in SUBSET Awake(G)'
  BY AwakeTyped
<1>2. QED
  BY <1>1, FS_Subset

\* Only a task that takes, gives up or waits is not on its way any more.
LEMMA UpStays ==
    ASSUME TimeTyped, HolderInv, LocksTyped, ListInv, NEW t \in Tasks,
           Call(t) \/ Step(t), NEW u \in Tasks, Up(u),
           u # t \/ ~(Transfer(t) \/ GiveUp(t) \/ SetTimeOut(t))
    PROVE  Up(u)'
<1>1. pc \in [Tasks -> PC] /\ after \in [Tasks -> {"try", "recheck", "out"}]
  BY DEF TimeTyped
<1>2. CASE u # t
  <2>1. Ready(u)'
    BY <1>2, ListsOf DEF NoneLeaves, Up
  <2>2. Same(u)
    BY <1>2, OwnCall
  <2>3. QED
    BY <2>1, <2>2 DEF Up, Again, Same
<1>3. CASE u = t
  <2>1. CASE Call(t) \/ SuspendAll(t) \/ LockQueue(t) \/ CheckForTimeOut(t)
             \/ Test(t) \/ Place(t) \/ Recheck(t)
    <3>1. pc[t] \in {"out", "suspend", "lock", "check", "test", "place", "recheck"}
      BY <2>1 DEF Call, SuspendAll, LockQueue, CheckForTimeOut, Test, Place,
         Recheck, Goto
    <3>2. QED
      BY <1>3, <3>1 DEF Up, Again
  <2>2. CASE UnlockTx(t) \/ UnlockRx(t)
    <3>1. /\ pc[t] \in {"unlockTx", "unlockRx"} /\ pc'[t] \in {"unlockRx", "resume"}
          /\ after' = after /\ ~Place(t)
      BY <1>1, <2>2 DEF UnlockTx, UnlockRx, Goto, Place
    <3>2. Ready(t)'
      BY <1>3, <3>1, ListsOf DEF NoneLeaves, Up
    <3>3. QED
      BY <1>3, <3>1, <3>2 DEF Up, Again
  <2>3. CASE ResumeAll(t)
    <3>1. pc[t] = "resume" /\ ~Place(t) /\ (after[t] # "out" => pc'[t] = after[t])
      BY <1>1, <2>3 DEF ResumeAll, Return, Place, Goto
    <3>2. pc'[t] = "try"
      BY <1>3, <3>1 DEF Up, Again
    <3>3. Ready(t)'
      BY <1>3, <3>1, ListsOf DEF NoneLeaves, Up
    <3>4. QED
      BY <1>3, <3>2, <3>3 DEF Up, Again
  <2>4. QED
    BY <1>3, <2>1, <2>2, <2>3 DEF Step
<1>4. QED
  BY <1>2, <1>3

\* Nothing moves but the tasks that wake.
LEMMA StillTold ==
    ASSUME WakeInv, LocksTyped, messages \in 0 .. Length,
           messages' = messages, WakeAll(txLock') = WakeAll(txLock),
           \A u \in Tasks : Up(u) => Up(u)',
           toReceive' # <<>> => toReceive # <<>>,
           toSend' # <<>> => toSend # <<>>
    PROVE  ItemsTold' /\ RoomTold'
<1>1. Receivers \in SUBSET Tasks /\ Senders \in SUBSET Tasks
  BY DEF Tasks
<1>2. /\ \A u \in Awake(Receivers) : u \in Awake(Receivers)'
      /\ \A u \in Awake(Senders) : u \in Awake(Senders)'
  BY <1>1 DEF Awake
<1>3. /\ Cardinality(Awake(Receivers)) <= Cardinality(Awake(Receivers)')
      /\ Cardinality(Awake(Senders)) <= Cardinality(Awake(Senders)')
      /\ Cardinality(Awake(Receivers)) \in Nat /\ Cardinality(Awake(Receivers)') \in Nat
      /\ Cardinality(Awake(Senders)) \in Nat /\ Cardinality(Awake(Senders)') \in Nat
  BY <1>1, <1>2, NoneGoes, AwakeTyped
<1>4. WakeAll(txLock) \in Nat
  BY WakeAllTyped
<1>5. ItemsTold'
  <2>1. ItemsTold' <=> (toReceive' # <<>> =>
           messages' <= Cardinality(Awake(Receivers)') + WakeAll(txLock'))
    BY DEF ItemsTold, WakeAll
  <2>2. toReceive' # <<>> =>
           messages <= Cardinality(Awake(Receivers)) + WakeAll(txLock)
    BY DEF WakeInv, ItemsTold
  <2>3. QED
    BY <1>3, <1>4, <2>1, <2>2
<1>6. RoomTold'
  <2>1. RoomTold' <=> (toSend' # <<>> =>
           Length - messages' <= Cardinality(Awake(Senders)'))
    BY DEF RoomTold
  <2>2. toSend' # <<>> => Length - messages <= Cardinality(Awake(Senders))
    BY DEF WakeInv, RoomTold
  <2>3. QED
    BY <1>3, <2>1, <2>2, LengthAssumption
<1>7. QED
  BY <1>5, <1>6

\* The steps that neither copy nor start to wait.
LEMMA QuietSteps ==
    ASSUME TimeTyped, HolderInv, LocksTyped, ListInv, WakeInv,
           messages \in 0 .. Length, NEW t \in Tasks,
           \/ Call(t) \/ SuspendAll(t) \/ LockQueue(t) \/ CheckForTimeOut(t)
           \/ Test(t) \/ Recheck(t) \/ UnlockRx(t) \/ ResumeAll(t)
    PROVE  ItemsTold' /\ RoomTold'
<1>1. Lists
  BY DEF ListInv
<1>2. messages' = messages /\ WakeAll(txLock') = WakeAll(txLock)
  <2>1. messages' = messages /\ (txLock' = txLock \/ txLock' = Locked(txLock))
    BY DEF Call, SuspendAll, LockQueue, CheckForTimeOut, Test, Recheck, UnlockRx,
       ResumeAll, dataVars, lockVars
  <2>2. QED
    BY <2>1 DEF LocksTyped, Locked, WakeAll, Unlocked, LockedUnmodified
<1>3. \A u \in Tasks : Up(u) => Up(u)'
  <2>1. (Call(t) \/ Step(t)) /\ ~(Transfer(t) \/ GiveUp(t) \/ SetTimeOut(t))
    BY DEF Step, Call, SuspendAll, LockQueue, CheckForTimeOut, Test, Recheck,
       UnlockRx, ResumeAll, Transfer, GiveUp, SetTimeOut, Goto
  <2>2. QED
    BY <2>1, UpStays
<1>4. (toReceive' # <<>> => toReceive # <<>>) /\ (toSend' # <<>> => toSend # <<>>)
  <2>1. CASE Call(t) \/ SuspendAll(t) \/ LockQueue(t) \/ CheckForTimeOut(t)
             \/ Test(t) \/ Recheck(t)
    BY <2>1 DEF Call, SuspendAll, LockQueue, CheckForTimeOut, Test, Recheck, listVars
  <2>2. CASE UnlockRx(t)
    <3>1. WakeSenders(WakeAll(rxLock)) /\ WakeAll(rxLock) \in Nat
      BY <2>2, WakeAllTyped DEF UnlockRx
    <3>2. QED
      BY <1>1, <3>1, SendersWoken
  <2>3. CASE ResumeAll(t)
    <3>1. /\ pendingReady' = <<>>
          /\ IncrementTick(PendingTasks) \/ UNCHANGED <<toSend, toReceive>>
      BY <2>3 DEF ResumeAll
    <3>2. QED
      BY <1>1, <3>1, TickLists
  <2>4. QED
    BY <2>1, <2>2, <2>3
<1>5. QED
  BY <1>2, <1>3, <1>4, StillTold

\* A task that has found nothing to take, or no room: its own side has none left,
\* the other side has not changed.
LEMMA WaitingSteps ==
    ASSUME TimeTyped, HolderInv, LocksTyped, ListInv, WakeInv,
           messages \in 0 .. Length, NEW t \in Tasks,
           GiveUp(t) \/ SetTimeOut(t) \/ Place(t)
    PROVE  ItemsTold' /\ RoomTold'
<1> DEFINE R == Awake(Receivers)
           S == Awake(Senders)
<1>1. /\ Receivers \in SUBSET Tasks /\ Senders \in SUBSET Tasks
      /\ t \in Senders \/ t \in Receivers
      /\ ~(t \in Senders /\ t \in Receivers)
  BY DEF Tasks
<1>2. messages' = messages /\ txLock' = txLock
  BY DEF GiveUp, SetTimeOut, Place, dataVars, lockVars
<1>3. \A u \in Tasks : u # t /\ Up(u) => Up(u)'
  BY UpStays DEF Step
<1>4. /\ Cardinality(R) \in Nat /\ Cardinality(R') \in Nat
      /\ Cardinality(S) \in Nat /\ Cardinality(S') \in Nat
      /\ WakeAll(txLock) \in Nat
  BY <1>1, AwakeTyped, WakeAllTyped
<1>5. /\ t \notin Receivers => Cardinality(R) <= Cardinality(R')
      /\ t \notin Senders => Cardinality(S) <= Cardinality(S')
  <2>1. t \notin Receivers => \A u \in R : u \in R'
    BY <1>1, <1>3 DEF Awake
  <2>2. t \notin Senders => \A u \in S : u \in S'
    BY <1>1, <1>3 DEF Awake
  <2>3. QED
    BY <1>1, <2>1, <2>2, NoneGoes
<1>6. IF t \in Senders THEN messages = Length ELSE messages <= WakeAll(txLock)
  <2>1. CASE GiveUp(t) \/ SetTimeOut(t)
    <3>1. ~CanGo(t)
      BY <2>1 DEF GiveUp, SetTimeOut
    <3>2. QED
      BY <1>4, <3>1, LengthAssumption DEF CanGo, CanSend, CanReceive
  <2>2. CASE Place(t)
    BY <2>2 DEF Place, Goto, WakeInv, TestHolds
  <2>3. QED
    BY <2>1, <2>2
<1>7. /\ t \in Senders => toReceive' = toReceive
      /\ t \in Receivers => toSend' = toSend
  BY <1>1 DEF GiveUp, SetTimeOut, Place, listVars
<1>8. /\ toReceive # <<>> => messages <= Cardinality(R) + WakeAll(txLock)
      /\ toSend # <<>> => Length - messages <= Cardinality(S)
  BY DEF WakeInv, ItemsTold, RoomTold
<1> HIDE DEF R, S
<1>9. /\ toReceive' # <<>> => messages' <= Cardinality(R') + WakeAll(txLock')
      /\ toSend' # <<>> => Length - messages' <= Cardinality(S')
  <2>1. CASE t \in Senders
    BY <1>1, <1>2, <1>4, <1>5, <1>6, <1>7, <1>8, <2>1, LengthAssumption
  <2>2. CASE t \notin Senders
    BY <1>1, <1>2, <1>4, <1>5, <1>6, <1>7, <1>8, <2>2, LengthAssumption
  <2>3. QED
    BY <2>1, <2>2
<1>10. QED
  BY <1>9 DEF ItemsTold, RoomTold, R, S, WakeAll

\* A woken task that has not moved is one more that is awake.
LEMMA WokenAreUp ==
    ASSUME ListInv, NEW woken, WokenIn(woken), suspender' = suspender,
           NEW G \in SUBSET Tasks, woken \subseteq G,
           \A u \in woken : Again(u) => Again(u)',
           \A u \in Awake(G) : u \in Awake(G)'
    PROVE  Cardinality(Awake(G)) + Cardinality(woken) <= Cardinality(Awake(G)')
<1>1. /\ woken \subseteq Tasks
      /\ \A u \in woken : ~Ready(u) /\ Ready(u)' /\ list[u] # "ready"
  BY WokenLists DEF ListInv
<1>2. \A u \in woken : Again(u)'
  BY <1>1 DEF ListInv, Places
<1>3. woken \subseteq Awake(G)' /\ woken \cap Awake(G) = {}
  BY <1>1, <1>2 DEF Awake, Up
<1>4. IsFiniteSet(woken)
  BY DEF WokenIn
<1>5. QED
  BY <1>3, <1>4, SomeWake

\* One item more or less, for which one task of the other side is woken.
LEMMA TransferTold ==
    ASSUME TimeTyped, HolderInv, LocksTyped, ListInv, WakeInv,
           messages \in 0 .. Length, NEW t \in Tasks, Transfer(t)
    PROVE  ItemsTold' /\ RoomTold'
<1> DEFINE R == Awake(Receivers)
           S == Awake(Senders)
<1>1. /\ Receivers \in SUBSET Tasks /\ Senders \in SUBSET Tasks
      /\ t \in Senders \/ t \in Receivers
      /\ ~(t \in Senders /\ t \in Receivers)
  BY DEF Tasks
<1>2. txLock' = txLock /\ suspender' = suspender /\ Running(t) /\ pc[t] = "try"
  BY DEF Transfer, lockVars
<1>3. Lists /\ list[t] = "ready"
  BY <1>2, RunsReady DEF ListInv
<1>4. \A u \in Tasks : u # t /\ Up(u) => Up(u)'
  BY UpStays DEF Step
<1>5. \A u \in Tasks : u # t /\ Again(u) => Again(u)'
  BY OwnCall DEF Step, Again, Same
<1>6. /\ Cardinality(R) \in Nat /\ Cardinality(R') \in Nat
      /\ Cardinality(S) \in Nat /\ Cardinality(S') \in Nat
      /\ WakeAll(txLock) \in Nat
  BY <1>1, AwakeTyped, WakeAllTyped
<1>7. ASSUME NEW woken, WokenIn(woken), NEW G \in SUBSET Tasks, woken \subseteq G,
             t \notin G
      PROVE  Cardinality(Awake(G)) + Cardinality(woken) <= Cardinality(Awake(G)')
  <2>1. \A u \in Awake(G) : u \in Awake(G)'
    BY <1>4, <1>7 DEF Awake
  <2>2. \A u \in woken : Again(u) => Again(u)'
    BY <1>5, <1>7
  <2>3. QED
    BY <1>2, <1>7, <2>1, <2>2, WokenAreUp
<1>8. /\ Cardinality(R) - 1 <= Cardinality(R')
      /\ Cardinality(S) - 1 <= Cardinality(S')
  <2>1. \A u \in R \ {t} : u \in R'
    BY <1>1, <1>4 DEF Awake
  <2>2. \A u \in S \ {t} : u \in S'
    BY <1>1, <1>4 DEF Awake
  <2>3. QED
    BY <1>1, <2>1, <2>2, OneGoes
<1>9. /\ toReceive # <<>> => messages <= Cardinality(R) + WakeAll(txLock)
      /\ toSend # <<>> => Length - messages <= Cardinality(S)
  BY DEF WakeInv, ItemsTold, RoomTold
<1>10. /\ toReceive' # <<>> => messages' <= Cardinality(R') + WakeAll(txLock')
       /\ toSend' # <<>> => Length - messages' <= Cardinality(S')
  <2>1. CASE t \in Senders
    <3>1. CopyTo /\ WakeReceivers(1)
      BY <1>1, <2>1 DEF Transfer
    <3>2. messages' = messages + 1
      BY <3>1 DEF CopyTo
    <3>3. PICK woken \in SUBSET Members(toReceive) :
             /\ WokenIn(woken) /\ toSend' = toSend
             /\ toReceive' # <<>> => Cardinality(woken) = 1 /\ toReceive # <<>>
      BY <1>3, <3>1, ReceiversWoken
    <3>4. woken \subseteq Receivers
      BY <1>3, ListMembers DEF Lists, ListTyped
    <3>5. Cardinality(R) + Cardinality(woken) <= Cardinality(R')
      BY <1>1, <1>7, <2>1, <3>3, <3>4
    <3> HIDE DEF R, S
    <3>6. toReceive' # <<>> => messages' <= Cardinality(R') + WakeAll(txLock')
      BY <1>2, <1>6, <1>9, <3>2, <3>3, <3>5
    <3>7. toSend' # <<>> => Length - messages' <= Cardinality(S')
      BY <1>6, <1>8, <1>9, <3>2, <3>3, LengthAssumption
    <3>8. QED
      BY <3>6, <3>7
  <2>2. CASE t \notin Senders
    <3>1. CopyFrom /\ WakeSenders(1)
      BY <1>1, <2>2 DEF Transfer
    <3>2. messages' = messages - 1
      BY <3>1 DEF CopyFrom
    <3>3. PICK woken \in SUBSET Members(toSend) :
             /\ WokenIn(woken) /\ toReceive' = toReceive
             /\ toSend' # <<>> => Cardinality(woken) = 1 /\ toSend # <<>>
      BY <1>3, <3>1, SendersWoken
    <3>4. woken \subseteq Senders
      BY <1>3, ListMembers DEF Lists, ListTyped
    <3>5. Cardinality(S) + Cardinality(woken) <= Cardinality(S')
      BY <1>1, <1>7, <2>2, <3>3, <3>4
    <3> HIDE DEF R, S
    <3>6. toReceive' # <<>> => messages' <= Cardinality(R') + WakeAll(txLock')
      BY <1>2, <1>6, <1>8, <1>9, <3>2, <3>3
    <3>7. toSend' # <<>> => Length - messages' <= Cardinality(S')
      BY <1>6, <1>9, <3>2, <3>3, <3>5, LengthAssumption
    <3>8. QED
      BY <3>6, <3>7
  <2>3. QED
    BY <2>1, <2>2
<1> HIDE DEF R, S
<1>11. QED
  BY <1>10 DEF ItemsTold, RoomTold, R, S, WakeAll

\* The items counted while the queue was locked are told now.
LEMMA UnlockTold ==
    ASSUME TimeTyped, HolderInv, LocksTyped, ListInv, WakeInv,
           messages \in 0 .. Length, NEW t \in Tasks, UnlockTx(t)
    PROVE  ItemsTold' /\ RoomTold'
<1> DEFINE R == Awake(Receivers)
           S == Awake(Senders)
           n == WakeAll(txLock)
<1>1. Receivers \in SUBSET Tasks /\ Senders \in SUBSET Tasks
  BY DEF Tasks
<1>2. /\ messages' = messages /\ txLock' = Unlocked /\ suspender' = suspender
      /\ WakeReceivers(n) /\ WakeAll(txLock') = 0
      /\ pc[t] = "unlockTx" /\ pc' = [pc EXCEPT ![t] = "unlockRx"] /\ after' = after
  BY DEF UnlockTx, Goto, dataVars, WakeAll, Unlocked
<1>3. Lists
  BY DEF ListInv
<1>4. \A u \in Tasks : Up(u) => Up(u)'
  <2>1. ~(Transfer(t) \/ GiveUp(t) \/ SetTimeOut(t))
    BY <1>2 DEF Transfer, GiveUp, SetTimeOut, Goto
  <2>2. QED
    BY <2>1, UpStays DEF Step
<1>5. \A u \in Tasks : Again(u) => Again(u)'
  <2>1. pc \in [Tasks -> PC]
    BY DEF TimeTyped
  <2>2. QED
    BY <1>2, <2>1 DEF Again
<1>6. /\ Cardinality(R) \in Nat /\ Cardinality(R') \in Nat
      /\ Cardinality(S) \in Nat /\ Cardinality(S') \in Nat /\ n \in Nat
  BY <1>1, AwakeTyped, WakeAllTyped
<1>7. /\ \A u \in R : u \in R'
      /\ \A u \in S : u \in S'
  BY <1>1, <1>4 DEF Awake
<1>8. Cardinality(S) <= Cardinality(S')
  BY <1>1, <1>7, NoneGoes
<1>9. /\ toReceive # <<>> => messages <= Cardinality(R) + n
      /\ toSend # <<>> => Length - messages <= Cardinality(S)
  BY DEF WakeInv, ItemsTold, RoomTold
<1> HIDE DEF n
<1>10. PICK woken \in SUBSET Members(toReceive) :
          /\ WokenIn(woken) /\ toSend' = toSend
          /\ toReceive' # <<>> => Cardinality(woken) = n /\ toReceive # <<>>
  BY <1>2, <1>3, <1>6, ReceiversWoken
<1>11. woken \subseteq Receivers
  BY <1>3, ListMembers DEF Lists, ListTyped
<1>12. Cardinality(R) + Cardinality(woken) <= Cardinality(R')
  BY <1>1, <1>2, <1>5, <1>7, <1>10, <1>11, WokenAreUp
<1> HIDE DEF R, S
<1>13. toReceive' # <<>> => messages' <= Cardinality(R') + WakeAll(txLock')
  BY <1>2, <1>6, <1>9, <1>10, <1>12
<1>14. toSend' # <<>> => Length - messages' <= Cardinality(S')
  BY <1>2, <1>6, <1>8, <1>9, <1>10, LengthAssumption
<1>15. QED
  BY <1>13, <1>14 DEF ItemsTold, RoomTold, R, S, WakeAll

\* An item of the interrupt is told at once, or counted.
LEMMA InterruptTold ==
    ASSUME TimeTyped, HolderInv, LocksTyped, ListInv, WakeInv,
           messages \in 0 .. Length, SendFromISR
    PROVE  ItemsTold' /\ RoomTold'
<1> DEFINE R == Awake(Receivers)
           S == Awake(Senders)
<1>1. Receivers \in SUBSET Tasks /\ Senders \in SUBSET Tasks
  BY DEF Tasks
<1>2. /\ messages' = messages + 1 /\ suspender' = suspender
      /\ UNCHANGED <<pc, after>>
  BY DEF SendFromISR, CopyTo, callVars
<1>3. Lists
  BY DEF ListInv
<1>4. \A u \in Tasks : Up(u) => Up(u)'
  BY <1>2, <1>3, InterruptLists DEF NoneLeaves, Up, Again
<1>5. \A u \in Tasks : Again(u) => Again(u)'
  BY <1>2 DEF Again
<1>6. /\ Cardinality(R) \in Nat /\ Cardinality(R') \in Nat
      /\ Cardinality(S) \in Nat /\ Cardinality(S') \in Nat /\ WakeAll(txLock) \in Nat
  BY <1>1, AwakeTyped, WakeAllTyped
<1>7. /\ \A u \in R : u \in R'
      /\ \A u \in S : u \in S'
  BY <1>1, <1>4 DEF Awake
<1>8. Cardinality(S) <= Cardinality(S') /\ Cardinality(R) <= Cardinality(R')
  BY <1>1, <1>7, NoneGoes
<1>9. /\ toReceive # <<>> => messages <= Cardinality(R) + WakeAll(txLock)
      /\ toSend # <<>> => Length - messages <= Cardinality(S)
  BY DEF WakeInv, ItemsTold, RoomTold
<1>10. /\ toReceive' # <<>> => messages' <= Cardinality(R') + WakeAll(txLock')
       /\ toSend' # <<>> => Length - messages' <= Cardinality(S')
  <2>1. CASE txLock = Unlocked
    <3>1. WakeReceivers(1) /\ txLock' = txLock
      BY <2>1 DEF SendFromISR
    <3>2. PICK woken \in SUBSET Members(toReceive) :
             /\ WokenIn(woken) /\ toSend' = toSend
             /\ toReceive' # <<>> => Cardinality(woken) = 1 /\ toReceive # <<>>
      BY <1>3, <3>1, ReceiversWoken
    <3>3. woken \subseteq Receivers
      BY <1>3, ListMembers DEF Lists, ListTyped
    <3>4. Cardinality(R) + Cardinality(woken) <= Cardinality(R')
      BY <1>1, <1>2, <1>5, <1>7, <3>2, <3>3, WokenAreUp
    <3> HIDE DEF R, S
    <3>5. QED
      BY <1>2, <1>6, <1>8, <1>9, <3>1, <3>2, <3>4, LengthAssumption
  <2>2. CASE txLock # Unlocked
    <3>1. txLock' = txLock + 1 /\ toReceive' = toReceive /\ toSend' = toSend
      BY <2>2 DEF SendFromISR, CountItem, listVars
    <3>2. WakeAll(txLock') = WakeAll(txLock) + 1
      BY <2>2, <3>1 DEF WakeAll, LocksTyped, Unlocked
    <3> HIDE DEF R, S
    <3>3. QED
      BY <1>2, <1>6, <1>8, <1>9, <3>1, <3>2, LengthAssumption
  <2>3. QED
    BY <2>1, <2>2
<1> HIDE DEF R, S
<1>11. QED
  BY <1>10 DEF ItemsTold, RoomTold, R, S, WakeAll

\* A tick wakes tasks and touches no item.
LEMMA TickTold ==
    ASSUME HolderInv, LocksTyped, ListInv, WakeInv, messages \in 0 .. Length, Tick
    PROVE  ItemsTold' /\ RoomTold'
<1>1. Lists
  BY DEF ListInv
<1>2. UNCHANGED <<pc, after, messages, txLock>>
  BY DEF Tick, callVars, dataVars, lockVars
<1>3. \A u \in Tasks : Up(u) => Up(u)'
  BY <1>1, <1>2, InterruptLists DEF NoneLeaves, Up, Again
<1>4. (toReceive' # <<>> => toReceive # <<>>) /\ (toSend' # <<>> => toSend # <<>>)
  <2>1. CASE suspender = Nobody
    <3>1. IncrementTick({}) /\ pendingReady' = pendingReady
      BY <2>1 DEF Tick
    <3>2. pendingReady = <<>>
      BY <1>1, <2>1 DEF Lists
    <3>3. PendingTasks = {}
      BY <3>2 DEF PendingTasks
    <3>4. QED
      BY <1>1, <3>1, <3>2, <3>3, TickLists
  <2>2. CASE suspender # Nobody
    BY <2>2 DEF Tick, listVars
  <2>3. QED
    BY <2>1, <2>2
<1>5. QED
  BY <1>2, <1>3, <1>4, StillTold

\* What the test has found holds until the task has its place: only interrupts
\* come between, and the queue is locked against them.
LEMMA TestStep ==
    TimeTyped /\ HolderInv /\ LocksTyped /\ messages \in 0 .. Length /\ WakeInv
       /\ [Next]_vars => TestHolds' /\ LockedHere'
<1> SUFFICES ASSUME TimeTyped, HolderInv, LocksTyped, messages \in 0 .. Length,
                    WakeInv, [Next]_vars
             PROVE  TestHolds' /\ LockedHere'
  OBVIOUS
<1>0. /\ pc \in [Tasks -> PC] /\ after \in [Tasks -> {"try", "recheck", "out"}]
      /\ \A t \in Tasks : t \in suspender <=> pc[t] \in Held
      /\ \A t, u \in suspender : t = u
  BY DEF TimeTyped, HolderInv
<1>a. /\ \A t \in Tasks : pc[t] = "place" =>
            IF t \in Senders THEN messages = Length ELSE messages <= WakeAll(txLock)
      /\ \A t \in Tasks : pc[t] \in Locking => txLock # Unlocked
  BY DEF WakeInv, TestHolds, LockedHere
<1>1. ASSUME NEW t \in Tasks, Call(t) \/ Step(t) PROVE TestHolds' /\ LockedHere'
  <2>1. Running(t)
    BY <1>1 DEF Call, Step, Transfer, GiveUp, SetTimeOut, SuspendAll, LockQueue,
       CheckForTimeOut, Test, Place, UnlockTx, UnlockRx, ResumeAll, Recheck, Goto
  <2>2. ASSUME NEW u \in Tasks, u # t PROVE pc'[u] \notin Locking
    <3>1. pc'[u] = pc[u]
      BY <1>1, <2>2, OwnCall DEF Same
    <3>2. u \notin suspender
      BY <1>0, <2>1, <2>2 DEF Running, Nobody
    <3>3. QED
      BY <1>0, <3>1, <3>2 DEF Held, Locking
  <2>3. pc'[t] \in Locking => txLock' # Unlocked
    <3>1. CASE LockQueue(t)
      BY <3>1 DEF LockQueue, Locked, Unlocked, LockedUnmodified
    <3>2. CASE CheckForTimeOut(t) \/ Test(t) \/ Place(t)
      <4>1. pc[t] \in Locking /\ txLock' = txLock
        BY <3>2 DEF CheckForTimeOut, Test, Place, Goto, Locking, lockVars
      <4>2. QED
        BY <1>a, <4>1
    <3>3. CASE Call(t) \/ SetTimeOut(t) \/ SuspendAll(t) \/ UnlockTx(t) \/ UnlockRx(t)
      BY <1>0, <3>3
      DEF Call, SetTimeOut, SuspendAll, UnlockTx, UnlockRx, Goto, Locking
    <3>4. CASE Transfer(t) \/ GiveUp(t) \/ ResumeAll(t) \/ Recheck(t)
      BY <1>0, <3>4 DEF Transfer, GiveUp, ResumeAll, Recheck, Return, Locking
    <3>5. QED
      BY <1>1, <3>1, <3>2, <3>3, <3>4 DEF Step
  <2>4. pc'[t] = "place" =>
           IF t \in Senders THEN messages' = Length ELSE messages' <= WakeAll(txLock')
    <3>1. CASE Test(t)
      <4>1. /\ messages' = messages /\ txLock' = txLock
            /\ pc'[t] = IF CanGo(t) THEN "unlockTx" ELSE "place"
        BY <1>0, <3>1 DEF Test, Goto, dataVars, lockVars
      <4>2. WakeAll(txLock) \in Nat
        BY WakeAllTyped
      <4>3. ~CanGo(t) =>
               IF t \in Senders THEN messages = Length ELSE messages <= WakeAll(txLock)
        BY <4>2, LengthAssumption DEF CanGo, CanSend, CanReceive
      <4>4. QED
        BY <4>1, <4>3
    <3>2. CASE ~Test(t)
      <4>1. CASE Call(t) \/ SetTimeOut(t) \/ SuspendAll(t) \/ LockQueue(t)
                 \/ CheckForTimeOut(t) \/ Place(t) \/ UnlockTx(t) \/ UnlockRx(t)
        BY <1>0, <4>1 DEF Call, SetTimeOut, SuspendAll, LockQueue, CheckForTimeOut,
           Place, UnlockTx, UnlockRx, Goto, UnlockFirst
      <4>2. CASE Transfer(t) \/ GiveUp(t) \/ ResumeAll(t) \/ Recheck(t)
        BY <1>0, <4>2 DEF Transfer, GiveUp, ResumeAll, Recheck, Return
      <4>3. QED
        BY <1>1, <3>2, <4>1, <4>2 DEF Step
    <3>3. QED
      BY <3>1, <3>2
  <2>5. \A u \in Tasks : pc'[u] = "place" => pc'[u] \in Locking
    BY DEF Locking
  <2>6. TestHolds'
    <3>1. TestHolds' <=> \A u \in Tasks : pc'[u] = "place" =>
             IF u \in Senders THEN messages' = Length ELSE messages' <= WakeAll(txLock')
      BY DEF TestHolds, WakeAll
    <3>2. QED
      BY <2>2, <2>4, <2>5, <3>1
  <2>7. LockedHere'
    BY <2>2, <2>3 DEF LockedHere
  <2>8. QED
    BY <2>6, <2>7
<1>2. CASE SendFromISR
  <2>1. /\ pc' = pc /\ messages' = messages + 1 /\ messages < Length
        /\ txLock = Unlocked => txLock' = txLock
        /\ txLock # Unlocked => txLock' = txLock + 1
    BY <1>2 DEF SendFromISR, CanSend, CopyTo, CountItem, callVars
  <2>2. LockedHere'
    BY <1>a, <2>1 DEF LockedHere, LocksTyped, Unlocked
  <2>3. ASSUME NEW u \in Tasks, pc[u] = "place"
        PROVE  u \notin Senders /\ messages' <= WakeAll(txLock')
    <3>1. txLock # Unlocked
      BY <1>a, <2>3 DEF Locking
    <3>2. WakeAll(txLock') = WakeAll(txLock) + 1 /\ WakeAll(txLock) \in Nat
      BY <2>1, <3>1 DEF WakeAll, LocksTyped, Unlocked
    <3>3. IF u \in Senders THEN messages = Length ELSE messages <= WakeAll(txLock)
      BY <1>a, <2>3
    <3>4. QED
      BY <2>1, <3>2, <3>3, LengthAssumption
  <2>4. QED
    BY <2>1, <2>2, <2>3 DEF TestHolds, WakeAll
<1>3. CASE Tick \/ UNCHANGED vars
  <2>1. UNCHANGED <<pc, messages, txLock>>
    BY <1>3 DEF Tick, vars, callVars, dataVars, lockVars
  <2>2. QED
    BY <1>a, <2>1 DEF TestHolds, LockedHere, WakeAll
<1>4. QED
  BY <1>1, <1>2, <1>3 DEF Next

LEMMA WakeStart == Init => WakeInv
BY DEF Init, WakeInv, ItemsTold, RoomTold, TestHolds, LockedHere, Locking

LEMMA WakeStep ==
    TimeTyped /\ HolderInv /\ LockInv /\ LocksTyped /\ ListInv /\ WakeInv
       /\ [Next]_vars => WakeInv'
<1> SUFFICES ASSUME TimeTyped, HolderInv, LockInv, LocksTyped, ListInv, WakeInv,
                    [Next]_vars
             PROVE  WakeInv'
  OBVIOUS
<1>1. messages \in 0 .. Length
  BY DEF LockInv
<1>2. ItemsTold' /\ RoomTold'
  <2>1. ASSUME NEW t \in Tasks, Call(t) \/ Step(t) PROVE ItemsTold' /\ RoomTold'
    <3>1. CASE \/ Call(t) \/ SuspendAll(t) \/ LockQueue(t) \/ CheckForTimeOut(t)
               \/ Test(t) \/ Recheck(t) \/ UnlockRx(t) \/ ResumeAll(t)
      BY <1>1, <3>1, QuietSteps
    <3>2. CASE GiveUp(t) \/ SetTimeOut(t) \/ Place(t)
      BY <1>1, <3>2, WaitingSteps
    <3>3. CASE Transfer(t)
      BY <1>1, <3>3, TransferTold
    <3>4. CASE UnlockTx(t)
      BY <1>1, <3>4, UnlockTold
    <3>5. QED
      BY <2>1, <3>1, <3>2, <3>3, <3>4 DEF Step
  <2>2. CASE SendFromISR
    BY <1>1, <2>2, InterruptTold
  <2>3. CASE Tick
    BY <1>1, <2>3, TickTold
  <2>4. CASE UNCHANGED vars
    <3>1. UNCHANGED <<pc, after, messages, txLock, listVars>>
      BY <2>4 DEF vars, callVars, dataVars, lockVars
    <3>2. /\ \A u \in Tasks : Up(u) => Up(u)'
          /\ toReceive' = toReceive /\ toSend' = toSend
      BY <3>1 DEF Up, Ready, Again, PendingTasks, listVars
    <3>3. QED
      BY <1>1, <3>1, <3>2, StillTold
  <2>5. QED
    BY <2>1, <2>2, <2>3, <2>4 DEF Next
<1>3. TestHolds' /\ LockedHere'
  BY <1>1, TestStep
<1>4. QED
  BY <1>2, <1>3 DEF WakeInv

LEMMA KernelAlways ==
    Spec => [](TimeTyped /\ HolderInv /\ LockInv /\ LocksTyped /\ ListInv /\ WakeInv)
<1> DEFINE All == TimeTyped /\ HolderInv /\ LockInv /\ LocksTyped /\ ListInv /\ WakeInv
<1>1. Init => All
  BY TypedStart, HolderStart, LockStart, LocksStart, ListStart, WakeStart
<1>2. All /\ [Next]_vars => All'
  BY TypedStep, HolderStep, LockStep, LocksStep, ListStep, WakeStep
<1>3. QED
  BY <1>1, <1>2, PTL DEF Spec

\* With the scheduler running whoever is awake is on its way to try.
LEMMA AwakeTry ==
    ASSUME HolderInv, LockInv, ListInv, WakeInv
    PROVE  NoLostWakeup
<1> SUFFICES ASSUME suspender = Nobody
             PROVE  /\ toReceive # <<>> => messages <= Cardinality(Trying(Receivers))
                    /\ toSend # <<>> =>
                          Length - messages <= Cardinality(Trying(Senders))
  BY DEF NoLostWakeup
<1>1. Receivers \in SUBSET Tasks /\ Senders \in SUBSET Tasks
  BY DEF Tasks
<1>2. WakeAll(txLock) = 0
  BY DEF LockInv, LockDiscipline, Nobody, WakeAll, Unlocked
<1>3. PendingTasks = {}
  BY DEF ListInv, Lists, PendingTasks
<1>4. ASSUME NEW G \in SUBSET Tasks
      PROVE  /\ Cardinality(Awake(G)) <= Cardinality(Trying(G))
             /\ Cardinality(Awake(G)) \in Nat /\ Cardinality(Trying(G)) \in Nat
  <2>1. Awake(G) \in SUBSET Trying(G)
    BY <1>3 DEF Awake, Trying, Up, Ready, Again
  <2>2. IsFiniteSet(Trying(G))
    <3>1. Trying(G) \in SUBSET Tasks
      BY DEF Trying
    <3>2. QED
      BY <3>1, FS_Subset, TasksAssumption
  <2>3. QED
    BY <2>1, <2>2, FS_Subset, FS_CardinalityType
<1>5. messages \in 0 .. Length
  BY DEF LockInv
<1>6. QED
  BY <1>1, <1>2, <1>4, <1>5, LengthAssumption DEF WakeInv, ItemsTold, RoomTold

\* No wake-up is lost, for any number of tasks, any length and any order of
\* calls, interrupts and ticks: whenever tasks may be switched, a task that waits
\* for items, or room, is behind as many tasks that are awake and about to take
\* them.
THEOREM WakeupsKept == Spec => []NoLostWakeup
<1>1. HolderInv /\ LockInv /\ ListInv /\ WakeInv => NoLostWakeup
  BY AwakeTry
<1>2. QED
  BY <1>1, KernelAlways, PTL

-----------------------------------------------------------------------------
(* Nobody waits past its time *)

\* In one of the two delayed lists; the ticks until it is woken.
Timed(t) == list[t] \in {"delayed", "overflow"}
Ahead(t) == IF list[t] = "delayed" THEN wake[t] - tick ELSE wake[t] + Wrap - tick
Since(t) == SinceEntry(entryOver[t], entryAt[t])

ClockTyped == wake \in [Tasks -> Ticks] /\ nextUnblock \in Ticks

\* The cached time is no later than any wake time of the delayed list.
CacheInv == \A t \in Tasks : list[t] = "delayed" => nextUnblock <= wake[t]

\* What is left of the time of a task in a delayed list is what has passed since
\* its call looked at the clock, and what is to come.
InTime(t) ==
    /\ list[t] = "delayed" => wake[t] > tick
    /\ list[t] = "overflow" => wake[t] < tick
    /\ Timed(t) => entryAt[t] # NoEntry /\ left[t] # 0 /\ Since(t) + Ahead(t) = left[t]
    /\ list[t] = "suspended" => entryAt[t] = NoEntry

\* The ticks a call has waited are those that were taken from its time, those
\* since, and the one that is pended; and xTaskCheckForTimeOut can tell when the
\* clock has gone round.
Counting(t) ==
    entryAt[t] # NoEntry =>
        /\ left[t] # MaxDelay
        /\ left[t] # 0 => waited[t] <= asked[t] - left[t] + pendedTick + Since(t)
        /\ Since(t) = Wrap => over # entryOver[t] /\ tick >= entryAt[t]
        /\ pendedTick = 1 => Since(t) < Wrap

\* A task that is about to wait has just looked at the clock, which stands still.
JustLooked(t) ==
    pc[t] \in {"test", "place"} =>
        left[t] = MaxDelay \/ (entryAt[t] # NoEntry /\ left[t] # 0 /\ Since(t) = 0)

Punctual(t) == InTime(t) /\ Counting(t) /\ JustLooked(t)

LateInv == ClockTyped /\ CacheInv /\ \A t \in Tasks : Punctual(t)

\* The clock counts a tick for every call that has looked at it.
LEMMA SinceCounts ==
    ASSUME TimeTyped, NEW S, IncrementTick(S),
           NEW o \in 0 .. OverWrap - 1, NEW e \in Ticks, SinceEntry(o, e) < Wrap
    PROVE  /\ SinceEntry(o, e)' = SinceEntry(o, e) + 1
           /\ SinceEntry(o, e)' = Wrap => over' # o /\ tick' >= e
<1>1. /\ tick \in 0 .. Wrap - 1 /\ over \in 0 .. OverWrap - 1 /\ e \in 0 .. Wrap - 1
  BY DEF TimeTyped, Ticks
<1>2. /\ tick' = IF tick + 1 < Wrap THEN tick + 1 ELSE 0
      /\ over' = IF tick + 1 < Wrap THEN over
                 ELSE IF over + 1 < OverWrap THEN over + 1 ELSE 0
  BY <1>1, ClockStep, CountOn
<1>3. (o + 1) % OverWrap = IF o + 1 < OverWrap THEN o + 1 ELSE 0
  BY CountOn
<1>4. SinceEntry(o, e) =
         IF over = o /\ tick >= e THEN tick - e
         ELSE IF over = (o + 1) % OverWrap /\ tick < e THEN tick + Wrap - e
         ELSE Wrap
  BY DEF SinceEntry
<1>5. SinceEntry(o, e)' =
         IF over' = o /\ tick' >= e THEN tick' - e
         ELSE IF over' = (o + 1) % OverWrap /\ tick' < e THEN tick' + Wrap - e
         ELSE Wrap
  BY DEF SinceEntry
<1>6. (o + 1) % OverWrap # o
  BY <1>3
<1>7. CASE over = o /\ tick >= e
  <2>1. SinceEntry(o, e) = tick - e
    BY <1>4, <1>7
  <2>2. CASE tick + 1 < Wrap
    <3>1. tick' = tick + 1 /\ over' = o
      BY <1>2, <1>7, <2>2
    <3>2. SinceEntry(o, e)' = tick + 1 - e
      BY <1>1, <1>5, <1>7, <3>1
    <3>3. tick + 1 - e < Wrap /\ tick + 1 - e = (tick - e) + 1
      BY <1>1, <2>2
    <3>4. QED
      BY <1>1, <2>1, <3>2, <3>3
  <2>3. CASE ~(tick + 1 < Wrap)
    <3>1. tick' = 0 /\ over' = (o + 1) % OverWrap /\ tick = Wrap - 1
      BY <1>1, <1>2, <1>3, <1>7, <2>3
    <3>2. SinceEntry(o, e)' = Wrap - e
      BY <1>1, <1>5, <1>6, <3>1
    <3>3. QED
      BY <1>1, <1>6, <2>1, <3>1, <3>2
  <2>4. QED
    BY <2>2, <2>3
<1>8. CASE ~(over = o /\ tick >= e)
  <2>1. /\ over = (o + 1) % OverWrap /\ tick < e
        /\ SinceEntry(o, e) = tick + Wrap - e
    BY <1>4, <1>8
  <2>2. tick' = tick + 1 /\ over' = over /\ over' # o
    BY <1>1, <1>2, <1>6, <2>1
  <2>3. SinceEntry(o, e)' = tick + 1 + Wrap - e
    BY <1>1, <1>5, <2>1, <2>2
  <2>4. QED
    BY <1>1, <2>1, <2>2, <2>3
<1>9. QED
  BY <1>7, <1>8

\* When the clock has not gone round, what xTaskCheckForTimeOut reckons is right.
LEMMA ElapsedExact ==
    ASSUME TimeTyped, NEW t \in Tasks, entryAt[t] # NoEntry, Since(t) < Wrap
    PROVE  Elapsed(t) = Since(t)
<1> DEFINE e == entryAt[t]
           o == entryOver[t]
<1>1. tick \in 0 .. Wrap - 1 /\ e \in 0 .. Wrap - 1
  BY DEF TimeTyped, Ticks
<1>2. Elapsed(t) = (tick - e) % Wrap /\ Since(t) = SinceEntry(o, e)
  BY DEF Elapsed, Since
<1> HIDE DEF e, o
<1>3. (tick - e) % Wrap = IF tick >= e THEN tick - e ELSE tick - e + Wrap
  <2>1. CASE tick >= e
    BY <1>1, <2>1
  <2>2. CASE ~(tick >= e)
    <3>1. tick - e + Wrap \in 0 .. Wrap - 1 /\ tick - e = (tick - e + Wrap) + (-1) * Wrap
      BY <1>1, <2>2
    <3>2. QED
      BY <3>1, <2>2
  <2>3. QED
    BY <2>1, <2>2
<1>4. \/ tick >= e /\ SinceEntry(o, e) = tick - e
      \/ tick < e /\ SinceEntry(o, e) = tick + Wrap - e
  BY <1>2 DEF SinceEntry
<1>5. QED
  BY <1>1, <1>2, <1>3, <1>4

\* The earliest wake time of a delayed list.
LEMMA EarliestLeast ==
    ASSUME ClockTyped, NEW lists
    PROVE  /\ Earliest(lists) \in Ticks
           /\ \A t \in Delayed(lists) : Earliest(lists) <= wake[t]
<1> DEFINE D == Delayed(lists)
           times == {wake[t] : t \in D}
<1>1. D \subseteq Tasks /\ \A t \in D : wake[t] \in Ticks
  BY DEF ClockTyped, Delayed
<1>2. MaxDelay \in Ticks
  BY DEF MaxDelay, Ticks
<1>3. Earliest(lists) = IF D = {} THEN MaxDelay
                        ELSE wake[CHOOSE t \in D : \A u \in D : wake[t] <= wake[u]]
  BY DEF Earliest
<1> HIDE DEF D
<1>4. CASE D = {}
  BY <1>2, <1>3, <1>4 DEF D
<1>5. CASE D # {}
  <2>1. PICK x \in D : TRUE
    BY <1>5
  <2>2. times \in SUBSET Nat /\ wake[x] \in times
    BY <1>1 DEF Ticks
  <2>3. \E m \in times : \A y \in times : m <= y
    <3> HIDE DEF times
    <3>1. QED
      BY <2>2, LeastOne
  <2>4. \E t \in D : \A u \in D : wake[t] <= wake[u]
    BY <2>3
  <2>5. QED
    BY <1>1, <1>3, <1>5, <2>4 DEF D
<1>6. QED
  BY <1>4, <1>5

\* The delayed lists and the cached time after a tick: whoever is still in a list
\* has one tick less to wait, and whoever's time has come is not in one.
LEMMA TickCache ==
    ASSUME TimeTyped, ListTyped, ClockTyped, CacheInv,
           \A u \in Tasks : InTime(u), NEW readied, IncrementTick(readied)
    PROVE  /\ nextUnblock' \in Ticks
           /\ \A u \in Tasks : list'[u] = "delayed" => nextUnblock' <= wake[u]
           /\ \A u \in Tasks : list'[u] \in {"delayed", "overflow"} =>
                 /\ Timed(u)
                 /\ list'[u] = "delayed" => wake[u] > tick' /\ wake[u] - tick' = Ahead(u) - 1
                 /\ list'[u] = "overflow" =>
                       wake[u] < tick' /\ wake[u] + Wrap - tick' = Ahead(u) - 1
           /\ \A u \in Tasks : list'[u] = "suspended" => list[u] = "suspended"
<1> DEFINE lists == [t \in Tasks |-> IF t \in readied THEN "ready"
                                     ELSE Switched(list[t])]
           cached == IF NextTick = 0 \/ readied # {} THEN Earliest(lists)
                     ELSE nextUnblock
           due == {t \in Delayed(lists) : cached <= NextTick /\ wake[t] <= NextTick}
           now == [t \in Tasks |-> IF t \in due THEN "ready" ELSE lists[t]]
<1>1. /\ tick' = NextTick
      /\ list' = now
      /\ nextUnblock' = IF cached <= NextTick THEN Earliest(list') ELSE cached
  BY DEF IncrementTick
<1>2. /\ tick \in 0 .. Wrap - 1 /\ nextUnblock \in 0 .. Wrap - 1
      /\ \A u \in Tasks : wake[u] \in 0 .. Wrap - 1
      /\ \A u \in Tasks : list[u] \in {"ready", "delayed", "overflow", "suspended"}
  BY DEF TimeTyped, ClockTyped, ListTyped, Ticks
<1>3. NextTick = IF tick + 1 < Wrap THEN tick + 1 ELSE 0
  BY <1>2, CountOn DEF NextTick
<1>4. ASSUME NEW u \in Tasks
      PROVE  /\ lists[u] \in {"delayed", "overflow", "suspended"} =>
                   u \notin readied /\ lists[u] = Switched(list[u])
             /\ lists[u] = "suspended" => list[u] = "suspended"
             /\ lists[u] = "delayed" =>
                   IF NextTick = 0 THEN list[u] = "overflow" ELSE list[u] = "delayed"
             /\ lists[u] = "overflow" =>
                   IF NextTick = 0 THEN list[u] = "delayed" ELSE list[u] = "overflow"
  BY <1>2 DEF Switched
<1>5. \A u \in Tasks : u \in Delayed(lists) <=> lists[u] = "delayed"
  BY DEF Delayed
<1> HIDE DEF lists
<1>6. /\ cached \in 0 .. Wrap - 1
      /\ \A u \in Tasks : lists[u] = "delayed" => cached <= wake[u]
  <2>1. CASE NextTick = 0 \/ readied # {}
    BY <1>5, <2>1, EarliestLeast DEF Ticks
  <2>2. CASE ~(NextTick = 0 \/ readied # {})
    BY <1>2, <1>4, <2>2 DEF CacheInv
  <2>3. QED
    BY <2>1, <2>2
<1> HIDE DEF cached
<1>7. \A u \in Tasks : u \in due <=>
         lists[u] = "delayed" /\ cached <= NextTick /\ wake[u] <= NextTick
  BY <1>5
<1> HIDE DEF due
<1>8. \A u \in Tasks : now[u] = IF u \in due THEN "ready" ELSE lists[u]
  OBVIOUS
<1> HIDE DEF now
<1>9. ASSUME NEW u \in Tasks, now[u] = "delayed"
      PROVE  lists[u] = "delayed" /\ wake[u] > NextTick
  <2>1. lists[u] = "delayed" /\ u \notin due
    BY <1>8, <1>9
  <2>2. ~(wake[u] <= NextTick)
    BY <1>2, <1>3, <1>6, <1>7, <2>1
  <2>3. QED
    BY <1>2, <1>3, <2>1, <2>2
<1>10. ASSUME NEW u \in Tasks, now[u] \in {"overflow", "suspended"}
       PROVE  lists[u] = now[u]
  BY <1>8, <1>10
<1>11. /\ nextUnblock' \in Ticks
       /\ \A u \in Tasks : now[u] = "delayed" => nextUnblock' <= wake[u]
  <2>1. CASE cached <= NextTick
    <3>1. nextUnblock' = Earliest(now)
      BY <1>1, <2>1
    <3>2. /\ Earliest(now) \in Ticks
          /\ \A u \in Delayed(now) : Earliest(now) <= wake[u]
      BY EarliestLeast
    <3>3. QED
      BY <3>1, <3>2 DEF Delayed
  <2>2. CASE ~(cached <= NextTick)
    <3>1. nextUnblock' = cached
      BY <1>1, <2>2
    <3>2. QED
      BY <1>6, <1>9, <3>1 DEF Ticks
  <2>3. QED
    BY <2>1, <2>2
<1>12. ASSUME NEW u \in Tasks, now[u] = "delayed"
       PROVE  Timed(u) /\ wake[u] > NextTick /\ wake[u] - NextTick = Ahead(u) - 1
  <2>1. lists[u] = "delayed" /\ wake[u] > NextTick
    BY <1>9, <1>12
  <2>2. CASE NextTick = 0
    <3>1. list[u] = "overflow" /\ tick = Wrap - 1
      BY <1>2, <1>3, <1>4, <2>1, <2>2
    <3>2. Ahead(u) = wake[u] + Wrap - tick
      BY <3>1 DEF Ahead
    <3>3. QED
      BY <1>2, <2>1, <2>2, <3>1, <3>2 DEF Timed
  <2>3. CASE NextTick # 0
    <3>1. list[u] = "delayed" /\ NextTick = tick + 1
      BY <1>3, <1>4, <2>1, <2>3
    <3>2. Ahead(u) = wake[u] - tick
      BY <3>1 DEF Ahead
    <3>3. QED
      BY <1>2, <2>1, <3>1, <3>2 DEF Timed
  <2>4. QED
    BY <2>2, <2>3
<1>13. ASSUME NEW u \in Tasks, now[u] = "overflow"
       PROVE  /\ Timed(u) /\ wake[u] < NextTick
              /\ wake[u] + Wrap - NextTick = Ahead(u) - 1
  <2>1. lists[u] = "overflow"
    BY <1>10, <1>13
  <2>2. NextTick # 0
    <3>1. SUFFICES ASSUME NextTick = 0 PROVE FALSE
      OBVIOUS
    <3>2. list[u] = "delayed" /\ tick = Wrap - 1
      BY <1>2, <1>3, <1>4, <2>1, <3>1
    <3>3. wake[u] > tick
      BY <3>2 DEF InTime
    <3>4. QED
      BY <1>2, <3>2, <3>3
  <2>3. list[u] = "overflow" /\ NextTick = tick + 1
    BY <1>3, <1>4, <2>1, <2>2
  <2>4. wake[u] < tick /\ Ahead(u) = wake[u] + Wrap - tick
    BY <2>3 DEF InTime, Ahead
  <2>5. QED
    BY <1>2, <2>3, <2>4 DEF Timed
<1>14. \A u \in Tasks : now[u] = "suspended" => list[u] = "suspended"
  BY <1>4, <1>10
<1>15. QED
  BY <1>1, <1>11, <1>12, <1>13, <1>14

\* A call that has looked at the clock has not been left alone for a whole turn
\* of it, if it waits in a delayed list.
LEMMA TimedInTurn ==
    ASSUME TimeTyped, ClockTyped, NEW u \in Tasks, InTime(u), Timed(u)
    PROVE  entryAt[u] # NoEntry /\ Since(u) < Wrap
<1>1. /\ tick \in 0 .. Wrap - 1 /\ wake[u] \in 0 .. Wrap - 1 /\ left[u] \in 0 .. Wrap - 1
      /\ entryAt[u] \in Ticks \cup {NoEntry} /\ entryOver[u] \in 0 .. OverWrap - 1
  BY DEF TimeTyped, ClockTyped, Ticks
<1>2. entryAt[u] # NoEntry /\ Since(u) + Ahead(u) = left[u]
  BY DEF InTime
<1>3. Since(u) \in 0 .. Wrap
  BY <1>1, <1>2, SinceTyped DEF Since
<1>4. Ahead(u) \in Int /\ Ahead(u) > 0
  BY <1>1 DEF Ahead, InTime, Timed
<1>5. QED
  BY <1>1, <1>2, <1>3, <1>4

\* A tick for a call that keeps its data.
LEMMA TickInTime ==
    ASSUME TimeTyped, HolderInv, ListTyped, ClockTyped, CacheInv,
           \A u \in Tasks : InTime(u), NEW readied, IncrementTick(readied),
           NEW u \in Tasks, Counting(u), entryAt[u] # NoEntry => Since(u) < Wrap,
           left'[u] = left[u], asked'[u] = asked[u], wake'[u] = wake[u],
           entryAt'[u] = entryAt[u], entryOver'[u] = entryOver[u],
           pendedTick' = 0,
           \/ waited'[u] = waited[u] /\ pendedTick = 1
           \/ waited'[u] \in {waited[u], waited[u] + 1} /\ pendedTick = 0
    PROVE  InTime(u)' /\ Counting(u)'
<1>1. /\ left[u] \in 0 .. Wrap - 1 /\ asked[u] \in 0 .. Wrap - 1
      /\ waited[u] \in 0 .. Wrap
      /\ entryAt[u] \in Ticks \cup {NoEntry} /\ entryOver[u] \in 0 .. OverWrap - 1
      /\ tick \in 0 .. Wrap - 1 /\ wake[u] \in 0 .. Wrap - 1
  BY DEF TimeTyped, ClockTyped, Ticks
<1>2. /\ list'[u] \in {"delayed", "overflow"} =>
            /\ Timed(u)
            /\ list'[u] = "delayed" => wake[u] > tick' /\ wake[u] - tick' = Ahead(u) - 1
            /\ list'[u] = "overflow" =>
                  wake[u] < tick' /\ wake[u] + Wrap - tick' = Ahead(u) - 1
      /\ list'[u] = "suspended" => list[u] = "suspended"
  BY TickCache
<1>3. ASSUME entryAt[u] # NoEntry
      PROVE  /\ Since(u)' = Since(u) + 1
             /\ Since(u)' = Wrap => over' # entryOver'[u] /\ tick' >= entryAt'[u]
             /\ Since(u) \in 0 .. Wrap
  <2>1. PICK e \in Ticks : e = entryAt[u]
    BY <1>1, <1>3
  <2>2. PICK o \in 0 .. OverWrap - 1 : o = entryOver[u]
    BY <1>1
  <2>3. Since(u) = SinceEntry(o, e) /\ Since(u)' = SinceEntry(o, e)'
    BY <2>1, <2>2 DEF Since, SinceEntry
  <2>4. /\ SinceEntry(o, e)' = SinceEntry(o, e) + 1
        /\ SinceEntry(o, e)' = Wrap => over' # o /\ tick' >= e
    BY <1>3, <2>3, SinceCounts
  <2>5. SinceEntry(o, e) \in 0 .. Wrap
    BY SinceTyped
  <2>6. QED
    BY <2>1, <2>2, <2>3, <2>4, <2>5
<1>4. InTime(u)'
  <2>1. list'[u] = "suspended" => entryAt'[u] = NoEntry
    BY <1>2 DEF InTime
  <2>2. ASSUME list'[u] \in {"delayed", "overflow"}
        PROVE  /\ entryAt'[u] # NoEntry /\ left'[u] # 0
               /\ Since(u)' + Ahead(u)' = left'[u]
    <3>1. /\ Timed(u) /\ entryAt[u] # NoEntry /\ left[u] # 0
          /\ Since(u) + Ahead(u) = left[u]
      BY <1>2, <2>2 DEF InTime
    <3>2. Ahead(u)' = Ahead(u) - 1
      BY <1>2, <2>2 DEF Ahead
    <3>3. Ahead(u) \in Int
      BY <1>1 DEF Ahead
    <3>4. QED
      BY <1>3, <3>1, <3>2, <3>3
  <2>3. QED
    BY <1>2, <2>1, <2>2 DEF InTime, Timed
<1>5. Counting(u)'
  <2>1. SUFFICES ASSUME entryAt[u] # NoEntry PROVE Counting(u)'
    BY DEF Counting
  <2>2. /\ left[u] # MaxDelay
        /\ left[u] # 0 => waited[u] <= asked[u] - left[u] + pendedTick + Since(u)
    BY <2>1 DEF Counting
  <2>3. left[u] # 0 => waited'[u] <= asked[u] - left[u] + 0 + Since(u)'
    <3>1. pendedTick \in 0 .. 1
      BY DEF HolderInv
    <3>2. Since(u)' = Since(u) + 1 /\ Since(u) \in Int
      BY <1>3, <2>1
    <3>3. QED
      BY <1>1, <2>2, <3>1, <3>2
  <2>4. QED
    BY <1>3, <2>1, <2>2, <2>3 DEF Counting
<1>6. QED
  BY <1>4, <1>5

\* With the clock standing still, a call that keeps its data, and a task that
\* stays where it is or is woken.
LEMMA StillPunctual ==
    ASSUME NEW u \in Tasks, Punctual(u), SameClock,
           left'[u] = left[u], asked'[u] = asked[u], waited'[u] = waited[u],
           entryAt'[u] = entryAt[u], entryOver'[u] = entryOver[u],
           wake'[u] = wake[u], list'[u] \in {list[u], "ready"},
           pc'[u] \in {"test", "place"} => pc[u] \in {"test", "place"}
    PROVE  Punctual(u)'
<1>1. Since(u)' = Since(u)
  BY DEF Since, SinceEntry, SameClock
<1>2. InTime(u)'
  <2>1. CASE list'[u] = "ready"
    BY <2>1 DEF InTime, Timed
  <2>2. CASE list'[u] = list[u]
    <3>1. Ahead(u)' = Ahead(u)
      BY <2>2 DEF Ahead, SameClock
    <3>2. QED
      BY <1>1, <2>2, <3>1 DEF Punctual, InTime, Timed, SameClock
  <2>3. QED
    BY <2>1, <2>2
<1>3. Counting(u)'
  BY <1>1 DEF Punctual, Counting, SameClock
<1>4. JustLooked(u)'
  BY <1>1 DEF Punctual, JustLooked
<1>5. QED
  BY <1>2, <1>3, <1>4 DEF Punctual

LEMMA WakingKeeps ==
    ASSUME ListTyped, NEW n, WakeReceivers(n) \/ WakeSenders(n), NEW u \in Tasks
    PROVE  list'[u] \in {list[u], "ready"}
<1>1. ASSUME NEW s, MadeReady(s) PROVE list'[u] \in {list[u], "ready"}
  BY <1>1 DEF MadeReady, ListTyped
<1>2. QED
  BY <1>1 DEF WakeReceivers, WakeSenders

\* Only Place puts a task in a list, and only its own; it is also the only one to
\* give a time to wake, and to lower the cached one, while the clock stands still.
LEMMA ListsKept ==
    ASSUME TimeTyped, ListTyped, ClockTyped, NEW t \in Tasks, Call(t) \/ Step(t)
    PROVE  /\ \A u \in Tasks \ {t} : wake'[u] = wake[u]
           /\ wake' \in [Tasks -> Ticks]
           /\ ~ResumeAll(t) => \A u \in Tasks : u # t \/ ~Place(t) =>
                                  list'[u] \in {list[u], "ready"}
           /\ ~ResumeAll(t) /\ ~Place(t) => nextUnblock' = nextUnblock
<1>1. /\ wake \in [Tasks -> Ticks] /\ 0 \in Ticks
      /\ list \in [Tasks -> {"ready", "delayed", "overflow", "suspended"}]
      /\ tick \in Ticks /\ left \in [Tasks -> Ticks]
  BY DEF ClockTyped, ListTyped, TimeTyped, Ticks
<1>2. ASSUME Return(t)
      PROVE  /\ \A u \in Tasks \ {t} : wake'[u] = wake[u]
             /\ wake' \in [Tasks -> Ticks]
  BY <1>1, <1>2 DEF Return
<1>3. CASE \/ Call(t) \/ SetTimeOut(t) \/ SuspendAll(t) \/ LockQueue(t)
           \/ CheckForTimeOut(t) \/ Test(t)
  <2>1. UNCHANGED <<wake, list, nextUnblock>>
    BY <1>3 DEF Call, SetTimeOut, SuspendAll, LockQueue, CheckForTimeOut, Test,
       listVars, tickVars
  <2>2. QED
    BY <1>1, <2>1
<1>4. CASE UnlockTx(t) \/ UnlockRx(t)
  <2>1. /\ wake' = wake /\ nextUnblock' = nextUnblock
        /\ \E n : WakeReceivers(n) \/ WakeSenders(n)
    BY <1>4 DEF UnlockTx, UnlockRx, tickVars
  <2>2. QED
    BY <1>1, <2>1, WakingKeeps
<1>5. CASE Transfer(t)
  <2>1. /\ Return(t) /\ nextUnblock' = nextUnblock
        /\ WakeReceivers(1) \/ WakeSenders(1)
    BY <1>5 DEF Transfer
  <2>2. QED
    BY <1>2, <2>1, WakingKeeps
<1>6. CASE GiveUp(t) \/ Recheck(t)
  <2>1. /\ list' = list /\ nextUnblock' = nextUnblock
        /\ Return(t) \/ wake' = wake
    BY <1>6 DEF GiveUp, Recheck, listVars
  <2>2. QED
    BY <1>1, <1>2, <2>1
<1>7. CASE Place(t)
  <2>1. /\ \A u \in Tasks \ {t} : list'[u] = list[u]
        /\ wake' = wake \/ wake' = [wake EXCEPT ![t] = (tick + left[t]) % Wrap]
    BY <1>1, <1>7 DEF Place
  <2>2. (tick + left[t]) % Wrap \in Ticks
    BY <1>1 DEF Ticks
  <2>3. ~ResumeAll(t)
    BY <1>7 DEF Place, ResumeAll, Goto
  <2>4. QED
    BY <1>1, <1>7, <2>1, <2>2, <2>3
<1>8. CASE ResumeAll(t)
  BY <1>1, <1>2, <1>8 DEF ResumeAll
<1>9. QED
  BY <1>3, <1>4, <1>5, <1>6, <1>7, <1>8 DEF Step

\* The step of another task finds no task about to wait.
LEMMA OneAtATime ==
    ASSUME TimeTyped, HolderInv, NEW t \in Tasks, Call(t) \/ Step(t),
           NEW u \in Tasks, u # t
    PROVE  pc'[u] \notin Held
<1>1. Running(t)
  BY DEF Call, Step, Transfer, GiveUp, SetTimeOut, SuspendAll, LockQueue,
     CheckForTimeOut, Test, Place, UnlockTx, UnlockRx, ResumeAll, Recheck, Goto
<1>2. pc'[u] = pc[u]
  BY OwnCall DEF Same
<1>3. u \notin suspender
  BY <1>1 DEF Running, Nobody, HolderInv
<1>4. QED
  BY <1>2, <1>3 DEF HolderInv

\* A ready task whose call has no entry time, or keeps what it has.
LEMMA ReadyPunctual ==
    ASSUME NEW t \in Tasks, list'[t] = "ready",
           entryAt'[t] = NoEntry \/ Counting(t)', JustLooked(t)'
    PROVE  Punctual(t)'
BY DEF Punctual, InTime, Timed, Counting

\* The step of a call before it waits, while the clock stands still.
LEMMA CallPunctual ==
    ASSUME TimeInv, HolderInv, LocksTyped, ListInv, ClockTyped, NEW t \in Tasks,
           Punctual(t),
           \/ Call(t) \/ Transfer(t) \/ GiveUp(t) \/ SetTimeOut(t) \/ SuspendAll(t)
           \/ LockQueue(t) \/ CheckForTimeOut(t) \/ Test(t) \/ Recheck(t)
    PROVE  Punctual(t)'
<1>1. /\ pc \in [Tasks -> PC] /\ after \in [Tasks -> {"try", "recheck", "out"}]
      /\ left \in [Tasks -> Ticks] /\ asked \in [Tasks -> Ticks]
      /\ entryAt \in [Tasks -> Ticks \cup {NoEntry}]
      /\ entryOver \in [Tasks -> 0 .. OverWrap - 1]
      /\ waited \in [Tasks -> 0 .. Wrap]
      /\ tick \in Ticks /\ over \in 0 .. OverWrap - 1 /\ TimeTyped
  BY DEF TimeInv, TimeTyped
<1>2. OnTime(t) /\ ListTyped
  BY DEF TimeInv, ListInv, Lists
<1>3. (Call(t) \/ Step(t)) /\ ~ResumeAll(t) /\ ~Place(t) /\ Running(t)
      /\ pc[t] \notin {"unlockTx", "unlockRx", "resume"}
  BY DEF Step, Call, Transfer, GiveUp, SetTimeOut, SuspendAll, LockQueue,
     CheckForTimeOut, Test, Recheck, ResumeAll, Place, Goto
<1>4. list'[t] = "ready"
  <2>1. list[t] = "ready"
    BY <1>3, RunsReady
  <2>2. list'[t] \in {list[t], "ready"}
    BY <1>1, <1>2, <1>3, ListsKept
  <2>3. QED
    BY <2>1, <2>2
<1>5. SameClock
  BY <1>1, <1>3, OwnCall
\* The data of the call stay.
<1>6. ASSUME UNCHANGED <<left, asked, entryAt, entryOver, waited>>, JustLooked(t)'
      PROVE  Punctual(t)'
  <2>1. Counting(t)'
    BY <1>5, <1>6 DEF Punctual, Counting, Since, SinceEntry, SameClock
  <2>2. QED
    BY <1>4, <1>6, <2>1, ReadyPunctual
<1>7. ASSUME Return(t) PROVE Punctual(t)'
  <2>1. entryAt'[t] = NoEntry /\ pc'[t] = "out"
    BY <1>1, <1>7 DEF Return
  <2>2. QED
    BY <1>4, <2>1, ReadyPunctual DEF JustLooked
<1>8. CASE Transfer(t) \/ GiveUp(t)
  BY <1>7, <1>8 DEF Transfer, GiveUp
<1>9. CASE Call(t)
  <2>1. entryAt'[t] = NoEntry /\ pc'[t] = "try"
    BY <1>1, <1>2, <1>9 DEF Call, Goto, OnTime, Unstarted
  <2>2. QED
    BY <1>4, <2>1, ReadyPunctual DEF JustLooked
<1>10. CASE Recheck(t)
  <2>1. CASE Return(t)
    BY <1>7, <2>1
  <2>2. CASE pc' = [pc EXCEPT ![t] = "try"]
             /\ UNCHANGED <<after, left, entryAt, entryOver, asked, waited, wake>>
    <3>1. JustLooked(t)'
      BY <1>1, <2>2 DEF JustLooked
    <3>2. QED
      BY <1>6, <2>2, <3>1
  <2>3. QED
    BY <1>10, <2>1, <2>2 DEF Recheck
<1>11. CASE SuspendAll(t) \/ LockQueue(t)
  <2>1. /\ UNCHANGED <<left, asked, entryAt, entryOver, waited>>
        /\ pc'[t] \in {"lock", "check"}
    BY <1>1, <1>11 DEF SuspendAll, LockQueue, Goto, tickVars
  <2>2. JustLooked(t)'
    BY <2>1 DEF JustLooked
  <2>3. QED
    BY <1>6, <2>1, <2>2
<1>12. CASE Test(t)
  <2>1. UNCHANGED <<left, asked, entryAt, entryOver, waited>> /\ pc[t] = "test"
    BY <1>12 DEF Test, Goto, tickVars
  <2>2. JustLooked(t)'
    BY <1>5, <2>1 DEF Punctual, JustLooked, Since, SinceEntry, SameClock
  <2>3. QED
    BY <1>6, <2>1, <2>2
<1>13. CASE SetTimeOut(t)
  <2>1. /\ pc'[t] = "suspend" /\ pc[t] = "try" /\ Running(t)
        /\ UNCHANGED <<left, asked, waited, tick, over, pendedTick>>
    BY <1>1, <1>13 DEF SetTimeOut, Goto, tickVars
  <2>2. JustLooked(t)'
    BY <2>1 DEF JustLooked
  <2>3. CASE entryAt[t] = NoEntry /\ left[t] # MaxDelay
    <3>1. entryAt'[t] = tick /\ entryOver'[t] = over
      BY <1>1, <1>13, <2>3 DEF SetTimeOut
    <3>2. pendedTick = 0
      BY <2>1 DEF Running, Held, HolderInv
    <3>3. waited[t] = 0 /\ left[t] = asked[t]
      BY <1>2, <2>3 DEF OnTime, Unstarted
    <3>4. Since(t)' = 0
      BY <1>1, <2>1, <3>1 DEF Since, SinceEntry, Ticks
    <3>5. Counting(t)'
      BY <1>1, <2>1, <2>3, <3>2, <3>3, <3>4 DEF Counting, Ticks
    <3>6. QED
      BY <1>4, <2>2, <3>5, ReadyPunctual
  <2>4. CASE ~(entryAt[t] = NoEntry /\ left[t] # MaxDelay)
    <3>1. entryAt' = entryAt /\ entryOver' = entryOver
      BY <1>13, <2>4 DEF SetTimeOut
    <3>2. QED
      BY <1>6, <2>1, <2>2, <3>1
  <2>5. QED
    BY <2>3, <2>4
<1>14. CASE CheckForTimeOut(t)
  <2>1. /\ pc[t] = "check" /\ left[t] # 0
        /\ left[t] = MaxDelay \/ entryAt[t] # NoEntry
        /\ UNCHANGED <<asked, waited, tick, over, pendedTick>>
    BY <1>2, <1>14 DEF CheckForTimeOut, Goto, tickVars, OnTime, Position
  <2>2. CASE left[t] = MaxDelay /\ UNCHANGED <<after, left, entryAt, entryOver>>
    <3>1. JustLooked(t)'
      BY <2>2 DEF JustLooked
    <3>2. QED
      BY <1>6, <2>1, <2>2, <3>1
  <2>3. CASE /\ left[t] # MaxDelay /\ ~TimedOut(t)
             /\ left' = [left EXCEPT ![t] = @ - Elapsed(t)]
             /\ entryAt' = [entryAt EXCEPT ![t] = tick]
             /\ entryOver' = [entryOver EXCEPT ![t] = over]
    <3>1. /\ left'[t] = left[t] - Elapsed(t)
          /\ entryAt'[t] = tick /\ entryOver'[t] = over
      BY <1>1, <2>3
    <3>2. entryAt[t] # NoEntry
      BY <2>1, <2>3
    <3>3. Since(t) \in 0 .. Wrap
      BY <1>1, <3>2, SinceTyped DEF Since
    <3>4. /\ ~(over # entryOver[t] /\ tick >= entryAt[t])
          /\ ~(Elapsed(t) >= left[t])
      BY <2>3 DEF TimedOut, WrappedAround
    <3>5. Since(t) < Wrap
      BY <3>2, <3>3, <3>4 DEF Punctual, Counting
    <3>6. Elapsed(t) = Since(t)
      BY <1>1, <3>2, <3>5, ElapsedExact
    <3>7. waited[t] <= asked[t] - left[t] + pendedTick + Since(t)
      BY <2>1, <3>2 DEF Punctual, Counting
    <3>8. Since(t)' = 0
      BY <1>1, <2>1, <3>1 DEF Since, SinceEntry, Ticks
    <3>9. left'[t] # 0 /\ left'[t] # MaxDelay
      BY <1>1, <2>3, <3>1, <3>3, <3>4, <3>6 DEF Ticks, MaxDelay
    <3>10. waited'[t] <= asked'[t] - left'[t] + pendedTick' + 0
      <4>1. pendedTick \in Int /\ waited[t] \in Int /\ asked[t] \in Int /\ left[t] \in Int
        BY <1>1 DEF HolderInv, Ticks
      <4>2. QED
        BY <2>1, <3>1, <3>3, <3>6, <3>7, <4>1
    <3>11. entryAt'[t] # NoEntry
      BY <1>1, <3>1 DEF Ticks, NoEntry
    <3>12. Counting(t)' /\ JustLooked(t)'
      BY <3>8, <3>9, <3>10, <3>11 DEF Counting, JustLooked
    <3>13. QED
      BY <1>4, <3>12, ReadyPunctual
  <2>4. CASE /\ TimedOut(t) /\ Goto(t, "check", UnlockFirst)
             /\ left' = [left EXCEPT ![t] = 0]
             /\ UNCHANGED <<entryAt, entryOver>>
    <3>1. left'[t] = 0 /\ pc'[t] = "unlockTx" /\ UNCHANGED <<entryAt, entryOver>>
      BY <1>1, <2>4 DEF Goto, UnlockFirst
    <3>2. Since(t)' = Since(t)
      BY <2>1, <3>1 DEF Since, SinceEntry
    <3>3. 0 # MaxDelay
      BY DEF MaxDelay
    <3>4. Counting(t)' /\ JustLooked(t)'
      BY <2>1, <3>1, <3>2, <3>3 DEF Punctual, Counting, JustLooked
    <3>5. QED
      BY <1>4, <3>4, ReadyPunctual
  <2>5. QED
    BY <1>14, <2>2, <2>3, <2>4 DEF CheckForTimeOut
<1>15. QED
  BY <1>8, <1>9, <1>10, <1>11, <1>12, <1>13, <1>14

\* A task that gets its place has its whole time to wait ahead of it.
LEMMA PlacePunctual ==
    ASSUME TimeTyped, ListTyped, ClockTyped, NEW t \in Tasks, Punctual(t), Place(t)
    PROVE  /\ Punctual(t)'
           /\ nextUnblock' \in Ticks /\ nextUnblock' <= nextUnblock
           /\ list'[t] = "delayed" => nextUnblock' <= wake'[t]
<1>1. /\ left[t] \in 0 .. Wrap - 1 /\ tick \in 0 .. Wrap - 1
      /\ wake \in [Tasks -> Ticks] /\ nextUnblock \in 0 .. Wrap - 1
      /\ list \in [Tasks -> {"ready", "delayed", "overflow", "suspended"}]
      /\ pc \in [Tasks -> PC]
  BY DEF TimeTyped, ListTyped, ClockTyped, Ticks
<1>2. /\ pc[t] = "place" /\ pc'[t] = "unlockTx"
      /\ UNCHANGED <<left, asked, entryAt, entryOver, waited, tick, over, pendedTick>>
  BY <1>1 DEF Place, Goto
<1>3. Since(t)' = Since(t)
  BY <1>2 DEF Since, SinceEntry
<1>4. Counting(t)' /\ JustLooked(t)'
  BY <1>2, <1>3 DEF Punctual, Counting, JustLooked
<1>5. CASE left[t] = MaxDelay
  <2>1. list'[t] = "suspended" /\ nextUnblock' = nextUnblock
    BY <1>1, <1>5 DEF Place
  <2>2. entryAt'[t] = NoEntry
    BY <1>2, <1>5 DEF Punctual, Counting
  <2>3. InTime(t)'
    BY <2>1, <2>2 DEF InTime, Timed
  <2>4. QED
    BY <1>1, <1>4, <2>1, <2>3 DEF Punctual, Ticks
<1>6. CASE left[t] # MaxDelay
  <2> DEFINE time == (tick + left[t]) % Wrap
  <2>1. entryAt[t] # NoEntry /\ left[t] # 0 /\ Since(t) = 0
    BY <1>2, <1>6 DEF Punctual, JustLooked
  <2>2. time = IF tick + left[t] < Wrap THEN tick + left[t] ELSE tick + left[t] - Wrap
    <3>1. PICK x \in 0 .. 2 * Wrap - 1 : x = tick + left[t]
      BY <1>1
    <3>2. x % Wrap = IF x < Wrap THEN x ELSE x - Wrap
      <4>1. Wrap \in Nat \ {0}
        OBVIOUS
      <4>2. QED
        BY <4>1, ModTurn
    <3>3. QED
      BY <1>1, <3>1, <3>2
  <2>3. time \in 0 .. Wrap - 1
    BY <1>1, <2>2
  <2>4. /\ wake'[t] = time
        /\ list'[t] = IF time < tick THEN "overflow" ELSE "delayed"
        /\ nextUnblock' = IF list'[t] = "delayed" THEN Lesser(wake'[t], nextUnblock)
                          ELSE nextUnblock
    BY <1>1, <1>6 DEF Place, DelayedList
  <2> HIDE DEF time
  <2>5. CASE tick + left[t] < Wrap
    <3>1. time = tick + left[t] /\ list'[t] = "delayed"
      BY <1>1, <2>2, <2>4, <2>5
    <3>2. wake'[t] > tick' /\ Ahead(t)' = left[t]
      BY <1>1, <1>2, <2>1, <2>4, <3>1 DEF Ahead
    <3>3. Since(t)' + Ahead(t)' = left'[t]
      BY <1>1, <1>2, <1>3, <2>1, <3>2
    <3>4. InTime(t)'
      BY <1>2, <2>1, <3>1, <3>2, <3>3 DEF InTime, Timed
    <3>5. /\ nextUnblock' \in 0 .. Wrap - 1 /\ nextUnblock' <= nextUnblock
          /\ nextUnblock' <= wake'[t]
      BY <1>1, <2>3, <2>4, <3>1 DEF Lesser
    <3>6. QED
      BY <1>4, <3>4, <3>5 DEF Punctual, Ticks
  <2>6. CASE ~(tick + left[t] < Wrap)
    <3>1. time = tick + left[t] - Wrap /\ time < tick /\ list'[t] = "overflow"
      BY <1>1, <2>2, <2>4, <2>6
    <3>2. wake'[t] < tick' /\ Ahead(t)' = left[t]
      BY <1>1, <1>2, <2>4, <3>1 DEF Ahead
    <3>3. Since(t)' + Ahead(t)' = left'[t]
      BY <1>1, <1>2, <1>3, <2>1, <3>2
    <3>4. InTime(t)'
      BY <1>2, <2>1, <3>1, <3>2, <3>3 DEF InTime, Timed
    <3>5. QED
      BY <1>1, <1>4, <2>4, <3>1, <3>4 DEF Punctual, Ticks
  <2>7. QED
    BY <2>5, <2>6
<1>7. QED
  BY <1>5, <1>6

\* No call has been left alone for a whole turn of the clock when a tick is
\* counted.
LEMMA InTurn ==
    ASSUME TimeTyped, ClockTyped, ListTyped, NEW u \in Tasks, Punctual(u),
           Patient(u) \/ pendedTick = 1, entryAt[u] # NoEntry
    PROVE  Since(u) < Wrap
<1>1. entryAt[u] \in Ticks /\ entryOver[u] \in 0 .. OverWrap - 1
      /\ entryAt[u] \in Int /\ tick \in Int
  BY DEF TimeTyped, Ticks
<1>2. Since(u) \in 0 .. Wrap
  BY <1>1, SinceTyped DEF Since
<1>3. CASE pendedTick = 1
  BY <1>3 DEF Punctual, Counting
<1>4. CASE Patient(u) /\ list[u] = "ready"
  <2>1. ~(over # entryOver[u] /\ tick >= entryAt[u])
    BY <1>1, <1>4 DEF Patient
  <2>2. Since(u) # Wrap
    BY <2>1 DEF Punctual, Counting
  <2>3. QED
    BY <1>2, <2>2
<1>5. CASE list[u] # "ready"
  <2>1. Timed(u)
    BY <1>5 DEF Punctual, InTime, Timed, ListTyped
  <2>2. QED
    BY <2>1, TimedInTurn DEF Punctual
<1>6. QED
  BY <1>3, <1>4, <1>5

LEMMA LateStart == Init => LateInv
<1> SUFFICES ASSUME Init PROVE LateInv
  OBVIOUS
<1>1. ClockTyped /\ CacheInv
  BY DEF Init, ClockTyped, CacheInv, Ticks, MaxDelay
<1>2. ASSUME NEW t \in Tasks PROVE Punctual(t)
  <2>1. list[t] = "ready" /\ entryAt[t] = NoEntry /\ pc[t] = "out"
    BY DEF Init
  <2>2. QED
    BY <2>1 DEF Punctual, InTime, Timed, Counting, JustLooked
<1>3. QED
  BY <1>1, <1>2 DEF LateInv

\* The tasks' steps but for the one that resumes the scheduler.
LEMMA StandingStep ==
    ASSUME TimeInv, HolderInv, LocksTyped, ListInv, LateInv, NEW t \in Tasks,
           Call(t) \/ Step(t), ~ResumeAll(t)
    PROVE  LateInv'
<1>1. /\ TimeTyped /\ ListTyped /\ ClockTyped /\ CacheInv
      /\ \A u \in Tasks : Punctual(u)
      /\ wake \in [Tasks -> Ticks] /\ nextUnblock \in Ticks
  BY DEF TimeInv, ListInv, Lists, LateInv, ClockTyped
<1>2. /\ \A u \in Tasks \ {t} : Same(u) /\ waited'[u] = waited[u]
      /\ SameClock
  BY <1>1, OwnCall
<1>3. /\ \A u \in Tasks \ {t} : wake'[u] = wake[u]
      /\ wake' \in [Tasks -> Ticks]
      /\ \A u \in Tasks : u # t \/ ~Place(t) => list'[u] \in {list[u], "ready"}
      /\ ~Place(t) => nextUnblock' = nextUnblock
  BY <1>1, ListsKept
<1>4. ASSUME NEW u \in Tasks \ {t} PROVE Punctual(u)'
  BY <1>1, <1>2, <1>3, StillPunctual DEF Same
<1>5. CASE Place(t)
  <2>1. /\ Punctual(t)'
        /\ nextUnblock' \in Ticks /\ nextUnblock' <= nextUnblock
        /\ list'[t] = "delayed" => nextUnblock' <= wake'[t]
    BY <1>1, <1>5, PlacePunctual
  <2>2. ASSUME NEW u \in Tasks \ {t}, list'[u] = "delayed"
        PROVE  nextUnblock' <= wake'[u]
    <3>1. list[u] = "delayed" /\ wake'[u] = wake[u]
      BY <1>3, <2>2
    <3>2. nextUnblock <= wake[u] /\ wake[u] \in Int /\ nextUnblock \in Int
      BY <1>1, <3>1 DEF CacheInv, Ticks
    <3>3. nextUnblock' \in Int
      BY <2>1 DEF Ticks
    <3>4. QED
      BY <2>1, <3>1, <3>2, <3>3
  <2>3. QED
    BY <1>3, <1>4, <2>1, <2>2 DEF LateInv, ClockTyped, CacheInv
<1>6. CASE ~Place(t)
  <2>1. Punctual(t)' /\ (list'[t] = "delayed" => wake'[t] = wake[t])
    <3>1. CASE UnlockTx(t) \/ UnlockRx(t)
      <4>1. /\ UNCHANGED <<left, asked, entryAt, entryOver, waited, wake>>
            /\ pc'[t] \in {"unlockRx", "resume"}
        BY <1>1, <3>1 DEF UnlockTx, UnlockRx, Goto, tickVars, TimeTyped
      <4>2. Punctual(t)'
        BY <1>1, <1>2, <1>3, <1>6, <4>1, StillPunctual
      <4>3. QED
        BY <4>1, <4>2
    <3>2. CASE ~(UnlockTx(t) \/ UnlockRx(t))
      <4>1. \/ Call(t) \/ Transfer(t) \/ GiveUp(t) \/ SetTimeOut(t) \/ SuspendAll(t)
            \/ LockQueue(t) \/ CheckForTimeOut(t) \/ Test(t) \/ Recheck(t)
        BY <1>6, <3>2 DEF Step
      <4>2. Punctual(t)'
        BY <1>1, <4>1, CallPunctual
      <4>3. Running(t) /\ pc[t] \notin {"unlockTx", "unlockRx", "resume"}
        BY <4>1 DEF Call, Transfer, GiveUp, SetTimeOut, SuspendAll, LockQueue,
           CheckForTimeOut, Test, Recheck, Goto
      <4>4. list[t] = "ready"
        BY <4>3, RunsReady
      <4>5. QED
        BY <1>3, <1>6, <4>2, <4>4
    <3>3. QED
      BY <3>1, <3>2
  <2>2. CacheInv'
    BY <1>1, <1>3, <1>6, <2>1 DEF CacheInv
  <2>3. QED
    BY <1>1, <1>3, <1>4, <1>6, <2>1, <2>2 DEF LateInv, ClockTyped
<1>7. QED
  BY <1>5, <1>6

\* The scheduler resumes, with a tick to make up for or without.
LEMMA ResumeStep ==
    ASSUME TimeInv, HolderInv, LocksTyped, ListInv, LateInv, NEW t \in Tasks,
           ResumeAll(t)
    PROVE  LateInv'
<1>1. /\ TimeTyped /\ ListTyped /\ ClockTyped /\ CacheInv
      /\ \A u \in Tasks : Punctual(u)
      /\ wake \in [Tasks -> Ticks] /\ nextUnblock \in Ticks
  BY DEF TimeInv, ListInv, Lists, LateInv, ClockTyped
<1>2. \A u \in Tasks \ {t} : Same(u) /\ waited'[u] = waited[u]
  BY <1>1, OwnCall DEF Step
<1>3. /\ \A u \in Tasks \ {t} : wake'[u] = wake[u]
      /\ wake' \in [Tasks -> Ticks]
  BY <1>1, ListsKept DEF Step
<1>4. \A u \in Tasks : list'[u] # "ready" => list[u] # "ready"
  <2>1. ~Place(t)
    BY DEF ResumeAll, Place, Goto
  <2>2. QED
    BY <1>1, <2>1, ListsOf DEF Step, NoneLeaves
<1>5. pendedTick \in 0 .. 1 /\ pendedTick' = 0
  BY DEF HolderInv, ResumeAll
\* The call of t ends, or goes on with its data.
<1>6. \/ Return(t) /\ list'[t] = "ready"
      \/ /\ UNCHANGED <<left, asked, entryAt, entryOver, waited, wake>>
         /\ pc'[t] \notin {"test", "place"}
  <2>1. CASE after[t] = "out" /\ Return(t)
    <3>1. ~Again(t)
      BY <2>1 DEF ResumeAll, Again
    <3>2. list[t] = "ready"
      BY <3>1 DEF ListInv, Places
    <3>3. QED
      BY <1>4, <2>1, <3>2
  <2>2. CASE /\ pc' = [pc EXCEPT ![t] = after[t]]
             /\ UNCHANGED <<after, left, entryAt, entryOver, asked, waited, wake>>
    BY <1>1, <2>2 DEF TimeTyped
  <2>3. QED
    BY <2>1, <2>2 DEF ResumeAll
<1>7. ASSUME Return(t), list'[t] = "ready" PROVE Punctual(t)'
  <2>1. entryAt'[t] = NoEntry /\ pc'[t] = "out"
    BY <1>1, <1>7 DEF Return, TimeTyped
  <2>2. QED
    BY <1>7, <2>1, ReadyPunctual DEF JustLooked
<1>8. \A u \in Tasks : \/ Return(t) /\ u = t /\ list'[u] = "ready"
                       \/ /\ left'[u] = left[u] /\ asked'[u] = asked[u]
                          /\ waited'[u] = waited[u] /\ wake'[u] = wake[u]
                          /\ entryAt'[u] = entryAt[u] /\ entryOver'[u] = entryOver[u]
  BY <1>2, <1>3, <1>6 DEF Same
<1>9. \A u \in Tasks : pc'[u] \notin {"test", "place"}
  <2>1. \A u \in Tasks \ {t} : pc'[u] \notin Held
    BY <1>1, OneAtATime DEF Step
  <2>2. Return(t) => pc'[t] = "out"
    BY <1>1 DEF Return, TimeTyped
  <2>3. QED
    BY <1>6, <2>1, <2>2 DEF Held
<1>10. \A u \in Tasks : JustLooked(u)'
  BY <1>9 DEF JustLooked
<1>11. CASE pendedTick = 1
  <2>1. IncrementTick(PendingTasks)
    BY <1>11 DEF ResumeAll
  <2>2. \A u \in Tasks : InTime(u)
    BY <1>1 DEF Punctual
  <2>3. ASSUME NEW u \in Tasks PROVE Punctual(u)'
    <3>1. CASE Return(t) /\ u = t /\ list'[u] = "ready"
      BY <1>7, <3>1
    <3>2. CASE /\ left'[u] = left[u] /\ asked'[u] = asked[u]
               /\ waited'[u] = waited[u] /\ wake'[u] = wake[u]
               /\ entryAt'[u] = entryAt[u] /\ entryOver'[u] = entryOver[u]
      <4>1. Punctual(u) /\ Counting(u)
        BY <1>1 DEF Punctual
      <4>2. entryAt[u] # NoEntry => Since(u) < Wrap
        BY <1>1, <1>11, <4>1, InTurn
      <4>3. InTime(u)' /\ Counting(u)'
        BY <1>1, <1>5, <1>11, <2>1, <2>2, <3>2, <4>1, <4>2, TickInTime
      <4>4. QED
        BY <1>10, <4>3 DEF Punctual
    <3>3. QED
      BY <1>8, <3>1, <3>2
  <2>4. /\ nextUnblock' \in Ticks
        /\ \A u \in Tasks : list'[u] = "delayed" => nextUnblock' <= wake[u]
    BY <1>1, <2>1, <2>2, TickCache
  <2>5. CacheInv'
    BY <1>8, <2>4 DEF CacheInv
  <2>6. QED
    BY <1>3, <2>3, <2>4, <2>5 DEF LateInv, ClockTyped
<1>12. CASE pendedTick = 0
  <2>1. /\ list' = [u \in Tasks |-> IF u \in PendingTasks THEN "ready" ELSE list[u]]
        /\ nextUnblock' = IF PendingTasks = {} THEN nextUnblock ELSE Earliest(list')
        /\ UNCHANGED <<tick, over>>
    BY <1>12 DEF ResumeAll
  <2>2. SameClock
    BY <1>5, <1>12, <2>1 DEF SameClock
  <2>3. \A u \in Tasks : list'[u] \in {list[u], "ready"}
    BY <2>1
  <2>4. ASSUME NEW u \in Tasks PROVE Punctual(u)'
    <3>1. CASE Return(t) /\ u = t /\ list'[u] = "ready"
      BY <1>7, <3>1
    <3>2. CASE /\ left'[u] = left[u] /\ asked'[u] = asked[u]
               /\ waited'[u] = waited[u] /\ wake'[u] = wake[u]
               /\ entryAt'[u] = entryAt[u] /\ entryOver'[u] = entryOver[u]
      BY <1>1, <1>9, <2>2, <2>3, <3>2, StillPunctual
    <3>3. QED
      BY <1>8, <3>1, <3>2
  <2>5. /\ nextUnblock' \in Ticks
        /\ \A u \in Tasks : list'[u] = "delayed" => nextUnblock' <= wake[u]
    <3>1. CASE PendingTasks = {}
      <4>1. nextUnblock' = nextUnblock
        BY <2>1, <3>1
      <4>2. \A u \in Tasks : list'[u] = "delayed" => list[u] = "delayed"
        BY <2>3
      <4>3. QED
        BY <1>1, <4>1, <4>2 DEF CacheInv
    <3>2. CASE PendingTasks # {}
      <4>1. nextUnblock' = Earliest(list')
        BY <2>1, <3>2
      <4>2. PICK lists : lists = list'
        OBVIOUS
      <4>3. /\ Earliest(lists) \in Ticks
            /\ \A u \in Delayed(lists) : Earliest(lists) <= wake[u]
        BY <1>1, EarliestLeast
      <4>4. QED
        BY <4>1, <4>2, <4>3 DEF Delayed
    <3>3. QED
      BY <3>1, <3>2
  <2>6. CacheInv'
    BY <1>8, <2>5 DEF CacheInv
  <2>7. QED
    BY <1>3, <2>4, <2>5, <2>6 DEF LateInv, ClockTyped
<1>13. QED
  BY <1>5, <1>11, <1>12

\* A tick, counted or pended.
LEMMA TickStep ==
    ASSUME TimeInv, HolderInv, ListInv, LateInv, Tick
    PROVE  LateInv'
<1>1. /\ TimeTyped /\ ListTyped /\ ClockTyped /\ CacheInv
      /\ \A u \in Tasks : Punctual(u)
      /\ wake \in [Tasks -> Ticks] /\ nextUnblock \in Ticks
  BY DEF TimeInv, ListInv, Lists, LateInv, ClockTyped
<1>2. /\ UNCHANGED callVars /\ wake' = wake
      /\ \A u \in Tasks : waited'[u] \in {waited[u], waited[u] + 1}
      /\ \A u \in Tasks : Patient(u)
  BY DEF Tick, Aged
<1>3. pendedTick \in 0 .. 1 /\ (pendedTick = 1 => suspender # Nobody)
  BY DEF HolderInv
<1>4. \A u \in Tasks : entryAt[u] # NoEntry => Since(u) < Wrap
  BY <1>1, <1>2, InTurn
<1>5. CASE suspender = Nobody
  <2>1. IncrementTick({}) /\ pendedTick' = 0 /\ pendedTick = 0
    BY <1>3, <1>5 DEF Tick
  <2>2. \A u \in Tasks : InTime(u) /\ Counting(u)
    BY <1>1 DEF Punctual
  <2>3. ASSUME NEW u \in Tasks PROVE InTime(u)' /\ Counting(u)'
    BY <1>1, <1>2, <1>4, <2>1, <2>2, TickInTime DEF callVars
  <2>4. \A u \in Tasks : pc'[u] \notin {"test", "place"}
    BY <1>2, <1>5 DEF HolderInv, Held, Nobody, callVars
  <2>5. \A u \in Tasks : Punctual(u)'
    BY <2>3, <2>4 DEF Punctual, JustLooked
  <2>6. /\ nextUnblock' \in Ticks
        /\ \A u \in Tasks : list'[u] = "delayed" => nextUnblock' <= wake[u]
    BY <1>1, <2>1, <2>2, TickCache
  <2>7. QED
    BY <1>1, <1>2, <2>5, <2>6 DEF LateInv, ClockTyped, CacheInv
<1>6. CASE suspender # Nobody
  <2>1. /\ pendedTick = 0 /\ pendedTick' = 1
        /\ UNCHANGED <<tick, over, nextUnblock, list>>
    BY <1>6 DEF Tick, listVars
  <2>2. ASSUME NEW u \in Tasks PROVE Punctual(u)'
    <3>1. /\ Punctual(u) /\ left[u] \in Int /\ asked[u] \in Int /\ waited[u] \in Int
          /\ entryAt[u] \in Ticks \cup {NoEntry} /\ entryOver[u] \in 0 .. OverWrap - 1
      BY <1>1 DEF TimeTyped, Ticks
    <3>2. Since(u)' = Since(u) /\ Ahead(u)' = Ahead(u)
      BY <1>2, <2>1 DEF Since, SinceEntry, Ahead, callVars
    <3>3. InTime(u)' /\ JustLooked(u)'
      BY <1>2, <2>1, <3>1, <3>2 DEF Punctual, InTime, Timed, JustLooked, callVars
    <3>4. entryAt[u] # NoEntry => Since(u) \in Int
      BY <1>1, <3>1, SinceTyped DEF Since
    <3>5. ASSUME entryAt[u] # NoEntry, left[u] # 0
          PROVE  waited'[u] <= asked[u] - left[u] + 1 + Since(u)
      <4>1. waited[u] <= asked[u] - left[u] + 0 + Since(u)
        BY <2>1, <3>1, <3>5 DEF Punctual, Counting
      <4>2. QED
        BY <1>2, <3>1, <3>4, <3>5, <4>1
    <3>6. Counting(u)'
      BY <1>2, <1>4, <2>1, <3>1, <3>2, <3>5 DEF Punctual, Counting, callVars
    <3>7. QED
      BY <3>3, <3>6 DEF Punctual
  <2>3. QED
    BY <1>1, <1>2, <2>1, <2>2 DEF LateInv, ClockTyped, CacheInv
<1>7. QED
  BY <1>5, <1>6

LEMMA LateStep ==
    TimeInv /\ HolderInv /\ LocksTyped /\ ListInv /\ LateInv /\ [Next]_vars => LateInv'
<1> SUFFICES ASSUME TimeInv, HolderInv, LocksTyped, ListInv, LateInv, [Next]_vars
             PROVE  LateInv'
  OBVIOUS
<1>1. /\ ListTyped /\ ClockTyped /\ CacheInv /\ \A u \in Tasks : Punctual(u)
  BY DEF ListInv, Lists, LateInv
<1>2. ASSUME NEW t \in Tasks, Call(t) \/ Step(t) PROVE LateInv'
  BY <1>2, StandingStep, ResumeStep
<1>3. CASE Tick
  BY <1>3, TickStep
<1>4. CASE SendFromISR \/ UNCHANGED vars
  <2>1. /\ UNCHANGED <<pc, left, asked, entryAt, entryOver, waited, wake, nextUnblock>>
        /\ SameClock
    BY <1>4 DEF SendFromISR, vars, callVars, tickVars, SameClock
  <2>2. ASSUME NEW u \in Tasks PROVE list'[u] \in {list[u], "ready"}
    <3>1. WakeReceivers(1) \/ list' = list
      BY <1>4 DEF SendFromISR, vars, listVars
    <3>2. QED
      BY <1>1, <3>1, WakingKeeps
  <2>3. \A u \in Tasks : Punctual(u)'
    BY <1>1, <2>1, <2>2, StillPunctual
  <2>4. CacheInv'
    BY <1>1, <2>1, <2>2 DEF CacheInv
  <2>5. QED
    BY <1>1, <2>1, <2>3, <2>4 DEF LateInv, ClockTyped
<1>5. QED
  BY <1>2, <1>3, <1>4 DEF Next

\* Whoever waits in a delayed list has time left, and the list that counts to the
\* end of the clock is empty when it gets there.
LEMMA LateGives ==
    ASSUME TimeInv, HolderInv, LateInv
    PROVE  NeverLate /\ SwitchFindsNobody
<1>1. /\ TimeTyped /\ ClockTyped /\ \A u \in Tasks : Punctual(u)
      /\ tick \in 0 .. Wrap - 1 /\ \A u \in Tasks : wake[u] \in 0 .. Wrap - 1
  BY DEF TimeInv, LateInv, TimeTyped, ClockTyped, Ticks
<1>2. ASSUME NEW t \in Tasks, suspender = Nobody, Timed(t)
      PROVE  waited[t] < asked[t]
  <2>1. /\ left[t] \in Int /\ asked[t] \in Int /\ waited[t] \in Int
        /\ entryAt[t] \in Ticks \cup {NoEntry} /\ entryOver[t] \in 0 .. OverWrap - 1
    BY <1>1 DEF TimeTyped, Ticks
  <2>2. entryAt[t] # NoEntry /\ left[t] # 0 /\ Since(t) + Ahead(t) = left[t]
    BY <1>1, <1>2 DEF Punctual, InTime
  <2>3. Since(t) \in Int
    BY <1>1, <2>1, <2>2, SinceTyped DEF Since
  <2>4. Ahead(t) \in Int /\ Ahead(t) > 0
    BY <1>1, <1>2 DEF Punctual, InTime, Timed, Ahead
  <2>5. pendedTick = 0
    BY <1>2 DEF HolderInv
  <2>6. waited[t] <= asked[t] - left[t] + 0 + Since(t)
    BY <1>1, <2>2, <2>5 DEF Punctual, Counting
  <2>7. QED
    BY <2>1, <2>2, <2>3, <2>4, <2>6
<1>3. ASSUME NEW t \in Tasks, NextTick = 0, list[t] = "delayed" PROVE FALSE
  <2>1. tick = Wrap - 1
    BY <1>1, <1>3, CountOn DEF NextTick
  <2>2. wake[t] > tick
    BY <1>1, <1>3 DEF Punctual, InTime
  <2>3. QED
    BY <1>1, <2>1, <2>2
<1>4. QED
  BY <1>2, <1>3 DEF NeverLate, SwitchFindsNobody, Delayed, Timed

LEMMA TypesAgree ==
    ASSUME TimeTyped, HolderInv, RingInv, LocksTyped, ListInv, LateInv
    PROVE  TypeOK
BY DEF TypeOK, TimeTyped, HolderInv, RingInv, RingTyped, LocksTyped, ListInv,
   Lists, ListTyped, LateInv, ClockTyped

LEMMA ListsAlways ==
    Spec => [](TimeInv /\ HolderInv /\ LockInv /\ LocksTyped /\ ListInv /\ LateInv)
<1> DEFINE All == TimeInv /\ HolderInv /\ LockInv /\ LocksTyped /\ ListInv /\ LateInv
<1>1. Init => All
  BY TimeStart, HolderStart, LockStart, LocksStart, ListStart, LateStart
<1>2. All /\ [Next]_vars => All'
  <2>1. TimeInv => TimeTyped
    BY DEF TimeInv
  <2>2. QED
    BY <2>1, TimeStep, HolderStep, LockStep, LocksStep, ListStep, LateStep
<1>3. QED
  BY <1>1, <1>2, PTL DEF Spec

\* The locks, the event lists, the delayed lists and the clock agree: a task is in
\* the list its state says, nobody waits in a delayed list when its time has
\* passed, whatever the overflows of the tick count and the pended ticks, and the
\* list that is put aside at an overflow is empty.
THEOREM KernelListsAgree == Spec => []ListsAgree
<1>1. TimeInv /\ HolderInv /\ LockInv /\ LocksTyped /\ ListInv /\ LateInv /\ RingInv
         => ListsAgree
  <2>1. TimeInv => TimeTyped
    BY DEF TimeInv
  <2>2. LockInv => LockDiscipline
    BY DEF LockInv
  <2>3. QED
    BY <2>1, <2>2, TypesAgree, ListsAreOne, LateGives DEF ListsAgree
<1>2. QED
  BY <1>1, ListsAlways, RingAlways, PTL

-----------------------------------------------------------------------------
(* Part 2: the memory of plays *)

HIDE LengthAssumption
HIDE TicksAssumption
HIDE TasksAssumption

(* Lists: a piece exchanged for one element, and one element left out *)

Joined(r, p, q) ==
    /\ Len(r) = Len(p) + Len(q)
    /\ DOMAIN r = 1 .. Len(r)
    /\ \A i \in 1 .. Len(p) : r[i] = p[i]
    /\ \A i \in 1 .. Len(q) : r[Len(p) + i] = q[i]

LEMMA Glue ==
    ASSUME NEW E, NEW p \in Seq(E), NEW q \in Seq(E)
    PROVE  p \o q \in Seq(E) /\ Joined(p \o q, p, q)
<1> DEFINE r == p \o q
<1>1. Len(p) \in Nat /\ Len(q) \in Nat
  OBVIOUS
<1>2. /\ r \in Seq(E) /\ Len(r) = Len(p) + Len(q)
      /\ \A i \in 1 .. Len(p) + Len(q) :
            r[i] = IF i <= Len(p) THEN p[i] ELSE q[i - Len(p)]
  BY ConcatProperties
<1> HIDE DEF r
<1>3. DOMAIN r = 1 .. Len(r)
  BY <1>2
<1>4. ASSUME NEW i \in 1 .. Len(p) PROVE r[i] = p[i]
  <2>1. i \in 1 .. Len(p) + Len(q) /\ i <= Len(p)
    BY <1>1
  <2>2. QED
    BY <1>2, <2>1
<1>5. ASSUME NEW i \in 1 .. Len(q) PROVE r[Len(p) + i] = q[i]
  <2>1. /\ Len(p) + i \in 1 .. Len(p) + Len(q)
        /\ ~(Len(p) + i <= Len(p)) /\ Len(p) + i - Len(p) = i
    BY <1>1
  <2>2. QED
    BY <1>2, <2>1
<1>6. r \in Seq(E) /\ Joined(r, p, q)
  BY <1>2, <1>3, <1>4, <1>5 DEF Joined
<1>7. QED
  BY <1>6 DEF r

LEMMA Piece ==
    ASSUME NEW E, NEW s \in Seq(E),
           NEW a \in 0 .. Len(s), NEW b \in 1 .. Len(s) + 1
    PROVE  /\ SubSeq(s, 1, a) \in Seq(E) /\ Len(SubSeq(s, 1, a)) = a
           /\ \A i \in 1 .. a : SubSeq(s, 1, a)[i] = s[i]
           /\ SubSeq(s, b, Len(s)) \in Seq(E)
           /\ Len(SubSeq(s, b, Len(s))) = Len(s) + 1 - b
           /\ \A i \in 1 .. Len(s) + 1 - b :
                 SubSeq(s, b, Len(s))[i] = s[i + b - 1]
<1>1. Len(s) \in Nat /\ \A i \in 1 .. Len(s) : s[i] \in E
  OBVIOUS
<1>2. \A i \in 1 .. a : s[i] \in E
  BY <1>1
<1>3. \A i \in b .. Len(s) : s[i] \in E
  BY <1>1
<1>4. QED
  BY <1>1, <1>2, <1>3, SubSeqProperties

\* r is the list s with the blocks between a and b exchanged for w.
Spliced(r, s, a, w, b) ==
    /\ Len(r) = a + 1 + (Len(s) + 1 - b) /\ DOMAIN r = 1 .. Len(r)
    /\ \A i \in 1 .. a : r[i] = s[i]
    /\ r[a + 1] = w
    /\ \A i \in b .. Len(s) : r[a + 2 + i - b] = s[i]

LEMMA Splice ==
    ASSUME NEW E, NEW s \in Seq(E), NEW w \in E,
           NEW a \in 0 .. Len(s), NEW b \in a + 1 .. Len(s) + 1
    PROVE  LET r == SubSeq(s, 1, a) \o <<w>> \o SubSeq(s, b, Len(s))
           IN  r \in Seq(E) /\ Spliced(r, s, a, w, b)
<1> DEFINE p == SubSeq(s, 1, a)
           q == SubSeq(s, b, Len(s))
<1>1. Len(s) \in Nat /\ b \in 1 .. Len(s) + 1
  OBVIOUS
<1>2. /\ p \in Seq(E) /\ Len(p) = a /\ \A i \in 1 .. a : p[i] = s[i]
      /\ q \in Seq(E) /\ Len(q) = Len(s) + 1 - b
      /\ \A i \in 1 .. Len(s) + 1 - b : q[i] = s[i + b - 1]
  BY <1>1, Piece
<1>3. p = SubSeq(s, 1, a) /\ q = SubSeq(s, b, Len(s))
  OBVIOUS
<1> HIDE DEF p, q
<1>4. <<w>> \in Seq(E)
  OBVIOUS
<1> DEFINE o == <<w>>
           m == p \o o
           r == m \o q
<1> HIDE DEF o
<1>5. m \in Seq(E) /\ Joined(m, p, o)
  BY <1>2, <1>4, Glue DEF o
<1>6. r \in Seq(E) /\ Joined(r, m, q)
  BY <1>2, <1>5, Glue
<1>7. r = SubSeq(s, 1, a) \o <<w>> \o SubSeq(s, b, Len(s))
  BY <1>3 DEF o
<1> HIDE DEF m, r
<1>8. /\ Len(m) = a + 1 /\ \A i \in 1 .. a : m[i] = p[i]
      /\ m[a + 1] = w
  <2>1. o[1] = w /\ Len(o) = 1
    BY DEF o
  <2>2. QED
    BY <1>2, <1>5, <2>1 DEF Joined
<1>9. /\ Len(r) = a + 1 + (Len(s) + 1 - b) /\ DOMAIN r = 1 .. Len(r)
      /\ \A i \in 1 .. a + 1 : r[i] = m[i]
      /\ \A i \in 1 .. Len(q) : r[a + 1 + i] = q[i]
  BY <1>2, <1>6, <1>8 DEF Joined
<1>10. ASSUME NEW i \in 1 .. a PROVE r[i] = s[i]
  BY <1>1, <1>2, <1>8, <1>9
<1>11. r[a + 1] = w
  BY <1>1, <1>8, <1>9
<1>12. ASSUME NEW i \in b .. Len(s) PROVE r[a + 2 + i - b] = s[i]
  <2>1. i + 1 - b \in 1 .. Len(s) + 1 - b
        /\ a + 1 + (i + 1 - b) = a + 2 + i - b
        /\ i + 1 - b + b - 1 = i
    BY <1>1
  <2>2. r[a + 1 + (i + 1 - b)] = q[i + 1 - b] /\ q[i + 1 - b] = s[i + 1 - b + b - 1]
    BY <1>2, <1>9, <2>1
  <2>3. QED
    BY <2>1, <2>2
<1>13. r \in Seq(E) /\ Spliced(r, s, a, w, b)
  BY <1>6, <1>9, <1>10, <1>11, <1>12 DEF Spliced
<1>14. QED
  BY <1>7, <1>13

\* r is the list s without its block k.
WithoutBlock(r, s, k) ==
    /\ Len(r) = Len(s) - 1 /\ DOMAIN r = 1 .. Len(r)
    /\ \A i \in 1 .. k - 1 : r[i] = s[i]
    /\ \A i \in k + 1 .. Len(s) : r[i - 1] = s[i]

LEMMA CutOut ==
    ASSUME NEW E, NEW s \in Seq(E), NEW k \in 1 .. Len(s)
    PROVE  LET r == SubSeq(s, 1, k - 1) \o SubSeq(s, k + 1, Len(s))
           IN  r \in Seq(E) /\ WithoutBlock(r, s, k)
<1> DEFINE p == SubSeq(s, 1, k - 1)
           q == SubSeq(s, k + 1, Len(s))
<1>1. Len(s) \in Nat /\ k - 1 \in 0 .. Len(s) /\ k + 1 \in 1 .. Len(s) + 1
      /\ Len(s) + 1 - (k + 1) = Len(s) - k
  OBVIOUS
<1>2. /\ p \in Seq(E) /\ Len(p) = k - 1 /\ \A i \in 1 .. k - 1 : p[i] = s[i]
      /\ q \in Seq(E) /\ Len(q) = Len(s) - k
      /\ \A i \in 1 .. Len(s) - k : q[i] = s[i + (k + 1) - 1]
  BY <1>1, Piece
<1>3. p = SubSeq(s, 1, k - 1) /\ q = SubSeq(s, k + 1, Len(s))
  OBVIOUS
<1> HIDE DEF p, q
<1> DEFINE r == p \o q
<1>4. r \in Seq(E) /\ Joined(r, p, q)
  BY <1>2, Glue
<1>5. r = SubSeq(s, 1, k - 1) \o SubSeq(s, k + 1, Len(s))
  BY <1>3
<1> HIDE DEF r
<1>6. /\ Len(r) = Len(s) - 1 /\ DOMAIN r = 1 .. Len(r)
      /\ \A i \in 1 .. k - 1 : r[i] = p[i]
      /\ \A i \in 1 .. Len(s) - k : r[k - 1 + i] = q[i]
  <2>1. k - 1 + (Len(s) - k) = Len(s) - 1
    BY <1>1
  <2>2. QED
    BY <1>2, <1>4, <2>1 DEF Joined
<1>7. ASSUME NEW i \in 1 .. k - 1 PROVE r[i] = s[i]
  BY <1>2, <1>6
<1>8. ASSUME NEW i \in k + 1 .. Len(s) PROVE r[i - 1] = s[i]
  <2>1. /\ i - k \in 1 .. Len(s) - k
        /\ k - 1 + (i - k) = i - 1 /\ i - k + (k + 1) - 1 = i
    BY <1>1
  <2>2. r[k - 1 + (i - k)] = q[i - k] /\ q[i - k] = s[i - k + (k + 1) - 1]
    BY <1>2, <1>6, <2>1
  <2>3. QED
    BY <2>1, <2>2
<1>9. r \in Seq(E) /\ WithoutBlock(r, s, k)
  BY <1>4, <1>6, <1>7, <1>8 DEF WithoutBlock
<1>10. QED
  BY <1>5, <1>9

-----------------------------------------------------------------------------
(* The free list *)

Blocks == [at : Nat, size : Nat \ {0}]

\* In the order of the addresses, no two touching.
Apart(blocks) ==
    \A i, j \in DOMAIN blocks :
       i < j => blocks[i].at + blocks[i].size < blocks[j].at

Cover(blocks) == UNION {UnitsOf(blocks[i].at, blocks[i].size) : i \in DOMAIN blocks}

LEMMA CoverIs ==
    ASSUME NEW blocks, NEW u
    PROVE  u \in Cover(blocks) <=>
             \E i \in DOMAIN blocks : u \in UnitsOf(blocks[i].at, blocks[i].size)
BY DEF Cover

\* The blocks in front of an address are the first ones.
LEMMA InFrontIs ==
    ASSUME NEW blocks \in Seq(Blocks), Apart(blocks), NEW at \in Nat
    PROVE  \E k \in 0 .. Len(blocks) :
              /\ Cardinality(InFront(blocks, at)) = k
              /\ InFront(blocks, at) = 1 .. k
<1>1. Len(blocks) \in Nat /\ DOMAIN blocks = 1 .. Len(blocks)
      /\ \A i \in 1 .. Len(blocks) : blocks[i] \in Blocks
  OBVIOUS
<1> DEFINE Not == {i \in 1 .. Len(blocks) + 1 : i \notin InFront(blocks, at)}
<1>2. Len(blocks) + 1 \in Not /\ Not \in SUBSET Nat
  BY <1>1 DEF InFront
<1>3. PICK m \in Not : \A y \in Not : m <= y
  BY <1>2, LeastOne
<1>4. m \in 1 .. Len(blocks) + 1
  OBVIOUS
<1>5. ASSUME NEW i \in InFront(blocks, at) PROVE i \in 1 .. m - 1
  <2>1. i \in 1 .. Len(blocks) /\ blocks[i].at < at
    BY <1>1 DEF InFront
  <2>2. i # m
    BY <1>3
  <2>3. ASSUME m < i PROVE FALSE
    <3>1. m \in DOMAIN blocks /\ blocks[m].at + blocks[m].size < blocks[i].at
      BY <1>1, <1>4, <2>1, <2>3 DEF Apart
    <3>2. blocks[m].at < at
      BY <1>1, <2>1, <3>1 DEF Blocks
    <3>3. m \in InFront(blocks, at)
      BY <3>1, <3>2 DEF InFront
    <3>4. QED
      BY <1>3, <3>3
  <2>4. QED
    BY <1>1, <1>4, <2>1, <2>2, <2>3
<1>6. ASSUME NEW i \in 1 .. m - 1 PROVE i \in InFront(blocks, at)
  <2>1. i \in 1 .. Len(blocks) + 1 /\ ~(m <= i)
    BY <1>1, <1>4
  <2>2. QED
    BY <1>3, <2>1
<1>7. InFront(blocks, at) = 1 .. m - 1
  BY <1>5, <1>6
<1>8. m - 1 \in 0 .. Len(blocks)
  BY <1>1, <1>4
<1>9. Cardinality(1 .. m - 1) = m - 1
  BY <1>8, FS_Interval
<1>10. QED
  BY <1>7, <1>8, <1>9
\* Two blocks with no unit in common, none empty: one lies in front of the other.
Clear(b, c) == b.at + b.size <= c.at \/ c.at + c.size <= b.at

LEMMA ApartIsClear ==
    ASSUME NEW b, NEW c,
           b.at \in Nat, b.size \in Nat, c.at \in Nat, c.size \in Nat,
           b.at + b.size < c.at \/ c.at + c.size < b.at
    PROVE  Clear(b, c)
<1>1. ASSUME b.at + b.size < c.at PROVE b.at + b.size <= c.at
  BY <1>1
<1>2. ASSUME c.at + c.size < b.at PROVE c.at + c.size <= b.at
  BY <1>2
<1>3. QED
  BY <1>1, <1>2 DEF Clear

LEMMA ClearIs ==
    ASSUME NEW b \in Blocks, NEW c \in Blocks
    PROVE  Clear(b, c) <=> UnitsOf(b.at, b.size) \cap UnitsOf(c.at, c.size) = {}
<1>1. b.at \in Nat /\ b.size \in Nat \ {0} /\ c.at \in Nat /\ c.size \in Nat \ {0}
  BY DEF Blocks
<1>2. ASSUME Clear(b, c), NEW u \in UnitsOf(b.at, b.size), u \in UnitsOf(c.at, c.size)
      PROVE FALSE
  BY <1>1, <1>2 DEF Clear, UnitsOf
<1>3. ASSUME ~Clear(b, c)
      PROVE UnitsOf(b.at, b.size) \cap UnitsOf(c.at, c.size) # {}
  <2>1. CASE b.at <= c.at
    <3>1. c.at \in UnitsOf(b.at, b.size) /\ c.at \in UnitsOf(c.at, c.size)
      BY <1>1, <1>3, <2>1 DEF Clear, UnitsOf
    <3>2. QED
      BY <3>1
  <2>2. CASE ~(b.at <= c.at)
    <3>1. b.at \in UnitsOf(b.at, b.size) /\ b.at \in UnitsOf(c.at, c.size)
      BY <1>1, <1>3, <2>2 DEF Clear, UnitsOf
    <3>2. QED
      BY <3>1
  <2>3. QED
    BY <2>1, <2>2
<1>4. QED
  BY <1>2, <1>3

\* Where the other blocks of such a list come from.
CameFrom(i, a, b) == IF i <= a THEN i ELSE i - (a + 2) + b

LEMMA SplicedFrom ==
    ASSUME NEW E, NEW s \in Seq(E), NEW w,
           NEW a \in 0 .. Len(s), NEW b \in a + 1 .. Len(s) + 1,
           NEW r \in Seq(E), Spliced(r, s, a, w, b),
           NEW i \in DOMAIN r, i # a + 1
    PROVE  /\ CameFrom(i, a, b) \in 1 .. Len(s) /\ r[i] = s[CameFrom(i, a, b)]
           /\ CameFrom(i, a, b) <= a \/ b <= CameFrom(i, a, b)
<1>1. /\ i \in 1 .. Len(r) /\ Len(r) = a + 1 + (Len(s) + 1 - b)
      /\ i # a + 1 /\ a \in Int /\ b \in Int /\ Len(s) \in Int
  BY DEF Spliced
<1>2. CASE i <= a
  <2>1. CameFrom(i, a, b) = i /\ i \in 1 .. a
    BY <1>1, <1>2 DEF CameFrom
  <2>2. r[i] = s[i]
    BY <2>1 DEF Spliced
  <2>3. QED
    BY <1>1, <1>2, <2>1, <2>2
<1>3. CASE ~(i <= a)
  <2>1. CameFrom(i, a, b) = i - (a + 2) + b
    BY <1>3 DEF CameFrom
  <2> DEFINE j == i - (a + 2) + b
  <2>2. j \in b .. Len(s) /\ j \in 1 .. Len(s) /\ b <= j /\ a + 2 + j - b = i
    <3>1. /\ i \in Int /\ a \in Int /\ b \in Int /\ Len(s) \in Int
          /\ a + 2 <= i /\ i <= a + 2 + Len(s) - b /\ 1 <= b
      BY <1>1, <1>3
    <3>2. j \in Int /\ b <= j /\ j <= Len(s) /\ a + 2 + j - b = i
      BY <3>1
    <3> HIDE DEF j
    <3>3. QED
      BY <3>1, <3>2
  <2> HIDE DEF j
  <2>3. r[a + 2 + j - b] = s[j]
    BY <2>2 DEF Spliced
  <2>4. CameFrom(i, a, b) = j
    BY <2>1 DEF j
  <2>5. QED
    BY <2>2, <2>3, <2>4
<1>4. QED
  BY <1>2, <1>3

LEMMA FurtherOn ==
    ASSUME NEW p \in Nat, NEW n \in Nat, NEW q \in Nat, NEW m \in Nat,
           NEW t \in Nat, p + n < q, q + m < t
    PROVE  p + n < t
OBVIOUS

\* A list with some blocks exchanged for one that covers what they did and more:
\* in order when the new one is apart from its neighbours.
LEMMA SplicedApart ==
    ASSUME NEW s \in Seq(Blocks), Apart(s), NEW w \in Blocks,
           NEW a \in 0 .. Len(s), NEW b \in a + 1 .. Len(s) + 1,
           a > 0 => s[a].at + s[a].size < w.at,
           b <= Len(s) => w.at + w.size < s[b].at,
           NEW r \in Seq(Blocks), Spliced(r, s, a, w, b)
    PROVE  Apart(r)
<1>1. /\ Len(s) \in Nat /\ DOMAIN s = 1 .. Len(s) /\ a \in Int /\ b \in Int
      /\ \A i \in 1 .. Len(s) : s[i].at \in Nat /\ s[i].size \in Nat \ {0}
      /\ w.at \in Nat /\ w.size \in Nat \ {0}
  <2>1. Len(s) \in Nat /\ \A i \in 1 .. Len(s) : s[i] \in Blocks
    OBVIOUS
  <2>2. QED
    BY <2>1 DEF Blocks
<1>2. ASSUME NEW i \in DOMAIN r, i # a + 1
      PROVE  CameFrom(i, a, b) \in 1 .. Len(s) /\ r[i] = s[CameFrom(i, a, b)]
  BY <1>2, SplicedFrom
<1>3. r[a + 1] = w /\ DOMAIN r = 1 .. Len(r) /\ Len(r) \in Nat
  BY DEF Spliced
<1>4. \A i \in 1 .. a : s[i].at + s[i].size < w.at
  <2> TAKE i \in 1 .. a
  <2>1. CASE i = a
    BY <1>1, <2>1
  <2>2. CASE i # a
    <3>0. i \in DOMAIN s /\ a \in DOMAIN s /\ i < a
      BY <1>1, <2>2
    <3>1. s[i].at + s[i].size < s[a].at
      BY <3>0 DEF Apart
    <3>2. /\ s[i].at \in Nat /\ s[i].size \in Nat
          /\ s[a].at \in Nat /\ s[a].size \in Nat
          /\ w.at \in Nat /\ s[a].at + s[a].size < w.at
      BY <1>1, <3>0
    <3>3. QED
      BY <3>1, <3>2, FurtherOn
  <2>3. QED
    BY <2>1, <2>2
<1>5. \A i \in b .. Len(s) : w.at + w.size < s[i].at
  <2> TAKE i \in b .. Len(s)
  <2>1. CASE i = b
    BY <1>1, <2>1
  <2>2. CASE i # b
    <3>0. i \in DOMAIN s /\ b \in DOMAIN s /\ b < i
      BY <1>1, <2>2
    <3>1. s[b].at + s[b].size < s[i].at
      BY <3>0 DEF Apart
    <3>2. QED
      BY <1>1, <3>1
  <2>3. QED
    BY <2>1, <2>2
<1>6. ASSUME NEW i \in DOMAIN r, NEW j \in DOMAIN r, i < j
      PROVE  r[i].at + r[i].size < r[j].at
  <2>1. CASE i = a + 1
    <3>1. j # a + 1 /\ CameFrom(j, a, b) \in b .. Len(s)
      BY <1>1, <1>2, <1>3, <1>6, <2>1 DEF CameFrom
    <3>2. QED
      BY <1>2, <1>3, <1>5, <2>1, <3>1
  <2>2. CASE j = a + 1
    <3>1. i # a + 1 /\ CameFrom(i, a, b) \in 1 .. a
      BY <1>1, <1>2, <1>3, <1>6, <2>2 DEF CameFrom
    <3>2. QED
      BY <1>2, <1>3, <1>4, <2>2, <3>1
  <2>3. CASE i # a + 1 /\ j # a + 1
    <3>1. CameFrom(i, a, b) < CameFrom(j, a, b) /\ CameFrom(i, a, b) \in DOMAIN s /\ CameFrom(j, a, b) \in DOMAIN s
      BY <1>1, <1>2, <1>3, <1>6, <2>3 DEF CameFrom
    <3>2. r[i] = s[CameFrom(i, a, b)] /\ r[j] = s[CameFrom(j, a, b)]
      BY <1>2, <2>3
    <3>3. QED
      BY <3>1, <3>2 DEF Apart
  <2>4. QED
    BY <2>1, <2>2, <2>3
<1>7. QED
  BY <1>6 DEF Apart

LEMMA SplicedCover ==
    ASSUME NEW s \in Seq(Blocks), NEW w \in Blocks,
           NEW a \in 0 .. Len(s), NEW b \in a + 1 .. Len(s) + 1,
           NEW r \in Seq(Blocks), Spliced(r, s, a, w, b), NEW u
    PROVE  u \in Cover(r) <=>
             \/ u \in UnitsOf(w.at, w.size)
             \/ \E i \in DOMAIN s :
                   (i <= a \/ b <= i) /\ u \in UnitsOf(s[i].at, s[i].size)
<1>1. Len(s) \in Nat /\ DOMAIN s = 1 .. Len(s) /\ a \in Int /\ b \in Int
      /\ Len(r) \in Nat
  OBVIOUS
<1>2. r[a + 1] = w /\ DOMAIN r = 1 .. Len(r) /\ a + 1 \in DOMAIN r
  BY <1>1 DEF Spliced
<1>3. ASSUME NEW i \in DOMAIN r, i # a + 1
      PROVE  \E j \in DOMAIN s : (j <= a \/ b <= j) /\ r[i] = s[j]
  <2>1. /\ CameFrom(i, a, b) \in DOMAIN s /\ r[i] = s[CameFrom(i, a, b)]
        /\ CameFrom(i, a, b) <= a \/ b <= CameFrom(i, a, b)
    BY <1>1, <1>3, SplicedFrom
  <2>2. QED
    BY <2>1
<1>4. ASSUME NEW j \in DOMAIN s, j <= a \/ b <= j
      PROVE  \E i \in DOMAIN r : r[i] = s[j]
  <2>1. CASE j <= a
    BY <1>1, <2>1 DEF Spliced
  <2>2. CASE b <= j
    <3>1. a + 2 + j - b \in 1 .. Len(r)
      BY <1>1, <2>2 DEF Spliced
    <3>2. QED
      BY <1>1, <2>2, <3>1 DEF Spliced
  <2>3. QED
    BY <1>4, <2>1, <2>2
<1>5. u \in Cover(r) <=> \E i \in DOMAIN r : u \in UnitsOf(r[i].at, r[i].size)
  BY CoverIs
<1>6. ASSUME NEW i \in DOMAIN r, u \in UnitsOf(r[i].at, r[i].size)
      PROVE  \/ u \in UnitsOf(w.at, w.size)
             \/ \E j \in DOMAIN s :
                   (j <= a \/ b <= j) /\ u \in UnitsOf(s[j].at, s[j].size)
  <2>1. CASE i = a + 1
    BY <1>2, <1>6, <2>1
  <2>2. CASE i # a + 1
    <3>1. PICK j \in DOMAIN s : (j <= a \/ b <= j) /\ r[i] = s[j]
      BY <1>3, <2>2
    <3>2. QED
      BY <1>6, <3>1
  <2>3. QED
    BY <2>1, <2>2
<1>7. ASSUME NEW j \in DOMAIN s, j <= a \/ b <= j,
             u \in UnitsOf(s[j].at, s[j].size)
      PROVE  u \in Cover(r)
  <2>1. PICK i \in DOMAIN r : r[i] = s[j]
    BY <1>4, <1>7
  <2>2. QED
    BY <1>5, <1>7, <2>1
<1>8. QED
  BY <1>2, <1>5, <1>6, <1>7

\* prvInsertBlockIntoFreeList: what was free and the block, in order, and no two
\* list left apart.
LEMMA InsertIs ==
    ASSUME NEW blocks \in Seq(Blocks), Apart(blocks), NEW block \in Blocks,
           \A i \in DOMAIN blocks : Clear(blocks[i], block)
    PROVE  /\ Insert(blocks, block) \in Seq(Blocks) /\ Apart(Insert(blocks, block))
           /\ Cover(Insert(blocks, block))
                = Cover(blocks) \cup UnitsOf(block.at, block.size)
<1>1. /\ Len(blocks) \in Nat /\ DOMAIN blocks = 1 .. Len(blocks)
      /\ \A i \in 1 .. Len(blocks) :
            blocks[i] \in Blocks /\ blocks[i].at \in Nat /\ blocks[i].size \in Nat \ {0}
      /\ block.at \in Nat /\ block.size \in Nat \ {0}
  <2>1. Len(blocks) \in Nat /\ \A i \in 1 .. Len(blocks) : blocks[i] \in Blocks
    OBVIOUS
  <2>2. QED
    BY <2>1 DEF Blocks
<1>2. PICK k \in 0 .. Len(blocks) : /\ Cardinality(InFront(blocks, block.at)) = k
                                  /\ InFront(blocks, block.at) = 1 .. k
  BY <1>1, InFrontIs
<1> DEFINE joinsFront == k > 0 /\ Touches(blocks[k], block)
           front == IF joinsFront THEN Join(blocks[k], block) ELSE block
           joinsBack == k < Len(blocks) /\ Touches(front, blocks[k + 1])
           whole == IF joinsBack THEN Join(front, blocks[k + 1]) ELSE front
           a == IF joinsFront THEN k - 1 ELSE k
           b == IF joinsBack THEN k + 2 ELSE k + 1
<1>3. Insert(blocks, block)
        = SubSeq(blocks, 1, a) \o <<whole>> \o SubSeq(blocks, b, Len(blocks))
  BY <1>2 DEF Insert
<1>4. k > 0 => /\ k \in 1 .. Len(blocks)
               /\ blocks[k].at + blocks[k].size <= block.at
               /\ blocks[k].at < block.at
  <2>1. SUFFICES ASSUME k > 0
                 PROVE  /\ k \in 1 .. Len(blocks)
                        /\ blocks[k].at + blocks[k].size <= block.at
                        /\ blocks[k].at < block.at
    OBVIOUS
  <2>2. k \in 1 .. Len(blocks) /\ k \in InFront(blocks, block.at)
    BY <1>1, <1>2, <2>1
  <2>3. blocks[k].at < block.at /\ Clear(blocks[k], block)
    BY <1>1, <2>2 DEF InFront
  <2>4. QED
    BY <1>1, <2>2, <2>3 DEF Clear
<1>5. k < Len(blocks) => /\ k + 1 \in 1 .. Len(blocks)
                       /\ block.at + block.size <= blocks[k + 1].at
  <2>1. SUFFICES ASSUME k < Len(blocks)
                 PROVE  /\ k + 1 \in 1 .. Len(blocks)
                        /\ block.at + block.size <= blocks[k + 1].at
    OBVIOUS
  <2>2. k + 1 \in 1 .. Len(blocks) /\ k + 1 \notin InFront(blocks, block.at)
    BY <1>1, <1>2, <2>1
  <2>3. ~(blocks[k + 1].at < block.at) /\ Clear(blocks[k + 1], block)
    BY <1>1, <2>2 DEF InFront
  <2>4. QED
    BY <1>1, <2>2, <2>3 DEF Clear
<1>6. k > 0 /\ k < Len(blocks) => blocks[k].at + blocks[k].size < blocks[k + 1].at
  BY <1>1, <1>4, <1>5 DEF Apart
<1>7. /\ front \in Blocks
      /\ front.at = IF joinsFront THEN blocks[k].at ELSE block.at
      /\ front.at + front.size = block.at + block.size
  <2>1. CASE joinsFront
    <3>1. /\ k \in 1 .. Len(blocks) /\ blocks[k].at + blocks[k].size = block.at
          /\ blocks[k] \in Blocks
      BY <1>1, <1>4, <2>1 DEF Touches
    <3>2. /\ front.at = blocks[k].at /\ front.size = blocks[k].size + block.size
          /\ front = [at |-> blocks[k].at, size |-> blocks[k].size + block.size]
      BY <2>1, <3>1 DEF Join, Blocks
    <3>3. QED
      BY <1>1, <2>1, <3>1, <3>2 DEF Blocks
  <2>2. CASE ~joinsFront
    BY <1>1, <2>2
  <2>3. QED
    BY <2>1, <2>2
<1>8. /\ whole \in Blocks /\ whole.at = front.at
      /\ whole.at + whole.size
           = IF joinsBack THEN blocks[k + 1].at + blocks[k + 1].size
             ELSE block.at + block.size
  <2> HIDE DEF front
  <2>1. CASE joinsBack
    <3>1. /\ k + 1 \in 1 .. Len(blocks)
          /\ front.at + front.size = blocks[k + 1].at
          /\ blocks[k + 1] \in Blocks
      BY <1>1, <1>5, <2>1 DEF Touches
    <3>2. /\ whole.at = front.at /\ whole.size = front.size + blocks[k + 1].size
          /\ whole = [at |-> front.at, size |-> front.size + blocks[k + 1].size]
      BY <1>7, <2>1, <3>1 DEF Join, Blocks
    <3>3. /\ front.at \in Nat /\ front.size \in Nat \ {0}
          /\ blocks[k + 1].at \in Nat /\ blocks[k + 1].size \in Nat \ {0}
      BY <1>7, <3>1 DEF Blocks
    <3> HIDE DEF whole, joinsBack
    <3>4. front.size + blocks[k + 1].size \in Nat \ {0}
      BY <3>3
    <3>5. whole \in Blocks
      BY <3>2, <3>3, <3>4 DEF Blocks
    <3>6. whole.at + whole.size = blocks[k + 1].at + blocks[k + 1].size
      BY <3>1, <3>2, <3>3
    <3>7. QED
      BY <2>1, <3>2, <3>5, <3>6
  <2>2. CASE ~joinsBack
    BY <1>7, <2>2
  <2>3. QED
    BY <2>1, <2>2
<1>9. a \in 0 .. Len(blocks) /\ b \in a + 1 .. Len(blocks) + 1
  BY <1>1, <1>4, <1>5
<1>10. a > 0 => blocks[a].at + blocks[a].size < whole.at
  <2>1. CASE joinsFront /\ a > 0
    <3>1. a \in DOMAIN blocks /\ k \in DOMAIN blocks /\ a < k
      BY <1>1, <1>4, <2>1
    <3>2. blocks[a].at + blocks[a].size < blocks[k].at
      BY <3>1 DEF Apart
    <3>3. QED
      BY <1>7, <1>8, <2>1, <3>2
  <2>2. CASE ~joinsFront /\ a > 0
    <3>1. a = k /\ ~(blocks[k].at + blocks[k].size = block.at)
      BY <2>2 DEF Touches
    <3>2. whole.at = block.at
      BY <1>7, <1>8, <2>2
    <3>3. k \in 1 .. Len(blocks) /\ k > 0
      BY <1>1, <2>2, <3>1
    <3>4. /\ blocks[k].at \in Nat /\ blocks[k].size \in Nat /\ block.at \in Nat
          /\ blocks[k].at + blocks[k].size <= block.at
      BY <1>1, <1>4, <3>3
    <3> HIDE DEF whole, front, a
    <3>5. blocks[k].at + blocks[k].size < whole.at
      BY <3>1, <3>2, <3>4
    <3>6. QED
      BY <3>1, <3>5
  <2>3. QED
    BY <2>1, <2>2
<1>11. b <= Len(blocks) => whole.at + whole.size < blocks[b].at
  <2>1. CASE joinsBack /\ b <= Len(blocks)
    <3>1. b \in DOMAIN blocks /\ k + 1 \in DOMAIN blocks /\ k + 1 < b
      BY <1>1, <1>5, <2>1
    <3>2. blocks[k + 1].at + blocks[k + 1].size < blocks[b].at
      BY <3>1 DEF Apart
    <3>3. QED
      BY <1>8, <2>1, <3>2
  <2>2. CASE ~joinsBack /\ b <= Len(blocks)
    <3>1. b = k + 1 /\ k < Len(blocks)
          /\ ~(front.at + front.size = blocks[k + 1].at)
      BY <1>1, <2>2 DEF Touches
    <3>2. QED
      BY <1>1, <1>5, <1>7, <1>8, <2>2, <3>1
  <2>3. QED
    BY <2>1, <2>2
<1> DEFINE r == SubSeq(blocks, 1, a) \o <<whole>> \o SubSeq(blocks, b, Len(blocks))
<1>12. \A u : u \in UnitsOf(whole.at, whole.size) <=>
                \/ u \in UnitsOf(block.at, block.size)
                \/ joinsFront /\ u \in UnitsOf(blocks[k].at, blocks[k].size)
                \/ joinsBack /\ u \in UnitsOf(blocks[k + 1].at, blocks[k + 1].size)
  <2>1. joinsFront => blocks[k].at + blocks[k].size = block.at /\ k > 0
    BY DEF Touches
  <2>2. joinsBack => block.at + block.size = blocks[k + 1].at /\ k < Len(blocks)
    BY <1>7 DEF Touches
  <2> HIDE DEF joinsFront, front, joinsBack, whole, a, b
  <2>3. whole.at \in Nat /\ whole.size \in Nat
    BY <1>8 DEF Blocks
  <2>4. /\ whole.at = IF joinsFront THEN blocks[k].at ELSE block.at
        /\ whole.at + whole.size
             = IF joinsBack THEN blocks[k + 1].at + blocks[k + 1].size
               ELSE block.at + block.size
    BY <1>7, <1>8
  <2>5. \A u : u \in UnitsOf(whole.at, whole.size) <=>
                u \in Int /\ whole.at <= u /\ u < whole.at + whole.size
    BY <2>3 DEF UnitsOf
  <2>6. \A u : u \in UnitsOf(block.at, block.size) <=>
                u \in Int /\ block.at <= u /\ u < block.at + block.size
    BY <1>1 DEF UnitsOf
  <2>7. \A i \in 1 .. Len(blocks) : \A u :
           u \in UnitsOf(blocks[i].at, blocks[i].size) <=>
             u \in Int /\ blocks[i].at <= u /\ u < blocks[i].at + blocks[i].size
    BY <1>1 DEF UnitsOf
  <2>8. joinsFront => \A u :
           u \in UnitsOf(blocks[k].at, blocks[k].size) <=>
             u \in Int /\ blocks[k].at <= u /\ u < block.at
    BY <1>4, <2>1, <2>7
  <2>9. joinsBack => \A u :
           u \in UnitsOf(blocks[k + 1].at, blocks[k + 1].size) <=>
             /\ u \in Int /\ block.at + block.size <= u
             /\ u < blocks[k + 1].at + blocks[k + 1].size
    BY <1>5, <2>2, <2>7
  <2>10. joinsFront => blocks[k].at \in Int /\ blocks[k].at < block.at
    BY <1>1, <1>4, <2>1
  <2>11. joinsBack => /\ blocks[k + 1].at + blocks[k + 1].size \in Int
                      /\ block.at + block.size < blocks[k + 1].at + blocks[k + 1].size
    BY <1>1, <1>5, <2>2
  <2>12. ASSUME NEW u \in Int
         PROVE  u \in UnitsOf(whole.at, whole.size) <=>
                  \/ u \in UnitsOf(block.at, block.size)
                  \/ joinsFront /\ u \in UnitsOf(blocks[k].at, blocks[k].size)
                  \/ joinsBack /\ u \in UnitsOf(blocks[k + 1].at, blocks[k + 1].size)
    BY <1>1, <2>4, <2>5, <2>6, <2>8, <2>9, <2>10, <2>11
  <2>13. QED
    BY <2>5, <2>6, <2>8, <2>9, <2>12
<1>13. \A i \in DOMAIN blocks :
          \/ i <= a \/ b <= i
          \/ joinsFront /\ i = k
          \/ joinsBack /\ i = k + 1
  BY <1>1
<1>14. (joinsFront => k \in DOMAIN blocks) /\ (joinsBack => k + 1 \in DOMAIN blocks)
  BY <1>1, <1>4, <1>5
<1> HIDE DEF joinsFront, front, joinsBack, whole, a, b
<1>15. r \in Seq(Blocks) /\ Spliced(r, blocks, a, whole, b)
  BY <1>8, <1>9, Splice
<1> HIDE DEF r
<1>16. Apart(r)
  BY <1>8, <1>9, <1>10, <1>11, <1>15, SplicedApart
<1>17. ASSUME NEW u
       PROVE  u \in Cover(r) <=>
                u \in Cover(blocks) \/ u \in UnitsOf(block.at, block.size)
  <2>1. u \in Cover(r) <=>
          \/ u \in UnitsOf(whole.at, whole.size)
          \/ \E i \in DOMAIN blocks :
                (i <= a \/ b <= i) /\ u \in UnitsOf(blocks[i].at, blocks[i].size)
    BY <1>8, <1>9, <1>15, SplicedCover
  <2>2. u \in Cover(blocks) <=>
          \E i \in DOMAIN blocks : u \in UnitsOf(blocks[i].at, blocks[i].size)
    BY CoverIs
  <2>3. QED
    BY <1>12, <1>13, <1>14, <2>1, <2>2
<1>18. Cover(r) = Cover(blocks) \cup UnitsOf(block.at, block.size)
  BY <1>17
<1>19. QED
  BY <1>3, <1>15, <1>16, <1>18 DEF r

-----------------------------------------------------------------------------
(* The heap *)

\* What every call of the allocator keeps: the free list is in order, blocks have
\* no unit in common, they cover the region, and the counter is true.
Sound(h, size) ==
    /\ h.free \in Seq(Blocks) /\ Apart(h.free)
    /\ \A a \in DOMAIN h.used : a \in Nat /\ h.used[a] \in Nat \ {0}
    /\ \A a \in DOMAIN h.used : UnitsOf(a, h.used[a]) \cap Cover(h.free) = {}
    /\ \A a, b \in DOMAIN h.used :
          a # b => UnitsOf(a, h.used[a]) \cap UnitsOf(b, h.used[b]) = {}
    /\ \A u : u \in 0 .. size - 2 <=>
          \/ u \in Cover(h.free)
          \/ \E a \in DOMAIN h.used : u \in UnitsOf(a, h.used[a])
    /\ h.left = Cardinality(Cover(h.free))

LEMMA UnitsIs ==
    ASSUME NEW a \in Nat, NEW n \in Nat
    PROVE  /\ \A u : u \in UnitsOf(a, n) <=> u \in Int /\ a <= u /\ u < a + n
           /\ IsFiniteSet(UnitsOf(a, n)) /\ Cardinality(UnitsOf(a, n)) = n
<1>1. \A u : u \in UnitsOf(a, n) <=> u \in Int /\ a <= u /\ u < a + n
  BY DEF UnitsOf
<1>2. a \in Int /\ a + n - 1 \in Int
  OBVIOUS
<1>3. IsFiniteSet(a .. a + n - 1)
      /\ Cardinality(a .. a + n - 1)
           = IF a > a + n - 1 THEN 0 ELSE (a + n - 1) - a + 1
  BY <1>2, FS_Interval
<1>4. QED
  BY <1>1, <1>3 DEF UnitsOf

\* Adding or removing units counts them.
LEMMA CountUnits ==
    ASSUME NEW C, IsFiniteSet(C), NEW a \in Nat, NEW n \in Nat
    PROVE  /\ UnitsOf(a, n) \subseteq C =>
                Cardinality(C \ UnitsOf(a, n)) = Cardinality(C) - n
                /\ n <= Cardinality(C)
           /\ UnitsOf(a, n) \cap C = {} =>
                Cardinality(C \cup UnitsOf(a, n)) = Cardinality(C) + n
<1> DEFINE U == UnitsOf(a, n)
<1>1. IsFiniteSet(U) /\ Cardinality(U) = n
  BY UnitsIs
<1>2. Cardinality(C) \in Nat
  BY FS_CardinalityType
<1> HIDE DEF U
<1>3. ASSUME U \subseteq C
      PROVE  Cardinality(C \ U) = Cardinality(C) - n /\ n <= Cardinality(C)
  <2>1. C \cap U = U
    BY <1>3
  <2>2. Cardinality(C \ U) = Cardinality(C) - Cardinality(C \cap U)
    BY FS_Difference
  <2>3. Cardinality(U) <= Cardinality(C)
    BY <1>3, FS_Subset
  <2>4. QED
    BY <1>1, <2>1, <2>2, <2>3
<1>4. ASSUME U \cap C = {}
      PROVE  Cardinality(C \cup U) = Cardinality(C) + n
  <2>1. C \cap U = {} /\ Cardinality({}) = 0
    BY <1>4, FS_EmptySet
  <2>2. Cardinality(C \cup U)
          = Cardinality(C) + Cardinality(U) - Cardinality(C \cap U)
    BY <1>1, FS_Union
  <2>3. Cardinality(C \cap U) = 0
    BY <2>1
  <2>4. Cardinality(C \cup U) = Cardinality(C) + n - 0
    BY <1>1, <2>2, <2>3
  <2>5. QED
    BY <1>2, <2>4
<1>5. QED
  BY <1>3, <1>4 DEF U

LEMMA SoundIs ==
    ASSUME NEW h, NEW size \in Nat, Sound(h, size)
    PROVE  /\ IsFiniteSet(Cover(h.free)) /\ Cover(h.free) \subseteq 0 .. size - 2
           /\ h.left \in Nat /\ h.left <= size
           /\ Len(h.free) \in Nat /\ DOMAIN h.free = 1 .. Len(h.free)
           /\ \A i \in 1 .. Len(h.free) :
                 /\ h.free[i] \in Blocks
                 /\ h.free[i].at \in Nat /\ h.free[i].size \in Nat \ {0}
                 /\ UnitsOf(h.free[i].at, h.free[i].size) \subseteq Cover(h.free)
                 /\ h.free[i].size <= h.left
<1>1. Cover(h.free) \subseteq 0 .. size - 2
  BY DEF Sound
<1>2. IsFiniteSet(0 .. size - 2) /\ Cardinality(0 .. size - 2) <= size
  <2>1. 0 \in Int /\ size - 2 \in Int
    OBVIOUS
  <2>2. IsFiniteSet(0 .. size - 2)
        /\ Cardinality(0 .. size - 2) = IF 0 > size - 2 THEN 0 ELSE size - 2 - 0 + 1
    BY <2>1, FS_Interval
  <2>3. QED
    BY <2>2
<1>3. IsFiniteSet(Cover(h.free))
      /\ Cardinality(Cover(h.free)) <= Cardinality(0 .. size - 2)
  BY <1>1, <1>2, FS_Subset
<1>4. Cardinality(Cover(h.free)) \in Nat /\ Cardinality(0 .. size - 2) \in Nat
  BY <1>2, <1>3, FS_CardinalityType
<1>5. h.free \in Seq(Blocks) /\ h.left = Cardinality(Cover(h.free))
  BY DEF Sound
<1>6. Len(h.free) \in Nat /\ DOMAIN h.free = 1 .. Len(h.free)
      /\ \A i \in 1 .. Len(h.free) : h.free[i] \in Blocks
  BY <1>5
<1>7. ASSUME NEW i \in 1 .. Len(h.free)
      PROVE  /\ h.free[i].at \in Nat /\ h.free[i].size \in Nat \ {0}
             /\ UnitsOf(h.free[i].at, h.free[i].size) \subseteq Cover(h.free)
             /\ h.free[i].size <= h.left
  <2>1. h.free[i].at \in Nat /\ h.free[i].size \in Nat \ {0}
    BY <1>6 DEF Blocks
  <2>2. UnitsOf(h.free[i].at, h.free[i].size) \subseteq Cover(h.free)
    BY <1>6 DEF Cover
  <2>3. h.free[i].size <= Cardinality(Cover(h.free))
    BY <1>3, <2>1, <2>2, CountUnits
  <2>4. QED
    BY <1>5, <2>1, <2>2, <2>3
<1>8. QED
  BY <1>1, <1>2, <1>3, <1>4, <1>5, <1>6, <1>7

\* The walk of pvPortMalloc ends at the first block that is large enough.
LEMMA FirstFit ==
    ASSUME NEW h, NEW size \in Nat, Sound(h, size), NEW n, CanMalloc(h, n)
    PROVE  /\ Min(Fitting(h, n)) \in 1 .. Len(h.free)
           /\ h.free[Min(Fitting(h, n))].size >= n
           /\ \A j \in 1 .. Len(h.free) :
                 h.free[j].size >= n => Min(Fitting(h, n)) <= j
<1>1. Len(h.free) \in Nat /\ DOMAIN h.free = 1 .. Len(h.free)
  BY SoundIs
<1>2. Fitting(h, n) # {} /\ Fitting(h, n) \in SUBSET Nat
  BY <1>1 DEF CanMalloc, Fitting
<1>3. \E m \in Fitting(h, n) : \A y \in Fitting(h, n) : m <= y
  BY <1>2, LeastOne
<1>4. Min(Fitting(h, n)) \in Fitting(h, n)
      /\ \A y \in Fitting(h, n) : Min(Fitting(h, n)) <= y
  BY <1>3 DEF Min
<1>5. QED
  BY <1>1, <1>4 DEF Fitting

\* What pvPortMalloc does: the block it returns was free and belonged to nobody,
\* is as large as was asked, and is all that changes.
LEMMA MallocIs ==
    ASSUME NEW h, NEW size \in Nat, Sound(h, size),
           NEW n \in Nat \ {0}, CanMalloc(h, n)
    PROVE  LET r == Malloc(h, n)
               a == MallocAt(h, n)
           IN  /\ Sound(r, size)
               /\ a \in Nat /\ a \notin DOMAIN h.used
               /\ DOMAIN r.used = DOMAIN h.used \cup {a}
               /\ \A b \in DOMAIN h.used : r.used[b] = h.used[b]
               /\ r.used[a] \in Nat /\ r.used[a] >= n
               /\ UnitsOf(a, r.used[a]) \subseteq Cover(h.free)
               /\ Cover(r.free) = Cover(h.free) \ UnitsOf(a, r.used[a])
               /\ \E i \in 1 .. Len(h.free) :
                     /\ i = Min(Fitting(h, n)) /\ a = h.free[i].at
                     /\ r.used[a] = IF Splits(h.free[i].size - n) THEN n
                                    ELSE h.free[i].size
<1> DEFINE i == Min(Fitting(h, n))
           block == h.free[i]
           others == SubSeq(h.free, 1, i - 1) \o SubSeq(h.free, i + 1, Len(h.free))
           rest == [at |-> block.at + n, size |-> block.size - n]
           put == IF Splits(rest.size) THEN n ELSE block.size
           free == IF Splits(rest.size) THEN Insert(others, rest) ELSE others
           used == [a \in DOMAIN h.used \cup {block.at} |->
                      IF a = block.at THEN put ELSE h.used[a]]
           at == block.at
<1>1. Malloc(h, n) = [free |-> free, left |-> h.left - put, used |-> used]
  BY DEF Malloc
<1>2. MallocAt(h, n) = at
  BY DEF MallocAt
<1>3. i \in 1 .. Len(h.free) /\ block.size >= n
  BY FirstFit
<1>4. /\ h.free \in Seq(Blocks) /\ Apart(h.free) /\ Len(h.free) \in Nat
      /\ DOMAIN h.free = 1 .. Len(h.free)
      /\ \A j \in 1 .. Len(h.free) :
            /\ h.free[j] \in Blocks
            /\ h.free[j].at \in Nat /\ h.free[j].size \in Nat \ {0}
            /\ UnitsOf(h.free[j].at, h.free[j].size) \subseteq Cover(h.free)
  BY SoundIs DEF Sound
<1>5. others \in Seq(Blocks) /\ WithoutBlock(others, h.free, i)
  BY <1>3, <1>4, CutOut
<1> HIDE DEF i, others
<1>6. /\ block \in Blocks /\ block.at \in Nat /\ block.size \in Nat \ {0}
      /\ UnitsOf(block.at, block.size) \subseteq Cover(h.free)
  BY <1>3, <1>4
<1> HIDE DEF block
<1>7. /\ at \in Nat /\ put \in Nat \ {0} /\ put >= n /\ put <= block.size
      /\ rest.at = at + n /\ rest.size = block.size - n
  BY <1>3, <1>6
<1>8. Splits(rest.size) => rest \in Blocks /\ put = n
  <2>1. SUFFICES ASSUME Splits(rest.size) PROVE rest \in Blocks
    OBVIOUS
  <2>2. block.size - n \in Nat \ {0} /\ block.at + n \in Nat
    BY <1>3, <1>6, <2>1 DEF Splits, MinimumBlock
  <2>3. QED
    BY <2>2 DEF Blocks
<1>9. \A j \in DOMAIN others :
         \E k \in 1 .. Len(h.free) : k # i /\ others[j] = h.free[k]
              /\ k = IF j < i THEN j ELSE j + 1
  <2> TAKE j \in DOMAIN others
  <2>1. /\ j \in 1 .. Len(others) /\ Len(others) = Len(h.free) - 1
        /\ i \in Int /\ Len(h.free) \in Int
    BY <1>3, <1>4, <1>5 DEF WithoutBlock
  <2>2. CASE j < i
    <3>1. j \in 1 .. i - 1 /\ j \in 1 .. Len(h.free) /\ j # i
      BY <2>1, <2>2
    <3>2. others[j] = h.free[j]
      BY <1>5, <3>1 DEF WithoutBlock
    <3>3. QED
      BY <2>2, <3>1, <3>2
  <2>3. CASE ~(j < i)
    <3>1. j + 1 \in i + 1 .. Len(h.free) /\ j + 1 \in 1 .. Len(h.free)
          /\ j + 1 # i /\ j + 1 - 1 = j
      BY <1>3, <2>1, <2>3
    <3>2. others[j + 1 - 1] = h.free[j + 1]
      BY <1>5, <3>1 DEF WithoutBlock
    <3>3. QED
      BY <2>3, <3>1, <3>2
  <2>4. QED
    BY <2>2, <2>3
<1>10. \A k \in 1 .. Len(h.free) :
          k # i => \E j \in DOMAIN others : others[j] = h.free[k]
  <2> TAKE k \in 1 .. Len(h.free)
  <2>1. /\ DOMAIN others = 1 .. Len(others) /\ Len(others) = Len(h.free) - 1
        /\ i \in Int /\ Len(h.free) \in Int
    BY <1>3, <1>4, <1>5 DEF WithoutBlock
  <2>2. CASE k < i
    <3>1. k \in 1 .. i - 1 /\ k \in DOMAIN others
      BY <1>3, <2>1, <2>2
    <3>2. QED
      BY <1>5, <3>1 DEF WithoutBlock
  <2>3. CASE k > i
    <3>1. k \in i + 1 .. Len(h.free) /\ k - 1 \in DOMAIN others
      BY <1>3, <2>1, <2>3
    <3>2. QED
      BY <1>5, <3>1 DEF WithoutBlock
  <2>4. QED
    BY <2>1, <2>2, <2>3
<1>11. Apart(others)
  <2>1. SUFFICES ASSUME NEW j \in DOMAIN others, NEW k \in DOMAIN others, j < k
                 PROVE  others[j].at + others[j].size < others[k].at
    BY DEF Apart
  <2>2. PICK p \in 1 .. Len(h.free) :
           others[j] = h.free[p] /\ p = IF j < i THEN j ELSE j + 1
    BY <1>9
  <2>3. PICK q \in 1 .. Len(h.free) :
           others[k] = h.free[q] /\ q = IF k < i THEN k ELSE k + 1
    BY <1>9
  <2>4. j \in Int /\ k \in Int /\ i \in Int
    BY <1>3, <1>5 DEF WithoutBlock
  <2>5. p < q
    BY <2>1, <2>2, <2>3, <2>4
  <2>6. QED
    BY <1>4, <2>2, <2>3, <2>5 DEF Apart
\* The blocks of the list have no unit in common.
<1>12. ASSUME NEW j \in 1 .. Len(h.free), NEW k \in 1 .. Len(h.free), j # k
       PROVE  Clear(h.free[j], h.free[k])
  <2>1. j \in DOMAIN h.free /\ k \in DOMAIN h.free /\ (j < k \/ k < j)
    BY <1>4, <1>12
  <2>2. \/ h.free[j].at + h.free[j].size < h.free[k].at
        \/ h.free[k].at + h.free[k].size < h.free[j].at
    BY <1>4, <2>1 DEF Apart
  <2>3. /\ h.free[j].at \in Nat /\ h.free[j].size \in Nat
        /\ h.free[k].at \in Nat /\ h.free[k].size \in Nat
    BY <1>4
  <2>4. QED
    BY <2>2, <2>3, ApartIsClear
<1>13. \A j \in DOMAIN others : Clear(others[j], block)
  BY <1>3, <1>9, <1>12 DEF block
<1>14. Splits(rest.size) => \A j \in DOMAIN others : Clear(others[j], rest)
  <2>1. SUFFICES ASSUME Splits(rest.size), NEW j \in DOMAIN others
                 PROVE  Clear(others[j], rest)
    OBVIOUS
  <2>2. others[j].at \in Nat /\ others[j].size \in Nat
    BY <1>4, <1>9
  <2>3. Clear(others[j], block)
    BY <1>13
  <2>4. rest.at + rest.size = block.at + block.size /\ rest.at >= block.at
    BY <1>3, <1>6, <1>7
  <2>5. rest.at \in Nat /\ rest.size \in Nat
    BY <1>8, <2>1 DEF Blocks
  <2>6. QED
    BY <1>6, <2>2, <2>3, <2>4, <2>5 DEF Clear
<1>15. ASSUME NEW u
       PROVE  u \in Cover(h.free) <=>
                u \in Cover(others) \/ u \in UnitsOf(block.at, block.size)
  <2>1. u \in Cover(h.free) <=>
          \E j \in 1 .. Len(h.free) : u \in UnitsOf(h.free[j].at, h.free[j].size)
    BY <1>4, CoverIs
  <2>2. u \in Cover(others) <=>
          \E j \in DOMAIN others : u \in UnitsOf(others[j].at, others[j].size)
    BY CoverIs
  <2>3. ASSUME u \in Cover(others) PROVE u \in Cover(h.free)
    BY <1>9, <2>1, <2>2, <2>3
  <2>4. ASSUME u \in Cover(h.free), u \notin UnitsOf(block.at, block.size)
        PROVE  u \in Cover(others)
    <3>1. PICK j \in 1 .. Len(h.free) : u \in UnitsOf(h.free[j].at, h.free[j].size)
      BY <2>1, <2>4
    <3>2. j # i
      BY <2>4, <3>1 DEF block
    <3>3. PICK k \in DOMAIN others : others[k] = h.free[j]
      BY <1>10, <3>2
    <3>4. QED
      BY <2>2, <3>1, <3>3
  <2>5. QED
    BY <1>6, <2>3, <2>4
<1>16. Cover(others) \cap UnitsOf(block.at, block.size) = {}
  <2>1. SUFFICES ASSUME NEW u \in Cover(others), u \in UnitsOf(block.at, block.size)
                 PROVE  FALSE
    OBVIOUS
  <2>2. PICK j \in DOMAIN others : u \in UnitsOf(others[j].at, others[j].size)
    BY CoverIs
  <2>3. others[j] \in Blocks /\ Clear(others[j], block)
    BY <1>4, <1>9, <1>13
  <2>4. UnitsOf(others[j].at, others[j].size) \cap UnitsOf(block.at, block.size) = {}
    BY <1>6, <2>3, ClearIs
  <2>5. QED
    BY <2>1, <2>2, <2>4
\* What is given away, and what is left of the block.
<1>17. /\ free \in Seq(Blocks) /\ Apart(free)
       /\ Cover(free) = Cover(h.free) \ UnitsOf(at, put)
  <2>1. CASE Splits(rest.size)
    <3>1. /\ free \in Seq(Blocks) /\ Apart(free)
          /\ Cover(free) = Cover(others) \cup UnitsOf(rest.at, rest.size)
      BY <1>5, <1>8, <1>11, <1>14, <2>1, InsertIs
    <3>2. /\ rest.at = at + put /\ rest.at + rest.size = at + block.size
          /\ rest.at \in Nat /\ rest.size \in Nat
      BY <1>3, <1>6, <1>7, <1>8, <2>1 DEF Blocks
    <3>3. ASSUME NEW u
          PROVE  u \in UnitsOf(rest.at, rest.size) <=>
                   u \in UnitsOf(at, block.size) /\ u \notin UnitsOf(at, put)
      <4>1. /\ at \in Nat /\ put \in Nat /\ block.size \in Nat
            /\ put <= block.size
        BY <1>6, <1>7
      <4>2. /\ u \in UnitsOf(rest.at, rest.size) <=>
                 u \in Int /\ rest.at <= u /\ u < rest.at + rest.size
            /\ u \in UnitsOf(at, block.size) <=>
                 u \in Int /\ at <= u /\ u < at + block.size
            /\ u \in UnitsOf(at, put) <=>
                 u \in Int /\ at <= u /\ u < at + put
        BY <3>2, <4>1, UnitsIs
      <4> HIDE DEF at, put, rest
      <4>3. QED
        BY <3>2, <4>1, <4>2
    <3>4. UnitsOf(at, put) \subseteq UnitsOf(at, block.size)
      BY <1>6, <1>7, UnitsIs
    <3>5. QED
      BY <1>15, <1>16, <3>1, <3>3, <3>4
  <2>2. CASE ~Splits(rest.size)
    <3>1. free = others /\ put = block.size
      BY <2>2
    <3>2. QED
      BY <1>5, <1>11, <1>15, <1>16, <3>1
  <2>3. QED
    BY <2>1, <2>2
<1>18. UnitsOf(at, put) \subseteq Cover(h.free)
  <2>1. UnitsOf(at, put) \subseteq UnitsOf(at, block.size)
    BY <1>6, <1>7, UnitsIs
  <2>2. QED
    BY <1>6, <2>1
<1>19. at \in UnitsOf(at, put) /\ at \in Cover(h.free)
  <2>1. at \in Nat /\ put \in Nat \ {0}
    BY <1>7
  <2>2. at \in Int /\ at <= at /\ at < at + put
    BY <2>1
  <2>3. at \in UnitsOf(at, put)
    BY <2>1, <2>2, UnitsIs
  <2>4. QED
    BY <1>18, <2>3
<1>20. at \notin DOMAIN h.used
  <2>1. SUFFICES ASSUME at \in DOMAIN h.used PROVE FALSE
    OBVIOUS
  <2>2. at \in UnitsOf(at, h.used[at])
    <3>1. at \in Nat /\ h.used[at] \in Nat \ {0}
      BY <2>1 DEF Sound
    <3>2. at \in Int /\ at <= at /\ at < at + h.used[at]
      BY <3>1
    <3>3. QED
      BY <3>1, <3>2, UnitsIs
  <2>3. QED
    BY <1>19, <2>1, <2>2 DEF Sound
<1>21. /\ DOMAIN used = DOMAIN h.used \cup {at}
       /\ used[at] = put
       /\ \A b \in DOMAIN h.used : used[b] = h.used[b] /\ b # at
  BY <1>20
<1> HIDE DEF put, free, used, rest
<1>22. Sound([free |-> free, left |-> h.left - put, used |-> used], size)
  <2>1. \A a \in DOMAIN used : a \in Nat /\ used[a] \in Nat \ {0}
    BY <1>7, <1>21 DEF Sound
  <2>2. \A a \in DOMAIN used : UnitsOf(a, used[a]) \cap Cover(free) = {}
    <3> TAKE a \in DOMAIN used
    <3>1. CASE a = at
      BY <1>17, <1>21, <3>1
    <3>2. CASE a \in DOMAIN h.used
      BY <1>17, <1>21, <3>2 DEF Sound
    <3>3. QED
      BY <1>21, <3>1, <3>2
  <2>3. \A a, b \in DOMAIN used :
           a # b => UnitsOf(a, used[a]) \cap UnitsOf(b, used[b]) = {}
    <3>1. \A b \in DOMAIN h.used :
             UnitsOf(at, put) \cap UnitsOf(b, h.used[b]) = {}
      BY <1>18 DEF Sound
    <3>2. \A c, b \in DOMAIN h.used :
             c # b => UnitsOf(c, h.used[c]) \cap UnitsOf(b, h.used[b]) = {}
      BY DEF Sound
    <3> SUFFICES ASSUME NEW c \in DOMAIN used, NEW b \in DOMAIN used, c # b
                 PROVE  UnitsOf(c, used[c]) \cap UnitsOf(b, used[b]) = {}
      OBVIOUS
    <3>3. CASE c = at
      BY <1>21, <3>1, <3>3
    <3>4. CASE b = at
      BY <1>21, <3>1, <3>4
    <3>5. CASE c \in DOMAIN h.used /\ b \in DOMAIN h.used
      BY <1>21, <3>2, <3>5
    <3>6. QED
      BY <1>21, <3>3, <3>4, <3>5
  <2>4. ASSUME NEW u
        PROVE  u \in 0 .. size - 2 <=>
                 \/ u \in Cover(free)
                 \/ \E a \in DOMAIN used : u \in UnitsOf(a, used[a])
    <3>1. u \in 0 .. size - 2 <=>
             \/ u \in Cover(h.free)
             \/ \E a \in DOMAIN h.used : u \in UnitsOf(a, h.used[a])
      BY DEF Sound
    <3>2. u \in Cover(h.free) <=> u \in Cover(free) \/ u \in UnitsOf(at, put)
      BY <1>17, <1>18
    <3>3. (\E a \in DOMAIN used : u \in UnitsOf(a, used[a])) <=>
             \/ u \in UnitsOf(at, put)
             \/ \E a \in DOMAIN h.used : u \in UnitsOf(a, h.used[a])
      BY <1>21
    <3>4. QED
      BY <3>1, <3>2, <3>3
  <2>5. h.left - put = Cardinality(Cover(free))
    <3>1. IsFiniteSet(Cover(h.free)) /\ h.left = Cardinality(Cover(h.free))
      BY SoundIs DEF Sound
    <3>2. at \in Nat /\ put \in Nat
      BY <1>7
    <3>3. Cardinality(Cover(h.free) \ UnitsOf(at, put))
            = Cardinality(Cover(h.free)) - put
      BY <1>18, <3>1, <3>2, CountUnits
    <3>4. QED
      BY <1>17, <3>1, <3>3
  <2> DEFINE r == [free |-> free, left |-> h.left - put, used |-> used]
  <2>6. r.free = free /\ r.left = h.left - put /\ r.used = used
    OBVIOUS
  <2> HIDE DEF r
  <2>7. Sound(r, size)
    BY <1>17, <2>1, <2>2, <2>3, <2>4, <2>5, <2>6 DEF Sound
  <2>8. QED
    BY <2>7 DEF r
<1>23. put = IF Splits(h.free[i].size - n) THEN n ELSE h.free[i].size
  BY DEF put, rest, block
<1>24. /\ i = Min(Fitting(h, n)) /\ at = h.free[i].at
  BY DEF i, block
<1> DEFINE r == Malloc(h, n)
<1>25. r.free = free /\ r.used = used /\ Sound(r, size)
  BY <1>1, <1>22
<1> HIDE DEF r
<1>26. /\ DOMAIN r.used = DOMAIN h.used \cup {at}
       /\ \A b \in DOMAIN h.used : r.used[b] = h.used[b]
       /\ r.used[at] \in Nat /\ r.used[at] >= n
  BY <1>7, <1>21, <1>25
<1>27. /\ UnitsOf(at, r.used[at]) \subseteq Cover(h.free)
       /\ Cover(r.free) = Cover(h.free) \ UnitsOf(at, r.used[at])
  BY <1>17, <1>18, <1>21, <1>25
<1>28. \E k \in 1 .. Len(h.free) :
          /\ k = Min(Fitting(h, n)) /\ at = h.free[k].at
          /\ r.used[at] = IF Splits(h.free[k].size - n) THEN n
                          ELSE h.free[k].size
  BY <1>3, <1>21, <1>23, <1>24, <1>25
<1>29. at \in Nat
  BY <1>7
<1> HIDE DEF at
<1>30. QED
  BY <1>2, <1>20, <1>25, <1>26, <1>27, <1>28, <1>29 DEF r

\* What vPortFree does: the block is free, and nothing else changes.
LEMMA FreeIs ==
    ASSUME NEW h, NEW size \in Nat, Sound(h, size), NEW at \in DOMAIN h.used
    PROVE  LET r == Free(h, at)
           IN  /\ Sound(r, size)
               /\ DOMAIN r.used = DOMAIN h.used \ {at}
               /\ \A b \in DOMAIN r.used : r.used[b] = h.used[b]
               /\ Cover(r.free) = Cover(h.free) \cup UnitsOf(at, h.used[at])
<1> DEFINE put == h.used[at]
           block == [at |-> at, size |-> put]
           free == Insert(h.free, block)
           used == [b \in DOMAIN h.used \ {at} |-> h.used[b]]
<1>1. Free(h, at) = [free |-> free, left |-> h.left + put, used |-> used]
  BY DEF Free
<1>2. at \in Nat /\ put \in Nat \ {0}
  BY DEF Sound
<1>3. block \in Blocks /\ block.at = at /\ block.size = put
  BY <1>2 DEF Blocks
<1>4. /\ h.free \in Seq(Blocks) /\ Apart(h.free)
      /\ UnitsOf(at, put) \cap Cover(h.free) = {}
  BY DEF Sound
<1>5. ASSUME NEW i \in DOMAIN h.free PROVE Clear(h.free[i], block)
  <2>1. /\ h.free[i] \in Blocks
        /\ UnitsOf(h.free[i].at, h.free[i].size) \subseteq Cover(h.free)
    BY SoundIs
  <2>2. UnitsOf(h.free[i].at, h.free[i].size) \cap UnitsOf(at, put) = {}
    BY <1>4, <2>1
  <2>3. QED
    BY <1>3, <2>1, <2>2, ClearIs
<1>6. /\ free \in Seq(Blocks) /\ Apart(free)
      /\ Cover(free) = Cover(h.free) \cup UnitsOf(at, put)
  BY <1>3, <1>4, <1>5, InsertIs
<1>7. DOMAIN used = DOMAIN h.used \ {at}
      /\ \A b \in DOMAIN used : used[b] = h.used[b]
  OBVIOUS
<1>8. DOMAIN h.used = DOMAIN used \cup {at} /\ at \notin DOMAIN used
  BY <1>7
<1> HIDE DEF free, used, block
<1>9. Sound([free |-> free, left |-> h.left + put, used |-> used], size)
  <2>1. \A a \in DOMAIN used : a \in Nat /\ used[a] \in Nat \ {0}
    BY <1>7 DEF Sound
  <2>2. \A a \in DOMAIN used : UnitsOf(a, used[a]) \cap Cover(free) = {}
    <3> TAKE a \in DOMAIN used
    <3>1. UnitsOf(a, h.used[a]) \cap Cover(h.free) = {}
          /\ UnitsOf(a, h.used[a]) \cap UnitsOf(at, put) = {}
      BY <1>8 DEF Sound
    <3>2. QED
      BY <1>6, <1>7, <3>1
  <2>3. \A a, b \in DOMAIN used :
           a # b => UnitsOf(a, used[a]) \cap UnitsOf(b, used[b]) = {}
    BY <1>7 DEF Sound
  <2>4. ASSUME NEW u
        PROVE  u \in 0 .. size - 2 <=>
                 \/ u \in Cover(free)
                 \/ \E a \in DOMAIN used : u \in UnitsOf(a, used[a])
    <3>1. u \in 0 .. size - 2 <=>
             \/ u \in Cover(h.free)
             \/ \E a \in DOMAIN h.used : u \in UnitsOf(a, h.used[a])
      BY DEF Sound
    <3>2. (\E a \in DOMAIN h.used : u \in UnitsOf(a, h.used[a])) <=>
             \/ u \in UnitsOf(at, put)
             \/ \E a \in DOMAIN used : u \in UnitsOf(a, used[a])
      BY <1>7, <1>8
    <3>3. QED
      BY <1>6, <3>1, <3>2
  <2>5. h.left + put = Cardinality(Cover(free))
    <3>1. IsFiniteSet(Cover(h.free)) /\ h.left = Cardinality(Cover(h.free))
      BY SoundIs DEF Sound
    <3>2. QED
      BY <1>2, <1>4, <1>6, <3>1, CountUnits
  <2>6. QED
    BY <1>6, <2>1, <2>2, <2>3, <2>4, <2>5 DEF Sound
<1>10. QED
  BY <1>1, <1>6, <1>7, <1>9

\* The region of an empty heap is one free block.
LEMMA RegionIs ==
    ASSUME NEW size \in Nat, size > 1
    PROVE  /\ Sound(DefineRegion(size), size)
           /\ DefineRegion(size).used = << >>
           /\ Cover(DefineRegion(size).free) = UnitsOf(0, size - 1)
           /\ \A n \in 1 .. size - 1 :
                 CanMalloc(DefineRegion(size), n)
                 /\ MallocAt(DefineRegion(size), n) = 0
<1> DEFINE block == [at |-> 0, size |-> size - 1]
           free == <<block>>
           r == DefineRegion(size)
<1>1. block \in Blocks /\ block.at = 0 /\ block.size = size - 1
  BY DEF Blocks
<1>2. r.free = free /\ r.left = size - 1 /\ r.used = << >>
  BY DEF DefineRegion
<1> HIDE DEF block
<1>3. free \in Seq(Blocks) /\ DOMAIN free = {1} /\ free[1] = block
  BY <1>1
<1>4. Apart(free)
  BY <1>3 DEF Apart
<1>5. Cover(free) = UnitsOf(0, size - 1)
  <2>1. \A u : u \in Cover(free) <=> u \in UnitsOf(0, size - 1)
    BY <1>1, <1>3, CoverIs
  <2>2. QED
    BY <2>1
<1>6. DOMAIN r.used = {}
  BY <1>2
<1>7. r.left = Cardinality(Cover(r.free))
  <2>1. Cardinality(UnitsOf(0, size - 1)) = size - 1
    BY UnitsIs
  <2>2. QED
    BY <1>2, <1>5, <2>1
<1>8. \A u : u \in 0 .. size - 2 <=> u \in UnitsOf(0, size - 1)
  BY DEF UnitsOf
<1> HIDE DEF free, r
<1>9. Sound(r, size)
  BY <1>2, <1>3, <1>4, <1>5, <1>6, <1>7, <1>8 DEF Sound
<1>10. ASSUME NEW n \in 1 .. size - 1
       PROVE  CanMalloc(r, n) /\ MallocAt(r, n) = 0
  <2>1. Fitting(r, n) = {1}
    BY <1>1, <1>2, <1>3 DEF Fitting
  <2>2. Min({1}) = 1
    BY DEF Min
  <2>3. QED
    BY <1>1, <1>2, <1>3, <2>1, <2>2 DEF CanMalloc, MallocAt
<1>11. QED
  BY <1>2, <1>5, <1>9, <1>10 DEF r

\* A run of free units with no free unit next to it is one block.
LEMMA RunIsBlock ==
    ASSUME NEW h, NEW size \in Nat, Sound(h, size),
           NEW a \in Nat, NEW m \in Nat \ {0},
           UnitsOf(a, m) \subseteq Cover(h.free),
           a - 1 \notin Cover(h.free), a + m \notin Cover(h.free)
    PROVE  \E i \in 1 .. Len(h.free) : h.free[i] = [at |-> a, size |-> m]
<1>1. /\ DOMAIN h.free = 1 .. Len(h.free) /\ Apart(h.free)
      /\ \A i \in 1 .. Len(h.free) :
            /\ h.free[i] \in Blocks
            /\ h.free[i].at \in Nat /\ h.free[i].size \in Nat \ {0}
            /\ UnitsOf(h.free[i].at, h.free[i].size) \subseteq Cover(h.free)
  BY SoundIs DEF Sound
<1>2. a \in Cover(h.free)
  BY UnitsIs
<1>3. PICK i \in 1 .. Len(h.free) : a \in UnitsOf(h.free[i].at, h.free[i].size)
  BY <1>1, <1>2, CoverIs
<1> DEFINE at == h.free[i].at
           n == h.free[i].size
<1>4. /\ at \in Nat /\ n \in Nat \ {0}
      /\ UnitsOf(at, n) \subseteq Cover(h.free)
      /\ \A u : u \in UnitsOf(at, n) <=> u \in Int /\ at <= u /\ u < at + n
  BY <1>1, UnitsIs
<1>10. at = h.free[i].at /\ n = h.free[i].size
  OBVIOUS
<1>11. a \in UnitsOf(at, n)
  BY <1>3
<1> HIDE DEF at, n
<1>5. \A u : u \in UnitsOf(a, m) <=> u \in Int /\ a <= u /\ u < a + m
  BY UnitsIs
<1>6. at <= a /\ a < at + n
  BY <1>4, <1>11
<1>7. at = a
  <2>1. SUFFICES ASSUME at < a PROVE FALSE
    BY <1>4, <1>6
  <2>2. a - 1 \in Int /\ at <= a - 1 /\ a - 1 < at + n
    BY <1>4, <1>6, <2>1
  <2>3. QED
    BY <1>4, <2>2
<1>8. ~(n > m)
  <2>1. SUFFICES ASSUME n > m PROVE FALSE
    OBVIOUS
  <2>2. a + m \in Int /\ at <= a + m /\ a + m < at + n
    BY <1>4, <1>7, <2>1
  <2>3. QED
    BY <1>4, <2>2
<1>9. ~(n < m)
  <2>1. SUFFICES ASSUME n < m PROVE FALSE
    OBVIOUS
  <2>2. a + n \in Cover(h.free)
    BY <1>4, <1>5, <2>1
  <2>3. PICK j \in 1 .. Len(h.free) :
           a + n \in UnitsOf(h.free[j].at, h.free[j].size)
    BY <1>1, <2>2, CoverIs
  <2>4. /\ h.free[j].at \in Nat /\ h.free[j].size \in Nat
        /\ h.free[j].at <= a + n /\ a + n < h.free[j].at + h.free[j].size
    BY <1>1, <2>3, UnitsIs
  <2>5. j # i
    BY <1>4, <1>7, <1>10, <2>4
  <2>6. CASE i < j
    <3>1. at + n < h.free[j].at
      BY <1>1, <1>10, <2>6 DEF Apart
    <3>2. a + n < h.free[j].at
      BY <1>7, <3>1
    <3>3. QED
      BY <1>4, <2>4, <3>2
  <2>7. CASE j < i
    <3>1. h.free[j].at + h.free[j].size < at
      BY <1>1, <1>10, <2>7 DEF Apart
    <3>2. h.free[j].at + h.free[j].size < a
      BY <1>7, <3>1
    <3>3. QED
      BY <1>4, <2>4, <3>2
  <2>8. QED
    BY <2>5, <2>6, <2>7
<1>12. n = m
  BY <1>4, <1>8, <1>9
<1>13. h.free[i].at = a /\ h.free[i].size = m /\ h.free[i] \in Blocks
  BY <1>1, <1>7, <1>10, <1>12
<1>14. h.free[i] = [at |-> a, size |-> m]
  BY <1>13 DEF Blocks
<1>15. QED
  BY <1>14

\* An allocation finds the first run of free units, if that is large enough.
LEMMA FirstRun ==
    ASSUME NEW h, NEW size \in Nat, Sound(h, size),
           NEW a \in Nat, NEW m \in Nat \ {0}, NEW n \in 1 .. m,
           UnitsOf(a, m) \subseteq Cover(h.free), a + m \notin Cover(h.free),
           \A u \in Cover(h.free) : a <= u
    PROVE  /\ CanMalloc(h, n) /\ MallocAt(h, n) = a
           /\ Malloc(h, n).used[a] = IF Splits(m - n) THEN n ELSE m
<1>1. Cover(h.free) \subseteq 0 .. size - 2
      /\ DOMAIN h.free = 1 .. Len(h.free)
      /\ \A i \in 1 .. Len(h.free) :
            /\ h.free[i].at \in Nat /\ h.free[i].size \in Nat \ {0}
            /\ UnitsOf(h.free[i].at, h.free[i].size) \subseteq Cover(h.free)
            /\ h.free[i].size <= h.left
      /\ h.left \in Nat
  BY SoundIs
<1>2. a - 1 \notin Cover(h.free)
  <2>1. ~(a <= a - 1)
    OBVIOUS
  <2>2. QED
    BY <2>1
<1>3. PICK i \in 1 .. Len(h.free) : h.free[i] = [at |-> a, size |-> m]
  BY <1>2, RunIsBlock
<1>4. h.free[i].at = a /\ h.free[i].size = m
  BY <1>3
<1>5. CanMalloc(h, n)
  <2>1. i \in Fitting(h, n)
    BY <1>1, <1>4 DEF Fitting
  <2>2. n <= h.left
    BY <1>1, <1>4
  <2>3. QED
    BY <2>1, <2>2 DEF CanMalloc
<1>6. Min(Fitting(h, n)) \in 1 .. Len(h.free) /\ Min(Fitting(h, n)) <= i
  BY <1>4, <1>5, FirstFit
<1>7. ASSUME NEW j \in 1 .. Len(h.free), j < i PROVE FALSE
  <2>1. h.free[j].at + h.free[j].size < h.free[i].at
    BY <1>1, <1>7 DEF Sound, Apart
  <2>2. h.free[j].at \in UnitsOf(h.free[j].at, h.free[j].size)
    BY <1>1 DEF UnitsOf
  <2>3. a <= h.free[j].at
    BY <1>1, <2>2
  <2>4. QED
    BY <1>1, <1>4, <2>1, <2>3
<1>8. Min(Fitting(h, n)) = i
  BY <1>6, <1>7
<1>9. MallocAt(h, n) = a
  BY <1>4, <1>8 DEF MallocAt
<1>10. Malloc(h, n).used[a] = IF Splits(m - n) THEN n ELSE m
  <2>1. n \in Nat \ {0}
    OBVIOUS
  <2>2. \E k \in 1 .. Len(h.free) :
           /\ k = Min(Fitting(h, n)) /\ MallocAt(h, n) = h.free[k].at
           /\ Malloc(h, n).used[MallocAt(h, n)]
                = IF Splits(h.free[k].size - n) THEN n ELSE h.free[k].size
    BY <1>5, <2>1, MallocIs
  <2>3. QED
    BY <1>4, <1>8, <1>9, <2>2
<1>11. QED
  BY <1>5, <1>9, <1>10

-----------------------------------------------------------------------------
(* The memory of plays: the inductive invariant *)

PlayTypes ==
    /\ name \in Commands /\ plays \in Commands /\ handle \in Commands
    /\ cli \in {"prompt", "copy", "stack", "tcb", "giveback"}
    /\ newStack \in Address \cup {NULL}
    /\ stage \in [Players -> Stages]
    /\ given \in [Players -> Commands]
    /\ waits \in [Players -> Commands]
    /\ stack \in [Players -> Address \cup {NULL}]
    /\ tcb \in [Players -> Address \cup {NULL}]
    /\ queues \subseteq Address
    /\ dead \in Seq(Players) /\ reaped \subseteq Players
    /\ halted \in BOOLEAN /\ refused \in BOOLEAN /\ overlapped \in BOOLEAN

\* The blocks somebody holds: the boot's, the queues, the stack of a creation in
\* progress, and those of the tasks.
HeldBlocks == {0} \cup queues
          \cup (({newStack} \cup {stack[t] : t \in Players}
                            \cup {tcb[t] : t \in Players}) \ {NULL})

\* The blocks given away are those held, each by one.
OneOwner ==
    /\ DOMAIN heap.used = HeldBlocks
    /\ 0 \notin queues /\ newStack # 0
    /\ newStack # NULL => newStack \notin queues
    /\ \A t \in Players :
          /\ stack[t] # 0 /\ stack[t] \notin queues
          /\ tcb[t] # 0 /\ tcb[t] \notin queues
          /\ newStack # NULL => stack[t] # newStack /\ tcb[t] # newStack
    /\ \A t, u \in Players :
          /\ stack[t] # NULL => stack[t] # tcb[u] /\ (stack[t] = stack[u] => t = u)
          /\ tcb[t] # NULL /\ tcb[t] = tcb[u] => t = u

\* When the blocks are held, and that a task ends and is reaped once.
Lives ==
    /\ (cli \in {"tcb", "giveback"}) <=> newStack # NULL
    /\ \A t \in Players :
          /\ stage[t] = "none" => stack[t] = NULL /\ tcb[t] = NULL
          /\ stage[t] # "none" => tcb[t] # NULL
    /\ \A t \in reaped : stage[t] = "deleted"
    /\ \A i \in DOMAIN dead : stage[dead[i]] = "deleted" /\ dead[i] \notin reaped
    /\ \A i, j \in DOMAIN dead : dead[i] = dead[j] => i = j

MemoryInv == PlayTypes /\ Sound(heap, HeapSize) /\ OneOwner /\ Lives

LEMMA Sizes ==
    /\ HeapSize \in Nat /\ HeapSize > 1 /\ BootSize \in 1 .. HeapSize - 1
    /\ BootSize \in Nat \ {0} /\ MaxPlays \in Nat
    /\ StackSize \in Nat \ {0} /\ TcbSize \in Nat \ {0} /\ QueueSize \in Nat \ {0}
    /\ StackSize > 2 /\ TcbSize > 2 /\ QueueSize > 2
BY SizesAssumption DEF SizesAssumption, MinimumBlock

\* What the boot leaves: its block at the front.
LEMMA BootIs ==
    ASSUME HeapInit
    PROVE  /\ Sound(heap, HeapSize) /\ DOMAIN heap.used = {0}
           /\ heap.used[0] \in Nat /\ heap.used[0] >= BootSize
           /\ heap.used[0] = IF Splits(HeapSize - 1 - BootSize) THEN BootSize
                             ELSE HeapSize - 1
           /\ Cover(heap.free) = UnitsOf(0, HeapSize - 1) \ UnitsOf(0, heap.used[0])
<1> DEFINE h == DefineRegion(HeapSize)
<1>1. heap = Malloc(h, BootSize)
  BY DEF HeapInit
<1>2. /\ Sound(h, HeapSize) /\ h.used = << >>
      /\ Cover(h.free) = UnitsOf(0, HeapSize - 1)
      /\ CanMalloc(h, BootSize) /\ MallocAt(h, BootSize) = 0
  BY Sizes, RegionIs
<1>3. DOMAIN h.used = {}
  BY <1>2
<1>4. \A u : u \in Cover(h.free) <=> u \in Int /\ 0 <= u /\ u < 0 + (HeapSize - 1)
  BY <1>2, Sizes, UnitsIs
<1> HIDE DEF h
<1>5. /\ 0 \in Nat /\ HeapSize - 1 \in Nat \ {0}
      /\ BootSize \in 1 .. HeapSize - 1 /\ 0 + (HeapSize - 1) \notin Cover(h.free)
      /\ \A u \in Cover(h.free) : 0 <= u
  BY <1>4, Sizes
<1>6. heap.used[0] = IF Splits(HeapSize - 1 - BootSize) THEN BootSize
                     ELSE HeapSize - 1
  BY <1>1, <1>2, <1>5, Sizes, FirstRun
<1>7. /\ Sound(heap, HeapSize)
      /\ DOMAIN heap.used = DOMAIN h.used \cup {0}
      /\ heap.used[0] \in Nat /\ heap.used[0] >= BootSize
      /\ Cover(heap.free) = Cover(h.free) \ UnitsOf(0, heap.used[0])
  BY <1>1, <1>2, Sizes, MallocIs
<1>8. QED
  BY <1>2, <1>3, <1>6, <1>7

LEMMA MemoryInit == HeapInit => MemoryInv
<1> SUFFICES ASSUME HeapInit PROVE MemoryInv
  OBVIOUS
<1>1. PlayTypes
  <2>1. 0 \in Commands
    BY Sizes DEF Commands
  <2>2. /\ stage \in [Players -> Stages] /\ given \in [Players -> Commands]
        /\ waits \in [Players -> Commands]
        /\ stack \in [Players -> Address \cup {NULL}]
        /\ tcb \in [Players -> Address \cup {NULL}]
    BY <2>1 DEF HeapInit, Stages
  <2>3. dead \in Seq(Players) /\ reaped \subseteq Players
    BY DEF HeapInit, NoTask
  <2>4. QED
    BY <2>1, <2>2, <2>3 DEF HeapInit, PlayTypes
<1>2. Sound(heap, HeapSize) /\ DOMAIN heap.used = {0}
  BY BootIs
<1>3. /\ queues = {} /\ newStack = NULL /\ cli = "prompt"
      /\ \A t \in Players : stack[t] = NULL /\ tcb[t] = NULL /\ stage[t] = "none"
      /\ reaped = {} /\ dead = <<>> /\ DOMAIN dead = {}
  BY DEF HeapInit, NoTask
<1>4. HeldBlocks = {0}
  BY <1>3 DEF HeldBlocks
<1>5. OneOwner
  BY <1>2, <1>3, <1>4 DEF OneOwner, NULL
<1>6. Lives
  BY <1>3 DEF Lives
<1>7. QED
  BY <1>1, <1>2, <1>5, <1>6 DEF MemoryInv

\* The steps, one by one.
LEMMA HeapSteps ==
    ASSUME HeapNext, reaped \subseteq Players
    PROVE  \/ ClearName \/ CopyName \/ AllocateStack \/ AllocateTcb \/ GiveBack
           \/ \E t \in Players :
                \/ CreateQueue(t) \/ OpenFile(t) \/ Prime(t) \/ Receive(t)
                \/ EndOfFile(t) \/ DeleteSelf(t) \/ TransferComplete(t)
           \/ TakeDead
           \/ \E t \in reaped : t \in Players /\ (FreeStack(t) \/ FreeTcb(t))
<1>1. CASE ~halted /\ ClearName
  BY <1>1
<1>2. CASE Console
  BY <1>2 DEF Console
<1>3. CASE \E t \in Players : Player(t) \/ (~halted /\ TransferComplete(t))
  BY <1>3 DEF Player
<1>4. CASE Idle
  BY <1>4 DEF Idle
<1>5. QED
  BY <1>1, <1>2, <1>3, <1>4 DEF HeapNext

\* A block just allocated belonged to nobody.
LEMMA TakenIs ==
    ASSUME Sound(heap, HeapSize), OneOwner,
           NEW n \in Nat \ {0}, CanMalloc(heap, n)
    PROVE  /\ MallocAt(heap, n) \in Address /\ MallocAt(heap, n) # NULL
           /\ MallocAt(heap, n) \notin HeldBlocks
           /\ Sound(Malloc(heap, n), HeapSize)
           /\ DOMAIN Malloc(heap, n).used = HeldBlocks \cup {MallocAt(heap, n)}
<1> DEFINE a == MallocAt(heap, n)
           r == Malloc(heap, n)
<1>1. /\ Sound(r, HeapSize) /\ a \in Nat /\ a \notin DOMAIN heap.used
      /\ DOMAIN r.used = DOMAIN heap.used \cup {a}
      /\ r.used[a] \in Nat /\ r.used[a] >= n
      /\ UnitsOf(a, r.used[a]) \subseteq Cover(heap.free)
  BY Sizes, MallocIs
<1>2. Cover(heap.free) \subseteq 0 .. HeapSize - 2
  BY Sizes, SoundIs
<1> HIDE DEF a, r
<1>3. a \in UnitsOf(a, r.used[a])
  BY <1>1, UnitsIs
<1>4. a \in Address
  BY <1>1, <1>2, <1>3, Sizes DEF Address
<1>5. a # NULL
  BY <1>1 DEF NULL
<1>6. QED
  BY <1>1, <1>4, <1>5 DEF OneOwner, a, r

LEMMA TypesStep ==
    ASSUME MemoryInv, HeapNext PROVE PlayTypes'
<1> USE DEF Proceed, consoleVars, taskVars, idleVars
<1>1. PlayTypes /\ Sound(heap, HeapSize) /\ OneOwner /\ reaped \subseteq Players
  BY DEF MemoryInv, PlayTypes
<1>2. NULL \in Address \cup {NULL} /\ 0 \in Commands
  BY Sizes DEF Commands
<1>3. ASSUME NEW n \in Nat \ {0}, CanMalloc(heap, n)
      PROVE  MallocAt(heap, n) \in Address
  BY <1>1, <1>3, TakenIs
<1>4. {"none", "create", "open", "prime", "loop", "wait", "exit", "deleted"}
        = Stages
  BY DEF Stages
<1>5. CASE ClearName
  <2>1. plays + 1 \in Commands
    BY <1>1, <1>5, Sizes DEF ClearName, PlayTypes, Commands
  <2>2. overlapped' \in BOOLEAN
    BY <1>1, <1>5 DEF ClearName, PlayTypes
  <2>3. QED
    BY <1>1, <1>2, <1>5, <2>1, <2>2 DEF ClearName, PlayTypes
<1>6. CASE CopyName
  BY <1>1, <1>6 DEF CopyName, WriteName, PlayTypes
<1>7. CASE AllocateStack
  BY <1>1, <1>3, <1>7, Sizes DEF AllocateStack, PlayTypes
<1>8. CASE AllocateTcb
  <2>1. CASE CanMalloc(heap, TcbSize)
    <3>1. PICK t \in Players :
             /\ stage' = [stage EXCEPT ![t] = "create"]
             /\ given' = [given EXCEPT ![t] = plays]
             /\ stack' = [stack EXCEPT ![t] = newStack]
             /\ tcb' = [tcb EXCEPT ![t] = MallocAt(heap, TcbSize)]
      BY <1>8, <2>1 DEF AllocateTcb
    <3>2. MallocAt(heap, TcbSize) \in Address
      BY <1>3, <2>1, Sizes
    <3>3. /\ stage' \in [Players -> Stages] /\ given' \in [Players -> Commands]
          /\ stack' \in [Players -> Address \cup {NULL}]
          /\ tcb' \in [Players -> Address \cup {NULL}]
      BY <1>1, <1>4, <3>1, <3>2 DEF PlayTypes
    <3>4. QED
      BY <1>1, <1>2, <1>8, <2>1, <3>3 DEF AllocateTcb, PlayTypes
  <2>2. CASE ~CanMalloc(heap, TcbSize)
    BY <1>1, <1>8, <2>2 DEF AllocateTcb, PlayTypes
  <2>3. QED
    BY <2>1, <2>2
<1>9. CASE GiveBack
  BY <1>1, <1>2, <1>9 DEF GiveBack, PlayTypes
<1>10. ASSUME NEW t \in Players,
              \/ CreateQueue(t) \/ OpenFile(t) \/ Prime(t) \/ Receive(t)
              \/ EndOfFile(t) \/ DeleteSelf(t) \/ TransferComplete(t)
       PROVE  PlayTypes'
  <2>1. stage' \in [Players -> Stages] /\ waits' \in [Players -> Commands]
        /\ halted' \in BOOLEAN
    <3>1. \/ stage' = stage
          \/ \E s \in Stages : stage' = [stage EXCEPT ![t] = s]
      BY <1>10 DEF CreateQueue, OpenFile, Prime, Receive, EndOfFile, DeleteSelf,
                  TransferComplete, Assert, Stages
    <3>2. \/ waits' = waits
          \/ \E c \in Commands : waits' = [waits EXCEPT ![t] = c]
      BY <1>1, <1>2, <1>10 DEF CreateQueue, OpenFile, Prime, Receive, EndOfFile,
                  DeleteSelf, TransferComplete, Assert, PlayTypes
    <3>3. halted' = halted \/ halted' = TRUE
      BY <1>10 DEF CreateQueue, OpenFile, Prime, Receive, EndOfFile, DeleteSelf,
                  TransferComplete, Assert
    <3>4. QED
      BY <1>1, <3>1, <3>2, <3>3 DEF PlayTypes
  <2>2. handle' \in Commands /\ queues' \subseteq Address
    <3>1. CASE CreateQueue(t)
      BY <1>1, <1>2, <1>3, <3>1, Sizes DEF CreateQueue, PlayTypes
    <3>2. CASE ~CreateQueue(t)
      BY <1>1, <1>10, <3>2 DEF OpenFile, Prime, Receive, EndOfFile, DeleteSelf,
                  TransferComplete, PlayTypes
    <3>3. QED
      BY <3>1, <3>2
  <2>3. dead' \in Seq(Players)
    <3>1. dead' = dead \/ dead' = Append(dead, t)
      BY <1>10 DEF CreateQueue, OpenFile, Prime, Receive, EndOfFile, DeleteSelf,
                  RegisterDead, TransferComplete
    <3>2. QED
      BY <1>1, <3>1 DEF PlayTypes
  <2>4. UNCHANGED <<consoleVars, given, stack, tcb, reaped>>
    BY <1>10 DEF CreateQueue, OpenFile, Prime, Receive, EndOfFile, DeleteSelf,
                TransferComplete
  <2>5. QED
    BY <1>1, <2>1, <2>2, <2>3, <2>4 DEF PlayTypes
<1>11. CASE TakeDead
  <2>1. dead' \in Seq(Players) /\ reaped' \subseteq Players
    BY <1>1, <1>11 DEF TakeDead, PlayTypes
  <2>2. QED
    BY <1>1, <1>11, <2>1 DEF TakeDead, PlayTypes
<1>12. ASSUME NEW t \in reaped, t \in Players, FreeStack(t) PROVE PlayTypes'
  BY <1>1, <1>2, <1>12 DEF FreeStack, PlayTypes
<1>13. ASSUME NEW t \in reaped, t \in Players, FreeTcb(t) PROVE PlayTypes'
  <2>1. /\ stage' \in [Players -> Stages] /\ given' \in [Players -> Commands]
        /\ tcb' \in [Players -> Address \cup {NULL}]
    BY <1>1, <1>2, <1>4, <1>13 DEF FreeTcb, PlayTypes
  <2>2. reaped' \subseteq Players
    BY <1>13 DEF FreeTcb, NoTask
  <2>3. QED
    BY <1>1, <1>13, <2>1, <2>2 DEF FreeTcb, PlayTypes
<1>14. QED
  BY <1>1, <1>5, <1>6, <1>7, <1>8, <1>9, <1>10, <1>11, <1>12, <1>13, HeapSteps

\* What a step does to the heap.
LEMMA HeapChanges ==
    ASSUME MemoryInv, HeapNext
    PROVE  \/ UNCHANGED <<heap, newStack, stack, tcb, queues>>
           \/ AllocateStack /\ CanMalloc(heap, StackSize)
           \/ AllocateTcb /\ CanMalloc(heap, TcbSize)
           \/ GiveBack
           \/ \E t \in Players : CreateQueue(t) /\ CanMalloc(heap, QueueSize)
           \/ \E t \in reaped : t \in Players /\ (FreeStack(t) \/ FreeTcb(t))
<1> USE DEF consoleVars, taskVars, idleVars
<1>1. reaped \subseteq Players
  BY DEF MemoryInv, PlayTypes
<1>2. CASE ClearName
  BY <1>2 DEF ClearName
<1>3. CASE CopyName
  BY <1>3 DEF CopyName
<1>4. CASE AllocateStack
  BY <1>4 DEF AllocateStack
<1>5. CASE AllocateTcb
  BY <1>5 DEF AllocateTcb
<1>6. ASSUME NEW t \in Players, CreateQueue(t)
      PROVE  CanMalloc(heap, QueueSize)
             \/ UNCHANGED <<heap, newStack, stack, tcb, queues>>
  BY <1>6 DEF CreateQueue
<1>7. ASSUME NEW t \in Players,
             \/ OpenFile(t) \/ Prime(t) \/ Receive(t)
             \/ EndOfFile(t) \/ DeleteSelf(t) \/ TransferComplete(t)
      PROVE  UNCHANGED <<heap, newStack, stack, tcb, queues>>
  BY <1>7 DEF OpenFile, Prime, Receive, EndOfFile, DeleteSelf, TransferComplete
<1>8. CASE TakeDead
  BY <1>8 DEF TakeDead
<1>9. QED
  BY <1>1, <1>2, <1>3, <1>4, <1>5, <1>6, <1>7, <1>8, HeapSteps

\* What somebody holds is a block given away.
LEMMA HeldIs ==
    ASSUME MemoryInv
    PROVE  /\ newStack # NULL => newStack \in DOMAIN heap.used
           /\ \A t \in Players :
                 /\ stack[t] # NULL => stack[t] \in DOMAIN heap.used
                 /\ tcb[t] # NULL => tcb[t] \in DOMAIN heap.used
BY DEF MemoryInv, OneOwner, HeldBlocks

LEMMA SoundStep ==
    ASSUME MemoryInv, HeapNext PROVE Sound(heap, HeapSize)'
<1>1. Sound(heap, HeapSize) /\ OneOwner
  BY DEF MemoryInv
<1>2. ASSUME NEW n \in Nat \ {0}, CanMalloc(heap, n), heap' = Malloc(heap, n)
      PROVE  Sound(heap', HeapSize)
  BY <1>1, <1>2, TakenIs
<1>3. ASSUME NEW a \in DOMAIN heap.used, heap' = Free(heap, a)
      PROVE  Sound(heap', HeapSize)
  BY <1>1, <1>3, Sizes, FreeIs
<1>4. CASE UNCHANGED <<heap, newStack, stack, tcb, queues>>
  BY <1>1, <1>4
<1>5. CASE AllocateStack /\ CanMalloc(heap, StackSize)
  BY <1>2, <1>5, Sizes DEF AllocateStack
<1>6. CASE AllocateTcb /\ CanMalloc(heap, TcbSize)
  BY <1>2, <1>6, Sizes DEF AllocateTcb
<1>7. CASE GiveBack
  <2>1. newStack # NULL /\ heap' = Free(heap, newStack)
    BY <1>7 DEF GiveBack, GiveStackBack, MemoryInv, Lives
  <2>2. QED
    BY <1>3, <2>1, HeldIs
<1>8. ASSUME NEW t \in Players, CreateQueue(t), CanMalloc(heap, QueueSize)
      PROVE  Sound(heap, HeapSize)'
  BY <1>2, <1>8, Sizes DEF CreateQueue
<1>9. ASSUME NEW t \in reaped, t \in Players, FreeStack(t)
      PROVE  Sound(heap, HeapSize)'
  BY <1>3, <1>9, HeldIs DEF FreeStack
<1>10. ASSUME NEW t \in reaped, t \in Players, FreeTcb(t)
       PROVE  Sound(heap, HeapSize)'
  <2>1. tcb[t] # NULL
    BY <1>10 DEF MemoryInv, Lives
  <2>2. QED
    BY <1>3, <1>10, <2>1, HeldIs DEF FreeTcb, FreeControlBlock
<1>11. QED
  BY <1>4, <1>5, <1>6, <1>7, <1>8, <1>9, <1>10, HeapChanges

LEMMA OwnerStep ==
    ASSUME MemoryInv, HeapNext PROVE OneOwner'
<1> USE DEF Proceed, consoleVars, taskVars, idleVars
<1>1. PlayTypes /\ Sound(heap, HeapSize) /\ OneOwner /\ Lives
  BY DEF MemoryInv
<1>2. NULL \notin Address /\ NULL # 0
  BY DEF NULL, Address
<1>3. /\ \A t \in Players : stack[t] \in Address \cup {NULL}
                            /\ tcb[t] \in Address \cup {NULL}
      /\ queues \subseteq Address /\ NULL \notin queues
      /\ stack \in [Players -> Address \cup {NULL}]
      /\ tcb \in [Players -> Address \cup {NULL}]
  BY <1>1, <1>2 DEF PlayTypes
<1>4. \A b : b \in HeldBlocks <=>
         \/ b = 0 \/ b \in queues
         \/ b # NULL /\ b = newStack
         \/ \E t \in Players : b # NULL /\ (b = stack[t] \/ b = tcb[t])
  BY <1>2, <1>3 DEF HeldBlocks
<1>5. CASE UNCHANGED <<heap, newStack, stack, tcb, queues>>
  BY <1>1, <1>5 DEF OneOwner, HeldBlocks
<1>6. CASE AllocateStack /\ CanMalloc(heap, StackSize)
  <2> DEFINE a == MallocAt(heap, StackSize)
  <2>1. /\ a # NULL /\ a \notin HeldBlocks
        /\ DOMAIN Malloc(heap, StackSize).used = HeldBlocks \cup {a}
    BY <1>1, <1>6, Sizes, TakenIs
  <2>2. /\ newStack' = a /\ newStack = NULL
        /\ heap' = Malloc(heap, StackSize) /\ UNCHANGED <<stack, tcb, queues>>
    BY <1>1, <1>6 DEF AllocateStack, Lives
  <2> HIDE DEF a
  <2>3. HeldBlocks' = HeldBlocks \cup {a}
    BY <1>2, <1>3, <2>1, <2>2 DEF HeldBlocks
  <2>4. DOMAIN heap'.used = HeldBlocks'
    BY <2>1, <2>2, <2>3
  <2>5. /\ a # 0 /\ a \notin queues
        /\ \A t \in Players : stack[t] # a /\ tcb[t] # a
    BY <1>4, <2>1
  <2>6. QED
    BY <1>1, <2>2, <2>4, <2>5 DEF OneOwner
<1>7. CASE AllocateTcb /\ CanMalloc(heap, TcbSize)
  <2> DEFINE a == MallocAt(heap, TcbSize)
  <2>1. /\ a # NULL /\ a \notin HeldBlocks
        /\ DOMAIN Malloc(heap, TcbSize).used = HeldBlocks \cup {a}
    BY <1>1, <1>7, Sizes, TakenIs
  <2>2. PICK t \in Players : /\ stage[t] = "none"
                             /\ stack' = [stack EXCEPT ![t] = newStack]
                             /\ tcb' = [tcb EXCEPT ![t] = a]
    BY <1>7 DEF AllocateTcb
  <2>3. /\ newStack # NULL /\ newStack' = NULL /\ UNCHANGED queues
        /\ heap' = Malloc(heap, TcbSize) /\ stack[t] = NULL /\ tcb[t] = NULL
    BY <1>1, <1>7, <2>2 DEF AllocateTcb, Lives
  <2> HIDE DEF a
  <2>4. /\ stack'[t] = newStack /\ tcb'[t] = a
        /\ \A u \in Players : u # t => stack'[u] = stack[u] /\ tcb'[u] = tcb[u]
    BY <1>3, <2>2
  <2>5. \A b : b \in HeldBlocks' <=>
           \/ b = 0 \/ b \in queues
           \/ \E u \in Players : b # NULL /\ (b = stack'[u] \/ b = tcb'[u])
    BY <1>2, <1>3, <2>3 DEF HeldBlocks
  <2>6. ASSUME NEW b PROVE b \in HeldBlocks' <=> b \in HeldBlocks \cup {a}
    BY <1>4, <2>1, <2>3, <2>4, <2>5
  <2>7. DOMAIN heap'.used = HeldBlocks'
    BY <2>1, <2>3, <2>6
  <2>8. /\ a # 0 /\ a \notin queues /\ a # newStack
        /\ \A u \in Players : stack[u] # a /\ tcb[u] # a
    BY <1>4, <2>1
  <2>9. /\ newStack # 0 /\ newStack \notin queues
        /\ \A u \in Players : stack[u] # newStack /\ tcb[u] # newStack
    BY <1>1, <2>3 DEF OneOwner
  <2>10. \A u \in Players : /\ stack'[u] # 0 /\ stack'[u] \notin queues
                            /\ tcb'[u] # 0 /\ tcb'[u] \notin queues
    BY <1>1, <2>4, <2>8, <2>9 DEF OneOwner
  <2>11. \A u, v \in Players :
            /\ stack'[u] # NULL =>
                  stack'[u] # tcb'[v] /\ (stack'[u] = stack'[v] => u = v)
            /\ tcb'[u] # NULL /\ tcb'[u] = tcb'[v] => u = v
    BY <1>1, <2>4, <2>8, <2>9 DEF OneOwner
  <2>12. QED
    BY <1>1, <1>2, <2>3, <2>7, <2>10, <2>11 DEF OneOwner
<1>8. CASE GiveBack
  <2>1. /\ newStack # NULL /\ newStack' = NULL
        /\ heap' = Free(heap, newStack) /\ UNCHANGED <<stack, tcb, queues>>
    BY <1>1, <1>8 DEF GiveBack, GiveStackBack, Lives
  <2>2. newStack \in DOMAIN heap.used
    BY <2>1, HeldIs
  <2>3. DOMAIN heap'.used = HeldBlocks \ {newStack}
    BY <1>1, <2>1, <2>2, Sizes, FreeIs DEF OneOwner
  <2>4. /\ newStack # 0 /\ newStack \notin queues
        /\ \A u \in Players : stack[u] # newStack /\ tcb[u] # newStack
    BY <1>1, <2>1 DEF OneOwner
  <2>5. \A b : b \in HeldBlocks' <=>
           \/ b = 0 \/ b \in queues
           \/ \E u \in Players : b # NULL /\ (b = stack[u] \/ b = tcb[u])
    BY <1>2, <1>3, <2>1 DEF HeldBlocks
  <2>6. ASSUME NEW b PROVE b \in HeldBlocks' <=> b \in HeldBlocks \ {newStack}
    BY <1>4, <2>4, <2>5
  <2>7. DOMAIN heap'.used = HeldBlocks'
    BY <2>3, <2>6
  <2>8. QED
    BY <1>1, <1>2, <2>1, <2>7 DEF OneOwner
<1>9. ASSUME NEW t \in Players, CreateQueue(t), CanMalloc(heap, QueueSize)
      PROVE  OneOwner'
  <2> DEFINE a == MallocAt(heap, QueueSize)
  <2>1. /\ a # NULL /\ a \notin HeldBlocks
        /\ DOMAIN Malloc(heap, QueueSize).used = HeldBlocks \cup {a}
    BY <1>1, <1>9, Sizes, TakenIs
  <2>2. /\ queues' = queues \cup {a} /\ heap' = Malloc(heap, QueueSize)
        /\ UNCHANGED <<newStack, stack, tcb>>
    BY <1>9 DEF CreateQueue
  <2> HIDE DEF a
  <2>3. HeldBlocks' = HeldBlocks \cup {a}
    BY <2>1, <2>2 DEF HeldBlocks
  <2>4. DOMAIN heap'.used = HeldBlocks'
    BY <2>1, <2>2, <2>3
  <2>5. /\ a # 0 /\ (newStack # NULL => newStack # a)
        /\ \A u \in Players : stack[u] # a /\ tcb[u] # a
    BY <1>4, <2>1
  <2>6. QED
    BY <1>1, <2>2, <2>4, <2>5 DEF OneOwner
<1>10. ASSUME NEW t \in reaped, t \in Players, FreeStack(t) PROVE OneOwner'
  <2>1. /\ stack[t] # NULL /\ stack' = [stack EXCEPT ![t] = NULL]
        /\ heap' = Free(heap, stack[t]) /\ UNCHANGED <<newStack, tcb, queues>>
    BY <1>10 DEF FreeStack
  <2>2. stack[t] \in DOMAIN heap.used
    BY <1>10, <2>1, HeldIs
  <2>3. DOMAIN heap'.used = HeldBlocks \ {stack[t]}
    BY <1>1, <2>1, <2>2, Sizes, FreeIs DEF OneOwner
  <2>4. /\ stack'[t] = NULL
        /\ \A u \in Players : u # t => stack'[u] = stack[u]
    BY <1>3, <1>10, <2>1
  <2>5. /\ stack[t] # 0 /\ stack[t] \notin queues
        /\ newStack # NULL => stack[t] # newStack
        /\ \A u \in Players : tcb[u] # stack[t] /\ (u # t => stack[u] # stack[t])
    BY <1>1, <1>10, <2>1 DEF OneOwner
  <2>6. \A b : b \in HeldBlocks' <=>
           \/ b = 0 \/ b \in queues
           \/ b # NULL /\ b = newStack
           \/ \E u \in Players : b # NULL /\ (b = stack'[u] \/ b = tcb[u])
    BY <1>2, <1>3, <2>1 DEF HeldBlocks
  <2>7. ASSUME NEW b PROVE b \in HeldBlocks' <=> b \in HeldBlocks \ {stack[t]}
    BY <1>4, <1>10, <2>1, <2>4, <2>5, <2>6
  <2>8. DOMAIN heap'.used = HeldBlocks'
    BY <2>3, <2>7
  <2>9. QED
    BY <1>1, <1>2, <1>3, <2>1, <2>4, <2>8 DEF OneOwner
<1>11. ASSUME NEW t \in reaped, t \in Players, FreeTcb(t) PROVE OneOwner'
  <2>1. /\ tcb[t] # NULL /\ tcb' = [tcb EXCEPT ![t] = NULL]
        /\ heap' = Free(heap, tcb[t]) /\ UNCHANGED <<newStack, stack, queues>>
    BY <1>1, <1>11 DEF FreeTcb, FreeControlBlock, Lives
  <2>2. tcb[t] \in DOMAIN heap.used
    BY <1>11, <2>1, HeldIs
  <2>3. DOMAIN heap'.used = HeldBlocks \ {tcb[t]}
    BY <1>1, <2>1, <2>2, Sizes, FreeIs DEF OneOwner
  <2>4. /\ tcb'[t] = NULL
        /\ \A u \in Players : u # t => tcb'[u] = tcb[u]
    BY <1>3, <1>11, <2>1
  <2>5. /\ tcb[t] # 0 /\ tcb[t] \notin queues
        /\ newStack # NULL => tcb[t] # newStack
        /\ \A u \in Players : stack[u] # tcb[t] /\ (u # t => tcb[u] # tcb[t])
    BY <1>1, <1>11, <2>1 DEF OneOwner
  <2>6. \A b : b \in HeldBlocks' <=>
           \/ b = 0 \/ b \in queues
           \/ b # NULL /\ b = newStack
           \/ \E u \in Players : b # NULL /\ (b = stack[u] \/ b = tcb'[u])
    BY <1>2, <1>3, <2>1 DEF HeldBlocks
  <2>7. ASSUME NEW b PROVE b \in HeldBlocks' <=> b \in HeldBlocks \ {tcb[t]}
    BY <1>4, <1>11, <2>1, <2>4, <2>5, <2>6
  <2>8. DOMAIN heap'.used = HeldBlocks'
    BY <2>3, <2>7
  <2>9. QED
    BY <1>1, <1>2, <1>3, <2>1, <2>4, <2>8 DEF OneOwner
<1>12. QED
  BY <1>5, <1>6, <1>7, <1>8, <1>9, <1>10, <1>11, HeapChanges

LEMMA LivesStep ==
    ASSUME MemoryInv, HeapNext PROVE Lives'
<1> USE DEF Proceed, consoleVars, taskVars, idleVars
<1>1. PlayTypes /\ Sound(heap, HeapSize) /\ OneOwner /\ Lives
  BY DEF MemoryInv
<1>2. /\ stage \in [Players -> Stages] /\ reaped \subseteq Players
      /\ stack \in [Players -> Address \cup {NULL}]
      /\ tcb \in [Players -> Address \cup {NULL}]
      /\ dead \in Seq(Players) /\ Len(dead) \in Nat /\ DOMAIN dead = 1 .. Len(dead)
      /\ \A i \in 1 .. Len(dead) : dead[i] \in Players
  <2>1. PlayTypes
    BY <1>1
  <2>2. QED
    BY <2>1 DEF PlayTypes
<1>3. CASE ClearName
  BY <1>1, <1>3 DEF ClearName, Lives
<1>4. CASE CopyName
  BY <1>1, <1>4 DEF CopyName, Lives
<1>5. CASE AllocateStack
  <2>1. CASE CanMalloc(heap, StackSize)
    <3>1. newStack' # NULL /\ cli' = "tcb"
      BY <1>1, <1>5, <2>1, Sizes, TakenIs DEF AllocateStack
    <3>2. QED
      BY <1>1, <1>5, <3>1 DEF AllocateStack, Lives
  <2>2. CASE ~CanMalloc(heap, StackSize)
    BY <1>1, <1>5, <2>2 DEF AllocateStack, Lives
  <2>3. QED
    BY <2>1, <2>2
<1>6. CASE AllocateTcb
  <2>1. CASE CanMalloc(heap, TcbSize)
    <3>1. MallocAt(heap, TcbSize) # NULL
      BY <1>1, <2>1, Sizes, TakenIs
    <3>2. PICK t \in Players :
             /\ stage[t] = "none"
             /\ stage' = [stage EXCEPT ![t] = "create"]
             /\ stack' = [stack EXCEPT ![t] = newStack]
             /\ tcb' = [tcb EXCEPT ![t] = MallocAt(heap, TcbSize)]
      BY <1>6, <2>1 DEF AllocateTcb
    <3>3. /\ stage'[t] = "create" /\ tcb'[t] # NULL
          /\ \A u \in Players : u # t => /\ stage'[u] = stage[u]
                                         /\ stack'[u] = stack[u] /\ tcb'[u] = tcb[u]
      BY <1>2, <3>1, <3>2
    <3>4. newStack' = NULL /\ cli' = "prompt" /\ UNCHANGED <<dead, reaped>>
      BY <1>6, <2>1 DEF AllocateTcb
    <3>5. t \notin reaped /\ \A i \in DOMAIN dead : dead[i] # t
      BY <1>1, <3>2 DEF Lives
    <3>6. QED
      BY <1>1, <1>2, <3>3, <3>4, <3>5 DEF Lives
  <2>2. CASE ~CanMalloc(heap, TcbSize)
    BY <1>1, <1>6, <2>2 DEF AllocateTcb, Lives
  <2>3. QED
    BY <2>1, <2>2
<1>7. CASE GiveBack
  BY <1>1, <1>7 DEF GiveBack, Lives
\* A task that lives goes on.
<1>8. ASSUME NEW t \in Players,
             \/ CreateQueue(t) \/ OpenFile(t) \/ Prime(t) \/ Receive(t)
             \/ EndOfFile(t) \/ TransferComplete(t)
      PROVE  Lives'
  <2>1. \/ UNCHANGED stage
        \/ /\ stage[t] # "none" /\ stage[t] # "deleted"
           /\ \E s \in Stages : s # "none" /\ stage' = [stage EXCEPT ![t] = s]
    BY <1>8 DEF CreateQueue, OpenFile, Prime, Receive, EndOfFile,
               TransferComplete, Assert, Stages
  <2>2. UNCHANGED <<cli, newStack, stack, tcb, dead, reaped>>
    BY <1>8 DEF CreateQueue, OpenFile, Prime, Receive, EndOfFile, TransferComplete
  <2>3. \/ UNCHANGED stage
        \/ /\ stage[t] # "none" /\ stage[t] # "deleted" /\ stage'[t] # "none"
           /\ \A u \in Players : u # t => stage'[u] = stage[u]
    BY <1>2, <2>1
  <2>4. stage[t] # "deleted" =>
           t \notin reaped /\ \A i \in DOMAIN dead : dead[i] # t
    BY <1>1 DEF Lives
  <2>5. QED
    BY <1>1, <1>2, <2>2, <2>3, <2>4 DEF Lives
<1>9. ASSUME NEW t \in Players, DeleteSelf(t) PROVE Lives'
  <2>1. /\ stage[t] = "exit" /\ stage' = [stage EXCEPT ![t] = "deleted"]
        /\ dead' = Append(dead, t)
        /\ UNCHANGED <<cli, newStack, stack, tcb, reaped>>
    BY <1>9 DEF DeleteSelf, RegisterDead
  <2>2. /\ stage'[t] = "deleted"
        /\ \A u \in Players : u # t => stage'[u] = stage[u]
    BY <1>2, <2>1
  <2>3. /\ DOMAIN dead' = 1 .. Len(dead) + 1 /\ dead'[Len(dead) + 1] = t
        /\ \A i \in 1 .. Len(dead) : dead'[i] = dead[i]
    BY <1>2, <2>1
  <2>4. t \notin reaped /\ \A i \in 1 .. Len(dead) : dead[i] # t
    BY <1>1, <1>2, <2>1 DEF Lives
  <2>5. \A i \in DOMAIN dead' : stage'[dead'[i]] = "deleted" /\ dead'[i] \notin reaped
    BY <1>1, <1>2, <2>2, <2>3, <2>4 DEF Lives
  <2>6. \A i, j \in DOMAIN dead' : dead'[i] = dead'[j] => i = j
    <3>1. \A i \in DOMAIN dead' : i \in 1 .. Len(dead) \/ i = Len(dead) + 1
      BY <1>2, <2>3
    <3>2. \A i, j \in 1 .. Len(dead) : dead[i] = dead[j] => i = j
      BY <1>1, <1>2 DEF Lives
    <3>3. QED
      BY <2>3, <2>4, <3>1, <3>2
  <2>7. \A u \in Players : stage'[u] = "none" <=> stage[u] = "none"
    BY <2>1, <2>2
  <2>8. \A u \in reaped : stage'[u] = "deleted"
    BY <1>1, <1>2, <2>2 DEF Lives
  <2>9. QED
    BY <1>1, <2>1, <2>5, <2>6, <2>7, <2>8 DEF Lives
<1>10. CASE TakeDead
  <2>1. /\ reaped' = {Head(dead)} /\ dead' = Tail(dead) /\ dead # <<>>
        /\ UNCHANGED <<cli, newStack, stage, stack, tcb>>
    BY <1>10 DEF TakeDead
  <2>2. /\ Len(dead) >= 1 /\ Head(dead) = dead[1] /\ 1 \in DOMAIN dead
        /\ DOMAIN dead' = 1 .. Len(dead) - 1
        /\ \A i \in 1 .. Len(dead) - 1 : dead'[i] = dead[i + 1] /\ i + 1 \in DOMAIN dead
    BY <1>2, <2>1
  <2>3. \A i \in DOMAIN dead' : stage[dead'[i]] = "deleted" /\ dead'[i] # dead[1]
    <3> TAKE i \in DOMAIN dead'
    <3>1. dead'[i] = dead[i + 1] /\ i + 1 \in DOMAIN dead /\ i + 1 # 1
      BY <2>2
    <3>2. QED
      BY <1>1, <2>2, <3>1 DEF Lives
  <2>4. \A i, j \in DOMAIN dead' : dead'[i] = dead'[j] => i = j
    <3> TAKE i, j \in DOMAIN dead'
    <3>1. /\ dead'[i] = dead[i + 1] /\ i + 1 \in DOMAIN dead
          /\ dead'[j] = dead[j + 1] /\ j + 1 \in DOMAIN dead
          /\ i \in Int /\ j \in Int
      BY <2>2
    <3>2. dead[i + 1] = dead[j + 1] => i + 1 = j + 1
      BY <1>1, <3>1 DEF Lives
    <3>3. QED
      BY <3>1, <3>2
  <2>5. \A u \in reaped' : stage[u] = "deleted"
    BY <1>1, <2>1, <2>2 DEF Lives
  <2>6. \A i \in DOMAIN dead' : dead'[i] \notin reaped'
    BY <2>1, <2>2, <2>3
  <2>7. QED
    BY <1>1, <2>1, <2>3, <2>4, <2>5, <2>6 DEF Lives
<1>11. ASSUME NEW t \in reaped, t \in Players, FreeStack(t) PROVE Lives'
  <2>1. /\ stack' = [stack EXCEPT ![t] = NULL]
        /\ UNCHANGED <<cli, newStack, stage, tcb, dead, reaped>>
    BY <1>11 DEF FreeStack
  <2>2. \A u \in Players : stack[u] = NULL => stack'[u] = NULL
    BY <1>2, <2>1
  <2>3. QED
    BY <1>1, <2>1, <2>2 DEF Lives
<1>12. ASSUME NEW t \in reaped, t \in Players, FreeTcb(t) PROVE Lives'
  <2>1. /\ stack[t] = NULL /\ tcb' = [tcb EXCEPT ![t] = NULL]
        /\ stage' = [stage EXCEPT ![t] = "none"]
        /\ reaped' = {} /\ UNCHANGED <<cli, newStack, stack, dead>>
    BY <1>12 DEF FreeTcb, NoTask
  <2>2. /\ stage'[t] = "none" /\ tcb'[t] = NULL
        /\ \A u \in Players : u # t => stage'[u] = stage[u] /\ tcb'[u] = tcb[u]
    BY <1>2, <1>12, <2>1
  <2>3. \A i \in DOMAIN dead : dead[i] # t
    BY <1>1 DEF Lives
  <2>4. QED
    BY <1>1, <1>2, <2>1, <2>2, <2>3 DEF Lives
<1>13. QED
  BY <1>2, <1>3, <1>4, <1>5, <1>6, <1>7, <1>8, <1>9, <1>10, <1>11, <1>12, HeapSteps

LEMMA MemoryStep ==
    ASSUME MemoryInv, [HeapNext]_heapVars PROVE MemoryInv'
<1>1. CASE HeapNext
  BY <1>1, TypesStep, SoundStep, OwnerStep, LivesStep DEF MemoryInv
<1>2. CASE UNCHANGED heapVars
  <2>1. UNCHANGED <<heap, name, cli, newStack, plays, refused, overlapped, stage,
                    given, stack, tcb, waits, dead, reaped, handle, queues,
                    halted>>
    BY <1>2 DEF heapVars, consoleVars, taskVars, idleVars
  <2>2. PlayTypes' /\ Lives'
    BY <2>1 DEF MemoryInv, PlayTypes, Lives
  <2>3. Sound(heap, HeapSize)' /\ OneOwner'
    BY <2>1 DEF MemoryInv, OneOwner, HeldBlocks
  <2>4. QED
    BY <2>2, <2>3 DEF MemoryInv
<1>3. QED
  BY <1>1, <1>2

-----------------------------------------------------------------------------
(* The memory is accounted for *)

LEMMA SoundTypes ==
    ASSUME Sound(heap, HeapSize)
    PROVE  /\ heap.left \in 0 .. HeapSize
           /\ heap.free \in Seq([at : Address, size : 1 .. HeapSize])
           /\ \A a \in DOMAIN heap.used :
                 a \in Address /\ heap.used[a] \in 1 .. HeapSize
<1>1. /\ Cover(heap.free) \subseteq 0 .. HeapSize - 2
      /\ heap.left \in Nat /\ heap.left <= HeapSize
      /\ Len(heap.free) \in Nat /\ DOMAIN heap.free = 1 .. Len(heap.free)
      /\ \A i \in 1 .. Len(heap.free) :
            /\ heap.free[i] \in Blocks
            /\ heap.free[i].at \in Nat /\ heap.free[i].size \in Nat \ {0}
            /\ UnitsOf(heap.free[i].at, heap.free[i].size) \subseteq Cover(heap.free)
  BY Sizes, SoundIs
<1>2. ASSUME NEW a \in Nat, NEW n \in Nat \ {0},
             UnitsOf(a, n) \subseteq 0 .. HeapSize - 2
      PROVE  a \in Address /\ n \in 1 .. HeapSize
  <2>1. a \in UnitsOf(a, n) /\ a + n - 1 \in UnitsOf(a, n)
    BY DEF UnitsOf
  <2>2. a \in 0 .. HeapSize - 2 /\ a + n - 1 \in 0 .. HeapSize - 2
    BY <1>2, <2>1
  <2>3. QED
    BY <2>2, Sizes DEF Address
<1>3. ASSUME NEW i \in 1 .. Len(heap.free)
      PROVE  heap.free[i] \in [at : Address, size : 1 .. HeapSize]
  <2>1. UnitsOf(heap.free[i].at, heap.free[i].size) \subseteq 0 .. HeapSize - 2
    BY <1>1
  <2>2. heap.free[i].at \in Address /\ heap.free[i].size \in 1 .. HeapSize
    BY <1>1, <1>2, <2>1
  <2>3. QED
    BY <1>1, <2>2 DEF Blocks
<1>4. heap.free \in Seq([at : Address, size : 1 .. HeapSize])
  <2>1. heap.free \in Seq(Blocks)
    BY DEF Sound
  <2>2. SubSeq(heap.free, 1, Len(heap.free)) = heap.free
    BY <2>1, SubSeqFull
  <2>3. SubSeq(heap.free, 1, Len(heap.free))
          \in Seq([at : Address, size : 1 .. HeapSize])
    BY <1>1, <1>3, SubSeqProperties
  <2>4. QED
    BY <2>2, <2>3
<1>5. ASSUME NEW a \in DOMAIN heap.used
      PROVE  a \in Address /\ heap.used[a] \in 1 .. HeapSize
  <2>1. a \in Nat /\ heap.used[a] \in Nat \ {0}
    BY DEF Sound
  <2>2. UnitsOf(a, heap.used[a]) \subseteq 0 .. HeapSize - 2
    BY DEF Sound
  <2>3. QED
    BY <1>2, <2>1, <2>2
<1>6. QED
  BY <1>1, <1>4, <1>5, Sizes

LEMMA SoundTiles ==
    ASSUME Sound(heap, HeapSize) PROVE HeapSound
<1>1. /\ Len(heap.free) \in Nat /\ DOMAIN heap.free = 1 .. Len(heap.free)
      /\ \A i \in 1 .. Len(heap.free) :
            UnitsOf(heap.free[i].at, heap.free[i].size) \subseteq Cover(heap.free)
  BY Sizes, SoundIs
<1>2. \A i \in 1 .. Len(heap.free) - 1 :
         heap.free[i].at + heap.free[i].size < heap.free[i + 1].at
  <2> TAKE i \in 1 .. Len(heap.free) - 1
  <2>1. i \in DOMAIN heap.free /\ i + 1 \in DOMAIN heap.free /\ i < i + 1
    BY <1>1
  <2>2. QED
    BY <2>1 DEF Sound, Apart
<1>3. \A a \in DOMAIN heap.used : \A i \in DOMAIN heap.free :
         UnitsOf(a, heap.used[a])
           \cap UnitsOf(heap.free[i].at, heap.free[i].size) = {}
  <2> TAKE a \in DOMAIN heap.used
  <2> TAKE i \in DOMAIN heap.free
  <2>1. UnitsOf(a, heap.used[a]) \cap Cover(heap.free) = {}
    BY DEF Sound
  <2>2. UnitsOf(heap.free[i].at, heap.free[i].size) \subseteq Cover(heap.free)
    BY <1>1
  <2>3. QED
    BY <2>1, <2>2
<1>4. \A a, b \in DOMAIN heap.used :
         a # b => UnitsOf(a, heap.used[a]) \cap UnitsOf(b, heap.used[b]) = {}
  BY DEF Sound
<1>5. UNION ({UnitsOf(a, heap.used[a]) : a \in DOMAIN heap.used}
             \cup {UnitsOf(heap.free[i].at, heap.free[i].size) :
                      i \in DOMAIN heap.free})
        = 0 .. HeapSize - 2
  <2>1. ASSUME NEW u
        PROVE  u \in UNION ({UnitsOf(a, heap.used[a]) : a \in DOMAIN heap.used}
                            \cup {UnitsOf(heap.free[i].at, heap.free[i].size) :
                                     i \in DOMAIN heap.free})
               <=> \/ \E a \in DOMAIN heap.used : u \in UnitsOf(a, heap.used[a])
                   \/ u \in Cover(heap.free)
    BY CoverIs
  <2>2. QED
    BY <2>1 DEF Sound
<1>6. heap.left = Cardinality(FreeUnits(heap))
  BY DEF Sound, FreeUnits, Cover
<1>7. QED
  BY <1>2, <1>3, <1>4, <1>5, <1>6 DEF HeapSound, Tiled, CountTrue

LEMMA OwnersIs ==
    ASSUME MemoryInv PROVE OnlyQueuesLeak
<1>1. PlayTypes /\ OneOwner
  BY DEF MemoryInv
<1>2. NULL \notin Address /\ NULL # 0
  BY DEF NULL, Address
<1>3. NULL \notin queues
  BY <1>1, <1>2 DEF PlayTypes
<1>4. \A o : o \in Owners <=>
         \/ o = <<"boot", 0>>
         \/ o = <<"console", newStack>>
         \/ \E t \in Players : o = <<"stack", stack[t]>>
         \/ \E t \in Players : o = <<"tcb", tcb[t]>>
         \/ \E q \in queues : o = <<"queue", q>>
  BY DEF Owners
<1>5. DOMAIN heap.used = {o[2] : o \in Owners} \ {NULL}
  <2>1. ASSUME NEW b \in HeldBlocks PROVE b \in {o[2] : o \in Owners} \ {NULL}
    <3>1. \/ b = 0 \/ b \in queues
          \/ b # NULL /\ b = newStack
          \/ \E t \in Players : b # NULL /\ (b = stack[t] \/ b = tcb[t])
      BY DEF HeldBlocks
    <3>2. b # NULL
      BY <1>2, <1>3, <3>1
    <3>3. \E o \in Owners : b = o[2]
      <4>1. CASE b = 0
        <5>1. <<"boot", 0>> \in Owners /\ <<"boot", 0>>[2] = b
          BY <1>4, <4>1
        <5>2. QED
          BY <5>1
      <4>2. CASE b \in queues
        <5>1. <<"queue", b>> \in Owners /\ <<"queue", b>>[2] = b
          BY <1>4, <4>2
        <5>2. QED
          BY <5>1
      <4>3. CASE b = newStack
        <5>1. <<"console", b>> \in Owners /\ <<"console", b>>[2] = b
          BY <1>4, <4>3
        <5>2. QED
          BY <5>1
      <4>4. ASSUME NEW t \in Players, b = stack[t]
            PROVE  \E o \in Owners : b = o[2]
        <5>1. <<"stack", b>> \in Owners /\ <<"stack", b>>[2] = b
          BY <1>4, <4>4
        <5>2. QED
          BY <5>1
      <4>5. ASSUME NEW t \in Players, b = tcb[t]
            PROVE  \E o \in Owners : b = o[2]
        <5>1. <<"tcb", b>> \in Owners /\ <<"tcb", b>>[2] = b
          BY <1>4, <4>5
        <5>2. QED
          BY <5>1
      <4>6. QED
        BY <3>1, <4>1, <4>2, <4>3, <4>4, <4>5
    <3>4. QED
      BY <3>2, <3>3
  <2>2. ASSUME NEW o \in Owners, o[2] # NULL PROVE o[2] \in HeldBlocks
    <3>1. \/ o[2] = 0 \/ o[2] = newStack \/ o[2] \in queues
          \/ \E t \in Players : o[2] = stack[t] \/ o[2] = tcb[t]
      BY <1>4
    <3>2. QED
      BY <2>2, <3>1 DEF HeldBlocks
  <2>3. DOMAIN heap.used = HeldBlocks
    BY <1>1 DEF OneOwner
  <2>4. QED
    BY <2>1, <2>2, <2>3
<1>6. \A o, p \in Owners : o[2] = p[2] /\ o[2] # NULL => o = p
  <2> SUFFICES ASSUME NEW o \in Owners, NEW p \in Owners, o[2] = p[2], o[2] # NULL
               PROVE  o = p
    OBVIOUS
  <2> DEFINE b == o[2]
  <2>1. ASSUME NEW q \in Owners, q[2] = b
        PROVE  \/ q = <<"boot", b>> /\ b = 0
               \/ q = <<"console", b>> /\ b = newStack
               \/ q = <<"stack", b>> /\ \E t \in Players : b = stack[t]
               \/ q = <<"tcb", b>> /\ \E t \in Players : b = tcb[t]
               \/ q = <<"queue", b>> /\ b \in queues
    BY <1>4, <2>1
  <2>2. /\ \/ o = <<"boot", b>> /\ b = 0
           \/ o = <<"console", b>> /\ b = newStack
           \/ o = <<"stack", b>> /\ \E t \in Players : b = stack[t]
           \/ o = <<"tcb", b>> /\ \E t \in Players : b = tcb[t]
           \/ o = <<"queue", b>> /\ b \in queues
        /\ \/ p = <<"boot", b>> /\ b = 0
           \/ p = <<"console", b>> /\ b = newStack
           \/ p = <<"stack", b>> /\ \E t \in Players : b = stack[t]
           \/ p = <<"tcb", b>> /\ \E t \in Players : b = tcb[t]
           \/ p = <<"queue", b>> /\ b \in queues
    BY <2>1
  <2>3. b # NULL
    OBVIOUS
  <2> HIDE DEF b
  <2>4. QED
    BY <1>1, <2>2, <2>3 DEF OneOwner
<1>7. \A t, u \in Players : stack[t] = stack[u] /\ stack[t] # NULL => t = u
  BY <1>1 DEF OneOwner
<1>8. QED
  BY <1>5, <1>6, <1>7 DEF OnlyQueuesLeak

\* The memory of the heap is accounted for, by its blocks and by their owners, at
\* every moment between two calls of the allocator, for any region, any sizes and
\* any order of plays, refusals and deletions: heap_5's list stays in order and
\* joined, its counter true, and only the queues of plays stay behind.
THEOREM MemoryOfPlays == HeapSpec => []MemoryAccounted
<1>1. HeapInit => MemoryInv
  BY MemoryInit
<1>2. MemoryInv /\ [HeapNext]_heapVars => MemoryInv'
  BY MemoryStep
<1>3. MemoryInv => MemoryAccounted
  <2> SUFFICES ASSUME MemoryInv PROVE MemoryAccounted
    OBVIOUS
  <2>1. Sound(heap, HeapSize) /\ PlayTypes
    BY DEF MemoryInv
  <2>2. HeapTypeOK
    BY <2>1, SoundTypes DEF HeapTypeOK, PlayTypes
  <2>3. QED
    BY <2>1, <2>2, SoundTiles, OwnersIs DEF MemoryAccounted
<1>4. QED
  BY <1>1, <1>2, <1>3, PTL DEF HeapSpec

-----------------------------------------------------------------------------
(* The name a play opens *)

NameInv ==
    /\ name = IF cli = "copy" THEN 0 ELSE plays
    /\ \A t \in Players : stage[t] # "none" =>
          given[t] \in 1 .. IF cli = "prompt" THEN plays ELSE plays - 1
    /\ cli # "prompt" => plays >= 1

LEMMA NameStep ==
    ASSUME PlayTypes, NameInv, [HeapNext]_heapVars PROVE NameInv'
<1> USE DEF Proceed, consoleVars, taskVars, idleVars
<1>1. /\ stage \in [Players -> Stages] /\ given \in [Players -> Commands]
      /\ plays \in Nat /\ reaped \subseteq Players
      /\ \A t \in Players : given[t] \in Nat
      /\ cli \in {"prompt", "copy", "stack", "tcb", "giveback"}
  BY Sizes DEF PlayTypes, Commands
<1>2. CASE ClearName
  BY <1>1, <1>2 DEF ClearName, NameInv
<1>3. CASE CopyName
  BY <1>1, <1>3 DEF CopyName, WriteName, NameInv
<1>4. CASE AllocateStack
  BY <1>1, <1>4 DEF AllocateStack, NameInv
<1>5. CASE AllocateTcb
  <2>1. CASE CanMalloc(heap, TcbSize)
    <3>1. PICK t \in Players : /\ stage' = [stage EXCEPT ![t] = "create"]
                               /\ given' = [given EXCEPT ![t] = plays]
      BY <1>5, <2>1 DEF AllocateTcb
    <3>2. /\ given'[t] = plays
          /\ \A u \in Players : u # t => stage'[u] = stage[u] /\ given'[u] = given[u]
      BY <1>1, <3>1
    <3>3. cli = "tcb" /\ cli' = "prompt" /\ UNCHANGED <<name, plays>>
      BY <1>5, <2>1 DEF AllocateTcb
    <3>4. QED
      BY <1>1, <3>2, <3>3 DEF NameInv
  <2>2. CASE ~CanMalloc(heap, TcbSize)
    BY <1>1, <1>5, <2>2 DEF AllocateTcb, NameInv
  <2>3. QED
    BY <2>1, <2>2
<1>6. CASE GiveBack
  BY <1>1, <1>6 DEF GiveBack, NameInv
<1>7. ASSUME NEW t \in Players,
             \/ CreateQueue(t) \/ OpenFile(t) \/ Prime(t) \/ Receive(t)
             \/ EndOfFile(t) \/ DeleteSelf(t) \/ TransferComplete(t)
      PROVE  NameInv'
  <2>1. \A u \in Players : stage'[u] # "none" => stage[u] # "none"
    <3>1. \/ UNCHANGED stage
          \/ stage[t] # "none" /\ \E s \in Stages : stage' = [stage EXCEPT ![t] = s]
      BY <1>7 DEF CreateQueue, OpenFile, Prime, Receive, EndOfFile, DeleteSelf,
                 TransferComplete, Assert, Stages
    <3>2. QED
      BY <1>1, <3>1
  <2>2. UNCHANGED <<name, cli, plays, given>>
    BY <1>7 DEF CreateQueue, OpenFile, Prime, Receive, EndOfFile, DeleteSelf,
               TransferComplete
  <2>3. QED
    BY <2>1, <2>2 DEF NameInv
<1>8. CASE TakeDead
  BY <1>8 DEF TakeDead, NameInv
<1>9. ASSUME NEW t \in reaped, t \in Players, FreeStack(t) PROVE NameInv'
  BY <1>9 DEF FreeStack, NameInv
<1>10. ASSUME NEW t \in reaped, t \in Players, FreeTcb(t) PROVE NameInv'
  <2>1. /\ stage' = [stage EXCEPT ![t] = "none"]
        /\ given' = [given EXCEPT ![t] = 0]
        /\ UNCHANGED <<name, cli, plays>>
    BY <1>10 DEF FreeTcb
  <2>2. /\ stage'[t] = "none"
        /\ \A u \in Players : u # t => stage'[u] = stage[u] /\ given'[u] = given[u]
    BY <1>1, <1>10, <2>1
  <2>3. QED
    BY <2>1, <2>2 DEF NameInv
<1>11. CASE UNCHANGED heapVars
  <2>1. UNCHANGED <<name, cli, plays, stage, given>>
    BY <1>11 DEF heapVars
  <2>2. QED
    BY <2>1 DEF NameInv
<1>12. QED
  BY <1>1, <1>2, <1>3, <1>4, <1>5, <1>6, <1>7, <1>8, <1>9, <1>10, <1>11, HeapSteps

LEMMA NameInit == HeapInit => NameInv
BY DEF HeapInit, NameInv

\* The name a play opens is its own or that of a later command, whatever the
\* console and other plays do between the command and f_open: never the name of
\* an earlier play, and the empty one only while a later command replaces it.
THEOREM NamesOfPlays == HeapSpec => OpensOwnOrLater
<1>1. HeapInit => MemoryInv /\ NameInv
  BY MemoryInit, NameInit
<1>2. MemoryInv /\ NameInv /\ [HeapNext]_heapVars => MemoryInv' /\ NameInv'
  BY MemoryStep, NameStep DEF MemoryInv
<1>3. MemoryInv /\ NameInv =>
         \A t \in Players : stage[t] = "open" =>
            name \in IF plays = given[t] THEN {plays}
                     ELSE {0} \cup given[t] .. plays
  <2> SUFFICES ASSUME MemoryInv, NameInv, NEW t \in Players, stage[t] = "open"
               PROVE  name \in IF plays = given[t] THEN {plays}
                               ELSE {0} \cup given[t] .. plays
    OBVIOUS
  <2>1. plays \in Nat /\ given[t] \in Nat
    BY Sizes DEF MemoryInv, PlayTypes, Commands
  <2>2. given[t] \in 1 .. IF cli = "prompt" THEN plays ELSE plays - 1
    BY DEF NameInv
  <2>3. QED
    BY <2>1, <2>2 DEF NameInv
<1>4. MemoryInv /\ NameInv /\ [HeapNext]_heapVars =>
         [\A t \in Players : stage[t] = "open" /\ stage'[t] # "open" =>
             name \in IF plays = given[t] THEN {plays}
                      ELSE {0} \cup given[t] .. plays]_heapVars
  BY <1>3
<1>5. QED
  BY <1>1, <1>2, <1>4, PTL DEF HeapSpec, OpensOwnOrLater

-----------------------------------------------------------------------------
(* Plays one at a time *)

\* Where the stack and the control block of a play are that runs alone, and how
\* far the queues of the first k plays reach.
StackPlace == BootSize
TcbPlace == BootSize + StackSize
QueuesFrom == BootSize + StackSize + TcbSize
QueuesEnd(k) == QueuesFrom + k * QueueSize

\* The free units behind k queues: none when the last queue took them too.
RearUnits(k) == IF HeapSize - 1 - QueuesEnd(k) > MinimumBlock
            THEN UnitsOf(QueuesEnd(k), HeapSize - 1 - QueuesEnd(k)) ELSE {}

FreeNow == Cover(heap.free)
PlaceSize == StackSize + TcbSize

\* The free units while plays run one at a time: the place of the stack and the
\* control block, as far as no play has them, and what is behind the queues.
Shape ==
    /\ cli # "giveback"
    /\ cli = "prompt" /\ (\A t \in Players : stage[t] = "none") =>
          FreeNow = UnitsOf(StackPlace, PlaceSize) \cup RearUnits(plays)
    /\ cli \in {"copy", "stack"} =>
          FreeNow = UnitsOf(StackPlace, PlaceSize) \cup RearUnits(plays - 1)
    /\ cli = "tcb" =>
          /\ newStack = StackPlace /\ heap.used[StackPlace] = StackSize
          /\ FreeNow = UnitsOf(TcbPlace, TcbSize) \cup RearUnits(plays - 1)
    /\ \A t \in Players : stage[t] # "none" =>
          /\ given[t] = plays
          /\ tcb[t] = TcbPlace /\ heap.used[TcbPlace] = TcbSize
          /\ stack[t] # NULL => stack[t] = StackPlace /\ heap.used[StackPlace] = StackSize
          /\ stack[t] = NULL =>
                /\ stage[t] = "deleted"
                /\ FreeNow = UnitsOf(StackPlace, StackSize) \cup RearUnits(plays)
          /\ stage[t] = "create" => FreeNow = RearUnits(plays - 1)
          /\ stage[t] # "create" =>
                /\ handle = plays
                /\ stack[t] # NULL => FreeNow = RearUnits(plays)

Alone == ~overlapped /\ plays <= Capacity /\ 1 <= Capacity

AloneInv ==
    /\ plays = 0 => ~refused /\ ~halted
    /\ ~overlapped =>
          /\ \A t, u \in Players : stage[t] # "none" /\ stage[u] # "none" => t = u
          /\ cli # "prompt" => \A t \in Players : stage[t] = "none"
    /\ Alone => ~refused /\ ~halted /\ Shape

LEMMA EndIs ==
    ASSUME NEW k \in Nat
    PROVE  /\ QueuesEnd(k) \in Nat /\ QueuesEnd(k) >= QueuesFrom
           /\ QueuesEnd(k + 1) = QueuesEnd(k) + QueueSize /\ QueuesEnd(0) = QueuesFrom
           /\ k >= 1 => QueuesEnd(k) >= QueuesFrom + QueueSize
<1>1. QueueSize \in Nat /\ BootSize \in Nat /\ StackSize \in Nat /\ TcbSize \in Nat
  BY Sizes
<1>2. k * QueueSize \in Nat /\ 0 * QueueSize = 0
  BY <1>1
<1>3. (k + 1) * QueueSize = k * QueueSize + QueueSize
  BY <1>1
<1>4. k >= 1 => k * QueueSize >= QueueSize
  <2>1. SUFFICES ASSUME k >= 1 PROVE k * QueueSize >= QueueSize
    OBVIOUS
  <2>2. k - 1 \in Nat /\ (k - 1) * QueueSize \in Nat
    BY <1>1, <2>1
  <2>3. k * QueueSize = (k - 1) * QueueSize + QueueSize
    BY <1>1
  <2>4. QED
    BY <1>1, <1>2, <2>2, <2>3
<1>5. QED
  BY <1>1, <1>2, <1>3, <1>4 DEF QueuesEnd, QueuesFrom

LEMMA CapacityIs ==
    ASSUME NEW k \in Nat, k <= Capacity
    PROVE  Capacity \in Int /\ QueuesEnd(k) <= HeapSize - 1
<1> DEFINE n == HeapSize - 1 - BootSize - StackSize - TcbSize
           d == n \div QueueSize
<1>1. n \in Int /\ QueueSize \in Nat \ {0}
  BY Sizes
<1>2. Capacity = d
  BY DEF Capacity
<1> HIDE DEF n
<1>3. d \in Int /\ d * QueueSize <= n
  BY <1>1
<1> HIDE DEF d
<1>4. d - k \in Nat
  BY <1>2, <1>3
<1>5. (d - k) * QueueSize \in Nat
  BY <1>1, <1>4
<1>6. (d - k) * QueueSize = d * QueueSize - k * QueueSize
  BY <1>1, <1>3
<1>7. k * QueueSize \in Nat /\ d * QueueSize \in Int
  BY <1>1, <1>3
<1>8. k * QueueSize <= n
  BY <1>1, <1>3, <1>5, <1>6, <1>7
<1>9. QueuesFrom + k * QueueSize <= HeapSize - 1
  BY <1>7, <1>8, Sizes DEF n, QueuesFrom
<1>10. QED
  BY <1>2, <1>3, <1>9 DEF QueuesEnd

\* The free units behind k queues.
LEMMA RearIs ==
    ASSUME NEW k \in Nat, QueuesEnd(k) <= HeapSize - 1
    PROVE  \A u : u \in RearUnits(k) <=>
              /\ HeapSize - 1 - QueuesEnd(k) > 2
              /\ u \in Int /\ QueuesEnd(k) <= u /\ u < HeapSize - 1
<1>1. QueuesEnd(k) \in Nat /\ HeapSize - 1 - QueuesEnd(k) \in Nat
      /\ QueuesEnd(k) + (HeapSize - 1 - QueuesEnd(k)) = HeapSize - 1
  BY Sizes, EndIs
<1>2. CASE HeapSize - 1 - QueuesEnd(k) > 2
  <2>1. RearUnits(k) = UnitsOf(QueuesEnd(k), HeapSize - 1 - QueuesEnd(k))
    BY <1>2 DEF RearUnits, MinimumBlock
  <2>2. \A u : u \in UnitsOf(QueuesEnd(k), HeapSize - 1 - QueuesEnd(k)) <=>
            u \in Int /\ QueuesEnd(k) <= u /\ u < QueuesEnd(k) + (HeapSize - 1 - QueuesEnd(k))
    BY <1>1, UnitsIs
  <2>3. QED
    BY <1>1, <1>2, <2>1, <2>2
<1>3. CASE ~(HeapSize - 1 - QueuesEnd(k) > 2)
  BY <1>3 DEF RearUnits, MinimumBlock
<1>4. QED
  BY <1>2, <1>3

LEMMA PlacesAre ==
    /\ StackPlace \in Nat \ {0} /\ TcbPlace \in Nat /\ QueuesFrom \in Nat /\ PlaceSize \in Nat \ {0}
    /\ TcbPlace = StackPlace + StackSize /\ QueuesFrom = TcbPlace + TcbSize
    /\ QueuesFrom = StackPlace + PlaceSize /\ PlaceSize = StackSize + TcbSize
    /\ \A u : u \in UnitsOf(StackPlace, PlaceSize) <=> u \in Int /\ StackPlace <= u /\ u < QueuesFrom
    /\ \A u : u \in UnitsOf(StackPlace, StackSize) <=> u \in Int /\ StackPlace <= u /\ u < TcbPlace
    /\ \A u : u \in UnitsOf(TcbPlace, TcbSize) <=> u \in Int /\ TcbPlace <= u /\ u < QueuesFrom
<1>1. /\ StackPlace \in Nat \ {0} /\ TcbPlace \in Nat /\ QueuesFrom \in Nat /\ PlaceSize \in Nat \ {0}
      /\ TcbPlace = StackPlace + StackSize /\ QueuesFrom = TcbPlace + TcbSize
      /\ QueuesFrom = StackPlace + PlaceSize /\ PlaceSize = StackSize + TcbSize
  BY Sizes DEF StackPlace, TcbPlace, QueuesFrom, PlaceSize
<1>2. StackSize \in Nat /\ TcbSize \in Nat
  BY Sizes
<1>3. QED
  BY <1>1, <1>2, UnitsIs

\* What the boot leaves is the place of a task and all behind it.
LEMMA AloneBoot ==
    ASSUME HeapInit, 1 <= Capacity
    PROVE  FreeNow = UnitsOf(StackPlace, PlaceSize) \cup RearUnits(0)
<1>1. /\ QueuesEnd(0) = QueuesFrom /\ QueuesEnd(1) = QueuesFrom + QueueSize /\ QueuesEnd(1) <= HeapSize - 1
      /\ 0 \in Nat /\ 1 \in Nat
  BY EndIs, CapacityIs
<1>2. HeapSize - 1 - BootSize > 2 /\ HeapSize - 1 - QueuesEnd(0) > 2
      /\ QueuesEnd(0) <= HeapSize - 1
  BY <1>1, Sizes, PlacesAre DEF StackPlace
<1>3. heap.used[0] = BootSize
      /\ FreeNow = UnitsOf(0, HeapSize - 1) \ UnitsOf(0, BootSize)
  BY <1>2, BootIs DEF Splits, MinimumBlock, FreeNow
<1>4. /\ \A u : u \in UnitsOf(0, HeapSize - 1) <=>
                  u \in Int /\ 0 <= u /\ u < 0 + (HeapSize - 1)
      /\ \A u : u \in UnitsOf(0, BootSize) <=> u \in Int /\ 0 <= u /\ u < 0 + BootSize
  BY Sizes, UnitsIs
<1>5. \A u : u \in RearUnits(0) <=> u \in Int /\ QueuesFrom <= u /\ u < HeapSize - 1
  BY <1>1, <1>2, RearIs
<1>6. ASSUME NEW u
      PROVE  u \in FreeNow <=> u \in UnitsOf(StackPlace, PlaceSize) \cup RearUnits(0)
  <2>1. u \in FreeNow <=> u \in Int /\ StackPlace <= u /\ u < HeapSize - 1
    BY <1>3, <1>4, Sizes DEF StackPlace
  <2>2. StackPlace <= QueuesFrom /\ QueuesFrom <= HeapSize - 1 /\ HeapSize \in Int
        /\ StackPlace \in Int /\ QueuesFrom \in Int
    BY <1>1, <1>2, PlacesAre, Sizes
  <2>3. QED
    BY <1>5, <2>1, <2>2, PlacesAre
<1>7. QED
  BY <1>6

\* The stack of a play alone is at the front of the place for a task.
LEMMA AloneStack ==
    ASSUME Sound(heap, HeapSize), NEW k \in Nat, k + 1 <= Capacity,
           FreeNow = UnitsOf(StackPlace, PlaceSize) \cup RearUnits(k)
    PROVE  /\ CanMalloc(heap, StackSize) /\ MallocAt(heap, StackSize) = StackPlace
           /\ Malloc(heap, StackSize).used[StackPlace] = StackSize
           /\ Cover(Malloc(heap, StackSize).free)
                = UnitsOf(TcbPlace, TcbSize) \cup RearUnits(k)
<1>1. /\ QueuesEnd(k + 1) = QueuesEnd(k) + QueueSize /\ QueuesEnd(k + 1) <= HeapSize - 1
      /\ QueuesEnd(k) \in Nat /\ QueuesEnd(k) >= QueuesFrom
      /\ k = 0 => QueuesEnd(k) = QueuesFrom
      /\ k >= 1 => QueuesEnd(k) >= QueuesFrom + QueueSize
  BY EndIs, CapacityIs
<1>2. HeapSize - 1 - QueuesEnd(k) > 2 /\ QueuesEnd(k) <= HeapSize - 1
  BY <1>1, Sizes
<1>3. \A u : u \in RearUnits(k) <=> u \in Int /\ QueuesEnd(k) <= u /\ u < HeapSize - 1
  BY <1>2, RearIs
<1>4. \A u : u \in Cover(heap.free) <=>
         \/ u \in Int /\ StackPlace <= u /\ u < QueuesFrom
         \/ u \in Int /\ QueuesEnd(k) <= u /\ u < HeapSize - 1
  BY <1>3, PlacesAre DEF FreeNow
<1> DEFINE m == IF k = 0 THEN HeapSize - 1 - StackPlace ELSE PlaceSize
<1>5. /\ StackPlace \in Nat /\ m \in Nat \ {0} /\ StackSize \in 1 .. m
      /\ m - StackSize > 2
  BY <1>1, <1>2, Sizes, PlacesAre
<1>6. \A u : u \in UnitsOf(StackPlace, m) <=> u \in Int /\ StackPlace <= u /\ u < StackPlace + m
  BY <1>5, UnitsIs
<1>7. /\ UnitsOf(StackPlace, m) \subseteq Cover(heap.free)
      /\ StackPlace + m \notin Cover(heap.free)
      /\ \A u \in Cover(heap.free) : StackPlace <= u
  <2>1. CASE k = 0
    <3>1. StackPlace + m = HeapSize - 1 /\ QueuesEnd(k) = QueuesFrom
      BY <1>1, <2>1, Sizes, PlacesAre
    <3>2. QED
      BY <1>2, <1>4, <1>6, <3>1, Sizes, PlacesAre
  <2>2. CASE k # 0
    <3>1. /\ StackPlace + m = QueuesFrom /\ QueuesEnd(k) > QueuesFrom /\ StackPlace <= QueuesFrom
          /\ StackPlace \in Int /\ QueuesFrom \in Int /\ QueuesEnd(k) \in Int
      BY <1>1, <2>2, Sizes, PlacesAre
    <3>2. UnitsOf(StackPlace, m) \subseteq Cover(heap.free)
      BY <1>4, <1>6, <3>1
    <3>3. QueuesFrom \notin Cover(heap.free)
      BY <1>4, <3>1
    <3>4. \A u \in Cover(heap.free) : StackPlace <= u
      BY <1>4, <3>1
    <3>5. QED
      BY <3>1, <3>2, <3>3, <3>4
  <2>3. QED
    BY <2>1, <2>2
<1> HIDE DEF m
<1>8. /\ CanMalloc(heap, StackSize) /\ MallocAt(heap, StackSize) = StackPlace
      /\ Malloc(heap, StackSize).used[StackPlace]
           = IF Splits(m - StackSize) THEN StackSize ELSE m
  BY <1>5, <1>7, Sizes, FirstRun
<1>9. Malloc(heap, StackSize).used[StackPlace] = StackSize
  BY <1>5, <1>8 DEF Splits, MinimumBlock
<1>10. Cover(Malloc(heap, StackSize).free)
         = Cover(heap.free) \ UnitsOf(StackPlace, StackSize)
  <2>1. Cover(Malloc(heap, StackSize).free)
          = Cover(heap.free)
              \ UnitsOf(MallocAt(heap, StackSize),
                        Malloc(heap, StackSize).used[MallocAt(heap, StackSize)])
    BY <1>8, Sizes, MallocIs
  <2>2. QED
    BY <1>8, <1>9, <2>1
<1>11. ASSUME NEW u
       PROVE  u \in Cover(Malloc(heap, StackSize).free)
                <=> u \in UnitsOf(TcbPlace, TcbSize) \cup RearUnits(k)
  <2>1. /\ StackPlace <= TcbPlace /\ TcbPlace <= QueuesFrom /\ QueuesFrom <= QueuesEnd(k)
        /\ StackPlace \in Int /\ TcbPlace \in Int /\ QueuesFrom \in Int /\ QueuesEnd(k) \in Int
    BY <1>1, PlacesAre, Sizes
  <2>2. QED
    BY <1>3, <1>4, <1>10, <2>1, PlacesAre
<1>12. QED
  BY <1>8, <1>9, <1>11

\* Its control block is behind the stack.
LEMMA AloneTcb ==
    ASSUME Sound(heap, HeapSize), NEW k \in Nat, k + 1 <= Capacity,
           FreeNow = UnitsOf(TcbPlace, TcbSize) \cup RearUnits(k)
    PROVE  /\ CanMalloc(heap, TcbSize) /\ MallocAt(heap, TcbSize) = TcbPlace
           /\ Malloc(heap, TcbSize).used[TcbPlace] = TcbSize
           /\ Cover(Malloc(heap, TcbSize).free) = RearUnits(k)
<1>1. /\ QueuesEnd(k + 1) = QueuesEnd(k) + QueueSize /\ QueuesEnd(k + 1) <= HeapSize - 1
      /\ QueuesEnd(k) \in Nat /\ QueuesEnd(k) >= QueuesFrom
      /\ k = 0 => QueuesEnd(k) = QueuesFrom
      /\ k >= 1 => QueuesEnd(k) >= QueuesFrom + QueueSize
  BY EndIs, CapacityIs
<1>2. HeapSize - 1 - QueuesEnd(k) > 2 /\ QueuesEnd(k) <= HeapSize - 1
  BY <1>1, Sizes
<1>3. \A u : u \in RearUnits(k) <=> u \in Int /\ QueuesEnd(k) <= u /\ u < HeapSize - 1
  BY <1>2, RearIs
<1>4. \A u : u \in Cover(heap.free) <=>
         \/ u \in Int /\ TcbPlace <= u /\ u < QueuesFrom
         \/ u \in Int /\ QueuesEnd(k) <= u /\ u < HeapSize - 1
  BY <1>3, PlacesAre DEF FreeNow
<1> DEFINE m == IF k = 0 THEN HeapSize - 1 - TcbPlace ELSE TcbSize
<1>5. /\ TcbPlace \in Nat /\ m \in Nat \ {0} /\ TcbSize \in 1 .. m
      /\ m - TcbSize > 2 \/ m = TcbSize
  BY <1>1, <1>2, Sizes, PlacesAre
<1>6. \A u : u \in UnitsOf(TcbPlace, m) <=> u \in Int /\ TcbPlace <= u /\ u < TcbPlace + m
  BY <1>5, UnitsIs
<1>7. /\ UnitsOf(TcbPlace, m) \subseteq Cover(heap.free)
      /\ TcbPlace + m \notin Cover(heap.free)
      /\ \A u \in Cover(heap.free) : TcbPlace <= u
  <2>1. CASE k = 0
    <3>1. TcbPlace + m = HeapSize - 1 /\ QueuesEnd(k) = QueuesFrom
      BY <1>1, <2>1, Sizes, PlacesAre
    <3>2. QED
      BY <1>2, <1>4, <1>6, <3>1, Sizes, PlacesAre
  <2>2. CASE k # 0
    <3>1. /\ TcbPlace + m = QueuesFrom /\ QueuesEnd(k) > QueuesFrom /\ TcbPlace <= QueuesFrom
          /\ TcbPlace \in Int /\ QueuesFrom \in Int /\ QueuesEnd(k) \in Int
      BY <1>1, <2>2, Sizes, PlacesAre
    <3>2. UnitsOf(TcbPlace, m) \subseteq Cover(heap.free)
      BY <1>4, <1>6, <3>1
    <3>3. QueuesFrom \notin Cover(heap.free)
      BY <1>4, <3>1
    <3>4. \A u \in Cover(heap.free) : TcbPlace <= u
      BY <1>4, <3>1
    <3>5. QED
      BY <3>1, <3>2, <3>3, <3>4
  <2>3. QED
    BY <2>1, <2>2
<1> HIDE DEF m
<1>8. /\ CanMalloc(heap, TcbSize) /\ MallocAt(heap, TcbSize) = TcbPlace
      /\ Malloc(heap, TcbSize).used[TcbPlace]
           = IF Splits(m - TcbSize) THEN TcbSize ELSE m
  BY <1>5, <1>7, Sizes, FirstRun
<1>9. Malloc(heap, TcbSize).used[TcbPlace] = TcbSize
  BY <1>5, <1>8 DEF Splits, MinimumBlock
<1>10. Cover(Malloc(heap, TcbSize).free)
         = Cover(heap.free) \ UnitsOf(TcbPlace, TcbSize)
  <2>1. Cover(Malloc(heap, TcbSize).free)
          = Cover(heap.free)
              \ UnitsOf(MallocAt(heap, TcbSize),
                        Malloc(heap, TcbSize).used[MallocAt(heap, TcbSize)])
    BY <1>8, Sizes, MallocIs
  <2>2. QED
    BY <1>8, <1>9, <2>1
<1>11. ASSUME NEW u
       PROVE  u \in Cover(Malloc(heap, TcbSize).free) <=> u \in RearUnits(k)
  <2>1. /\ TcbPlace <= QueuesFrom /\ QueuesFrom <= QueuesEnd(k)
        /\ TcbPlace \in Int /\ QueuesFrom \in Int /\ QueuesEnd(k) \in Int
    BY <1>1, PlacesAre, Sizes
  <2>2. QED
    BY <1>3, <1>4, <1>10, <2>1, PlacesAre
<1>12. QED
  BY <1>8, <1>9, <1>11

\* Its queue is behind the queues of the plays before it.
LEMMA AloneQueue ==
    ASSUME Sound(heap, HeapSize), NEW k \in Nat, k + 1 <= Capacity,
           FreeNow = RearUnits(k)
    PROVE  /\ CanMalloc(heap, QueueSize)
           /\ MallocAt(heap, QueueSize) = QueuesEnd(k)
           /\ Cover(Malloc(heap, QueueSize).free) = RearUnits(k + 1)
<1>1. /\ QueuesEnd(k + 1) = QueuesEnd(k) + QueueSize /\ QueuesEnd(k + 1) <= HeapSize - 1
      /\ QueuesEnd(k) \in Nat
  BY EndIs, CapacityIs
<1>2. HeapSize - 1 - QueuesEnd(k) > 2 /\ QueuesEnd(k) <= HeapSize - 1 /\ k + 1 \in Nat
  BY <1>1, Sizes
<1>3. /\ \A u : u \in RearUnits(k) <=> u \in Int /\ QueuesEnd(k) <= u /\ u < HeapSize - 1
      /\ \A u : u \in RearUnits(k + 1) <=>
            /\ HeapSize - 1 - QueuesEnd(k + 1) > 2
            /\ u \in Int /\ QueuesEnd(k + 1) <= u /\ u < HeapSize - 1
  BY <1>1, <1>2, RearIs
<1> DEFINE m == HeapSize - 1 - QueuesEnd(k)
<1>4. m \in Nat \ {0} /\ QueueSize \in 1 .. m /\ QueuesEnd(k) + m = HeapSize - 1
  BY <1>1, <1>2, Sizes
<1>5. /\ UnitsOf(QueuesEnd(k), m) \subseteq Cover(heap.free)
      /\ QueuesEnd(k) + m \notin Cover(heap.free)
      /\ \A u \in Cover(heap.free) : QueuesEnd(k) <= u
  <2>1. \A u : u \in UnitsOf(QueuesEnd(k), m) <=> u \in Int /\ QueuesEnd(k) <= u /\ u < QueuesEnd(k) + m
    BY <1>1, <1>4, UnitsIs
  <2>2. QED
    BY <1>3, <1>4, <2>1, Sizes DEF FreeNow
<1> HIDE DEF m
<1>6. /\ CanMalloc(heap, QueueSize) /\ MallocAt(heap, QueueSize) = QueuesEnd(k)
      /\ Malloc(heap, QueueSize).used[QueuesEnd(k)]
           = IF Splits(m - QueueSize) THEN QueueSize ELSE m
  BY <1>1, <1>4, <1>5, Sizes, FirstRun
<1> DEFINE put == Malloc(heap, QueueSize).used[QueuesEnd(k)]
<1>7. put = IF HeapSize - 1 - QueuesEnd(k + 1) > 2 THEN QueueSize ELSE m
  <2>1. m - QueueSize = HeapSize - 1 - QueuesEnd(k + 1)
    BY <1>1, <1>4, Sizes DEF m
  <2>2. QED
    BY <1>6, <2>1 DEF Splits, MinimumBlock
<1>8. Cover(Malloc(heap, QueueSize).free)
        = Cover(heap.free) \ UnitsOf(QueuesEnd(k), put)
  <2>1. Cover(Malloc(heap, QueueSize).free)
          = Cover(heap.free)
              \ UnitsOf(MallocAt(heap, QueueSize),
                        Malloc(heap, QueueSize).used[MallocAt(heap, QueueSize)])
    BY <1>6, Sizes, MallocIs
  <2>2. QED
    BY <1>6, <2>1
<1> HIDE DEF put
<1>9. \A u : u \in UnitsOf(QueuesEnd(k), put) <=> u \in Int /\ QueuesEnd(k) <= u /\ u < QueuesEnd(k) + put
  <2>1. put \in Nat
    BY <1>4, <1>7, Sizes
  <2>2. QED
    BY <1>1, <2>1, UnitsIs
<1>10. ASSUME NEW u
       PROVE  u \in Cover(Malloc(heap, QueueSize).free) <=> u \in RearUnits(k + 1)
  <2>1. u \in Cover(heap.free) <=> u \in Int /\ QueuesEnd(k) <= u /\ u < HeapSize - 1
    BY <1>3 DEF FreeNow
  <2>2. CASE HeapSize - 1 - QueuesEnd(k + 1) > 2
    <3>1. QueuesEnd(k) + put = QueuesEnd(k + 1) /\ QueuesEnd(k) <= QueuesEnd(k + 1) /\ QueuesEnd(k + 1) \in Int
      BY <1>1, <1>7, <2>2, Sizes
    <3>2. u \in UnitsOf(QueuesEnd(k), put) <=> u \in Int /\ QueuesEnd(k) <= u /\ u < QueuesEnd(k + 1)
      BY <1>9, <3>1
    <3>3. u \in RearUnits(k + 1) <=> u \in Int /\ QueuesEnd(k + 1) <= u /\ u < HeapSize - 1
      BY <1>3, <2>2
    <3>4. QED
      BY <1>1, <1>8, <2>1, <3>1, <3>2, <3>3
  <2>3. CASE ~(HeapSize - 1 - QueuesEnd(k + 1) > 2)
    BY <1>3, <1>4, <1>7, <1>8, <1>9, <2>1, <2>3
  <2>4. QED
    BY <2>2, <2>3
<1>11. QED
  BY <1>6, <1>10
\* The counters a play alone starts from.
LEMMA AloneFacts ==
    ASSUME MemoryInv, NameInv, AloneInv, Alone
    PROVE  /\ plays \in Nat /\ ~refused /\ ~halted /\ Shape
           /\ cli # "prompt" => plays - 1 \in Nat /\ plays - 1 + 1 <= Capacity
           /\ \A t \in Players : stage[t] # "none" =>
                 /\ cli = "prompt" /\ plays - 1 \in Nat /\ plays - 1 + 1 <= Capacity
                 /\ \A u \in Players : u # t => stage[u] = "none"
           /\ Sound(heap, HeapSize)
           /\ stage \in [Players -> Stages]
<1>1. plays \in Nat
  BY Sizes DEF MemoryInv, PlayTypes, Commands
<1>2. Capacity \in Int /\ plays <= Capacity /\ 1 <= Capacity /\ ~overlapped
  BY CapacityIs DEF Alone
<1>3. ASSUME plays >= 1 PROVE plays - 1 \in Nat /\ plays - 1 + 1 <= Capacity
  BY <1>1, <1>2, <1>3
<1>4. cli # "prompt" => plays >= 1
  BY DEF NameInv
<1>5. ASSUME NEW t \in Players, stage[t] # "none"
      PROVE  /\ cli = "prompt" /\ plays >= 1
             /\ \A u \in Players : u # t => stage[u] = "none"
  <2>1. cli = "prompt" /\ \A u \in Players : u # t => stage[u] = "none"
    BY <1>2, <1>5 DEF AloneInv
  <2>2. given[t] \in 1 .. plays
    BY <1>5, <2>1 DEF NameInv
  <2>3. QED
    BY <1>1, <2>1, <2>2
<1>6. QED
  BY <1>1, <1>3, <1>4, <1>5 DEF AloneInv, MemoryInv, PlayTypes

\* The steps of a play alone keep the shape of the memory, and find it.
LEMMA ShapeStep ==
    ASSUME MemoryInv, NameInv, AloneInv, Alone, HeapNext, ~overlapped'
    PROVE  ~refused' /\ ~halted' /\ Shape'
<1> USE DEF Proceed, consoleVars, taskVars, idleVars
<1>1. /\ plays \in Nat /\ ~refused /\ ~halted /\ Shape
      /\ cli # "prompt" => plays - 1 \in Nat /\ plays - 1 + 1 <= Capacity
      /\ \A t \in Players : stage[t] # "none" =>
            /\ cli = "prompt" /\ plays - 1 \in Nat /\ plays - 1 + 1 <= Capacity
            /\ \A u \in Players : u # t => stage[u] = "none"
      /\ Sound(heap, HeapSize) /\ stage \in [Players -> Stages]
  BY AloneFacts
<1>2. /\ reaped \subseteq Players
      /\ \A t \in reaped : stage[t] = "deleted" /\ tcb[t] # NULL
      /\ stack \in [Players -> Address \cup {NULL}]
      /\ tcb \in [Players -> Address \cup {NULL}]
      /\ given \in [Players -> Commands]
  <2>1. PlayTypes /\ Lives
    BY DEF MemoryInv
  <2>2. reaped \subseteq Players
    BY <2>1 DEF PlayTypes
  <2>3. \A t \in reaped : stage[t] = "deleted" /\ tcb[t] # NULL
    BY <2>1, <2>2 DEF Lives
  <2>4. QED
    BY <2>1, <2>2, <2>3 DEF PlayTypes
<1>3. StackPlace # NULL /\ TcbPlace # NULL /\ StackPlace # TcbPlace
  <2>1. StackPlace \in Nat /\ TcbPlace \in Nat /\ TcbPlace = StackPlace + StackSize
    BY PlacesAre
  <2>2. QED
    BY <2>1, Sizes DEF NULL
<1>4. CASE ClearName
  <2>1. /\ cli = "prompt" /\ cli' = "copy" /\ plays' = plays + 1
        /\ \A t \in Players : stage[t] = "none"
        /\ UNCHANGED <<heap, stage, refused, halted>>
    BY <1>4 DEF ClearName
  <2>2. FreeNow' = UnitsOf(StackPlace, PlaceSize) \cup RearUnits(plays)
    BY <1>1, <2>1 DEF Shape, FreeNow
  <2>3. plays' - 1 = plays
    BY <1>1, <2>1
  <2>4. QED
    BY <1>1, <2>1, <2>2, <2>3 DEF Shape
<1>5. CASE CopyName
  <2>1. /\ cli = "copy" /\ cli' = "stack"
        /\ UNCHANGED <<heap, stage, plays, refused, halted>>
    BY <1>5 DEF CopyName
  <2>2. \A t \in Players : stage[t] = "none"
    BY <1>1, <2>1
  <2>3. FreeNow' = UnitsOf(StackPlace, PlaceSize) \cup RearUnits(plays - 1)
    BY <1>1, <2>1 DEF Shape, FreeNow
  <2>4. QED
    BY <1>1, <2>1, <2>2, <2>3 DEF Shape
<1>6. CASE AllocateStack
  <2>1. cli = "stack" /\ \A t \in Players : stage[t] = "none"
    BY <1>1, <1>6 DEF AllocateStack
  <2>2. FreeNow = UnitsOf(StackPlace, PlaceSize) \cup RearUnits(plays - 1)
    BY <1>1, <2>1 DEF Shape
  <2>3. /\ CanMalloc(heap, StackSize) /\ MallocAt(heap, StackSize) = StackPlace
        /\ Malloc(heap, StackSize).used[StackPlace] = StackSize
        /\ Cover(Malloc(heap, StackSize).free)
             = UnitsOf(TcbPlace, TcbSize) \cup RearUnits(plays - 1)
    BY <1>1, <2>1, <2>2, AloneStack
  <2>4. /\ newStack' = StackPlace /\ heap' = Malloc(heap, StackSize) /\ cli' = "tcb"
        /\ UNCHANGED <<plays, refused, halted, stage>>
    BY <1>6, <2>3 DEF AllocateStack
  <2>5. QED
    BY <1>1, <2>1, <2>3, <2>4 DEF Shape, FreeNow
<1>7. CASE AllocateTcb
  <2>1. cli = "tcb" /\ \A t \in Players : stage[t] = "none"
    BY <1>1, <1>7 DEF AllocateTcb
  <2>2. /\ newStack = StackPlace /\ heap.used[StackPlace] = StackSize
        /\ FreeNow = UnitsOf(TcbPlace, TcbSize) \cup RearUnits(plays - 1)
    BY <1>1, <2>1 DEF Shape
  <2>3. /\ CanMalloc(heap, TcbSize) /\ MallocAt(heap, TcbSize) = TcbPlace
        /\ Malloc(heap, TcbSize).used[TcbPlace] = TcbSize
        /\ Cover(Malloc(heap, TcbSize).free) = RearUnits(plays - 1)
    BY <1>1, <2>1, <2>2, AloneTcb
  <2>4. Malloc(heap, TcbSize).used[StackPlace] = StackSize
    <3>1. StackPlace \in DOMAIN heap.used
      BY <1>3, <2>2, HeldIs
    <3>2. QED
      BY <1>1, <2>2, <2>3, <3>1, Sizes, MallocIs
  <2>5. PICK t \in Players : /\ stage' = [stage EXCEPT ![t] = "create"]
                             /\ given' = [given EXCEPT ![t] = plays]
                             /\ stack' = [stack EXCEPT ![t] = StackPlace]
                             /\ tcb' = [tcb EXCEPT ![t] = TcbPlace]
    BY <1>7, <2>2, <2>3 DEF AllocateTcb
  <2>6. /\ heap' = Malloc(heap, TcbSize) /\ cli' = "prompt"
        /\ UNCHANGED <<plays, refused, halted>>
    BY <1>7, <2>3 DEF AllocateTcb
  <2>7. /\ stage'[t] = "create" /\ given'[t] = plays
        /\ stack'[t] = StackPlace /\ tcb'[t] = TcbPlace
        /\ \A u \in Players : u # t => stage'[u] = "none"
    BY <1>1, <1>2, <2>1, <2>5
  <2>8. FreeNow' = RearUnits(plays - 1)
    BY <2>3, <2>6 DEF FreeNow
  <2>9. heap'.used[StackPlace] = StackSize /\ heap'.used[TcbPlace] = TcbSize
    BY <2>3, <2>4, <2>6
  <2>10. QED
    BY <1>1, <1>3, <2>6, <2>7, <2>8, <2>9 DEF Shape
<1>8. CASE GiveBack
  BY <1>1, <1>8 DEF GiveBack, Shape
\* What a task that lives has.
<1>9. ASSUME NEW t \in Players, stage[t] # "none", stage[t] # "deleted"
      PROVE  /\ cli = "prompt" /\ given[t] = plays /\ plays # 0
             /\ stack[t] = StackPlace /\ heap.used[StackPlace] = StackSize
             /\ tcb[t] = TcbPlace /\ heap.used[TcbPlace] = TcbSize
             /\ stage[t] = "create" => FreeNow = RearUnits(plays - 1)
             /\ stage[t] # "create" => handle = plays /\ FreeNow = RearUnits(plays)
             /\ \A u \in Players : u # t => stage[u] = "none"
  <2>1. stack[t] # NULL
    BY <1>1, <1>9 DEF Shape
  <2>2. plays - 1 \in Nat
    BY <1>1, <1>9
  <2>3. plays # 0
    BY <1>1, <2>2
  <2>4. QED
    BY <1>1, <1>9, <2>1, <2>3 DEF Shape
<1>10. ASSUME NEW t \in Players, CreateQueue(t)
       PROVE  ~refused' /\ ~halted' /\ Shape'
  <2>1. stage[t] = "create"
    BY <1>10 DEF CreateQueue
  <2>2. /\ cli = "prompt" /\ given[t] = plays
        /\ stack[t] = StackPlace /\ heap.used[StackPlace] = StackSize
        /\ tcb[t] = TcbPlace /\ heap.used[TcbPlace] = TcbSize
        /\ FreeNow = RearUnits(plays - 1)
        /\ \A u \in Players : u # t => stage[u] = "none"
    BY <1>9, <2>1
  <2>3. plays - 1 \in Nat /\ plays - 1 + 1 <= Capacity /\ plays - 1 + 1 = plays
    BY <1>1, <2>1
  <2>4. /\ CanMalloc(heap, QueueSize)
        /\ Cover(Malloc(heap, QueueSize).free) = RearUnits(plays)
    BY <1>1, <2>2, <2>3, AloneQueue
  <2>5. /\ Malloc(heap, QueueSize).used[StackPlace] = StackSize
        /\ Malloc(heap, QueueSize).used[TcbPlace] = TcbSize
    <3>1. StackPlace \in DOMAIN heap.used /\ TcbPlace \in DOMAIN heap.used
      BY <1>3, <2>2, HeldIs
    <3>2. QED
      BY <1>1, <2>2, <2>4, <3>1, Sizes, MallocIs
  <2>6. /\ handle' = plays /\ heap' = Malloc(heap, QueueSize)
        /\ stage' = [stage EXCEPT ![t] = "open"]
        /\ UNCHANGED <<plays, cli, refused, halted, given, stack, tcb>>
    BY <1>10, <2>2, <2>4 DEF CreateQueue
  <2>7. /\ stage'[t] = "open"
        /\ \A u \in Players : u # t => stage'[u] = "none"
    BY <1>1, <2>2, <2>6
  <2>8. FreeNow' = RearUnits(plays)
    BY <2>4, <2>6 DEF FreeNow
  <2>9. QED
    BY <1>1, <1>3, <2>2, <2>5, <2>6, <2>7, <2>8 DEF Shape
<1>11. ASSUME NEW t \in Players,
              \/ OpenFile(t) \/ Prime(t) \/ Receive(t)
              \/ EndOfFile(t) \/ DeleteSelf(t) \/ TransferComplete(t)
       PROVE  ~refused' /\ ~halted' /\ Shape'
  <2>1. stage[t] \notin {"none", "deleted", "create"}
    BY <1>11 DEF OpenFile, Prime, Receive, EndOfFile, DeleteSelf, TransferComplete
  <2>2. /\ cli = "prompt" /\ given[t] = plays /\ plays # 0
        /\ stack[t] = StackPlace /\ heap.used[StackPlace] = StackSize
        /\ tcb[t] = TcbPlace /\ heap.used[TcbPlace] = TcbSize
        /\ handle = plays /\ FreeNow = RearUnits(plays)
        /\ \A u \in Players : u # t => stage[u] = "none"
    BY <1>9, <2>1
  <2>3. /\ \E s \in Stages \ {"none", "create"} : stage' = [stage EXCEPT ![t] = s]
        /\ UNCHANGED halted
    BY <1>11, <2>2 DEF OpenFile, Prime, Receive, EndOfFile, DeleteSelf,
                      TransferComplete, Assert, Stages
  <2>4. UNCHANGED <<heap, plays, cli, refused, given, stack, tcb, handle>>
    BY <1>11 DEF OpenFile, Prime, Receive, EndOfFile, DeleteSelf, TransferComplete
  <2>5. /\ stage'[t] # "none" /\ stage'[t] # "create"
        /\ \A u \in Players : u # t => stage'[u] = "none"
    BY <1>1, <2>2, <2>3
  <2>6. FreeNow' = RearUnits(plays)
    BY <2>2, <2>4 DEF FreeNow
  <2>7. QED
    BY <1>1, <1>3, <2>2, <2>3, <2>4, <2>5, <2>6 DEF Shape
<1>12. CASE TakeDead
  <2>1. UNCHANGED <<heap, newStack, plays, cli, refused, halted, stage, given,
                    stack, tcb, handle>>
    BY <1>12 DEF TakeDead
  <2>2. QED
    BY <1>1, <2>1 DEF Shape, FreeNow
<1>13. ASSUME NEW t \in reaped, t \in Players, FreeStack(t)
       PROVE  ~refused' /\ ~halted' /\ Shape'
  <2>1. /\ stack[t] # NULL /\ stack' = [stack EXCEPT ![t] = NULL]
        /\ heap' = Free(heap, stack[t])
        /\ UNCHANGED <<plays, cli, refused, halted, stage, given, tcb, handle>>
    BY <1>13 DEF FreeStack
  <2>2. stage[t] = "deleted"
    BY <1>2
  <2>3. /\ cli = "prompt" /\ given[t] = plays
        /\ stack[t] = StackPlace /\ heap.used[StackPlace] = StackSize
        /\ tcb[t] = TcbPlace /\ heap.used[TcbPlace] = TcbSize
        /\ handle = plays /\ FreeNow = RearUnits(plays)
        /\ \A u \in Players : u # t => stage[u] = "none"
    BY <1>1, <1>13, <2>1, <2>2 DEF Shape
  <2>4. StackPlace \in DOMAIN heap.used /\ TcbPlace \in DOMAIN heap.used
    BY <1>3, <1>13, <2>3, HeldIs
  <2>5. /\ Cover(Free(heap, StackPlace).free)
             = Cover(heap.free) \cup UnitsOf(StackPlace, heap.used[StackPlace])
        /\ DOMAIN Free(heap, StackPlace).used = DOMAIN heap.used \ {StackPlace}
        /\ \A b \in DOMAIN Free(heap, StackPlace).used :
              Free(heap, StackPlace).used[b] = heap.used[b]
    BY <1>1, <2>4, Sizes, FreeIs
  <2>6. FreeNow' = UnitsOf(StackPlace, StackSize) \cup RearUnits(plays)
    BY <2>1, <2>3, <2>5 DEF FreeNow
  <2>7. heap'.used[TcbPlace] = TcbSize
    BY <1>3, <2>1, <2>3, <2>4, <2>5
  <2>8. stack'[t] = NULL
    BY <1>2, <1>13, <2>1
  <2>9. /\ stage'[t] = "deleted" /\ given'[t] = plays' /\ handle' = plays'
        /\ tcb'[t] = TcbPlace /\ cli' = "prompt" /\ plays' = plays
        /\ \A u \in Players : u # t => stage'[u] = "none"
    BY <2>1, <2>2, <2>3
  <2>10. Shape'
    BY <1>13, <2>6, <2>7, <2>8, <2>9 DEF Shape
  <2>11. QED
    BY <1>1, <2>1, <2>10
<1>14. ASSUME NEW t \in reaped, t \in Players, FreeTcb(t)
       PROVE  ~refused' /\ ~halted' /\ Shape'
  <2>1. /\ stack[t] = NULL /\ heap' = Free(heap, tcb[t])
        /\ stage' = [stage EXCEPT ![t] = "none"]
        /\ UNCHANGED <<plays, cli, refused, halted>>
    BY <1>14 DEF FreeTcb, FreeControlBlock
  <2>2. stage[t] = "deleted"
    BY <1>2
  <2>3. /\ cli = "prompt" /\ tcb[t] = TcbPlace /\ heap.used[TcbPlace] = TcbSize
        /\ FreeNow = UnitsOf(StackPlace, StackSize) \cup RearUnits(plays)
        /\ \A u \in Players : u # t => stage[u] = "none"
    BY <1>1, <1>14, <2>1, <2>2 DEF Shape
  <2>4. TcbPlace \in DOMAIN heap.used
    BY <1>3, <1>14, <2>3, HeldIs
  <2>5. Cover(Free(heap, TcbPlace).free)
          = Cover(heap.free) \cup UnitsOf(TcbPlace, heap.used[TcbPlace])
    BY <1>1, <2>4, Sizes, FreeIs
  <2>6. UnitsOf(StackPlace, PlaceSize) = UnitsOf(StackPlace, StackSize) \cup UnitsOf(TcbPlace, TcbSize)
    <3>1. StackPlace <= TcbPlace /\ TcbPlace <= QueuesFrom
      BY PlacesAre, Sizes
    <3>2. ASSUME NEW u
          PROVE  u \in UnitsOf(StackPlace, PlaceSize)
                   <=> u \in UnitsOf(StackPlace, StackSize) \cup UnitsOf(TcbPlace, TcbSize)
      BY <3>1, PlacesAre
    <3>3. QED
      BY <3>2
  <2>7. FreeNow' = UnitsOf(StackPlace, PlaceSize) \cup RearUnits(plays)
    BY <2>1, <2>3, <2>5, <2>6 DEF FreeNow
  <2>8. \A u \in Players : stage'[u] = "none"
    BY <1>1, <2>1, <2>3
  <2>9. QED
    BY <1>1, <2>1, <2>3, <2>7, <2>8 DEF Shape
<1>15. QED
  BY <1>2, <1>4, <1>5, <1>6, <1>7, <1>8, <1>10, <1>11, <1>12, <1>13, <1>14,
     HeapSteps

\* No more than one task while nothing has overlapped, and no failure before the
\* first play.
LEMMA FewStep ==
    ASSUME PlayTypes, NameInv, AloneInv, HeapNext
    PROVE  /\ plays' = 0 => ~refused' /\ ~halted'
           /\ ~overlapped' =>
                 /\ ~overlapped
                 /\ \A t, u \in Players :
                       stage'[t] # "none" /\ stage'[u] # "none" => t = u
                 /\ cli' # "prompt" => \A t \in Players : stage'[t] = "none"
           /\ plays' \in Nat /\ plays <= plays'
<1> USE DEF Proceed, consoleVars, taskVars, idleVars
<1>1. /\ stage \in [Players -> Stages] /\ reaped \subseteq Players
      /\ plays \in Nat
  BY Sizes DEF PlayTypes, Commands
<1>2. /\ cli # "prompt" => plays # 0
      /\ \A t \in Players : stage[t] # "none" => plays # 0
  <2>1. ASSUME NEW t \in Players, stage[t] # "none", plays = 0 PROVE FALSE
    <3>1. given[t] \in 1 .. 0 \/ given[t] \in 1 .. 0 - 1
      BY <2>1 DEF NameInv
    <3>2. QED
      BY <3>1
  <2>2. QED
    BY <2>1 DEF NameInv
<1>3. /\ plays = 0 => ~refused /\ ~halted
      /\ ~overlapped =>
            /\ \A t, u \in Players : stage[t] # "none" /\ stage[u] # "none" => t = u
            /\ cli # "prompt" => \A t \in Players : stage[t] = "none"
  BY DEF AloneInv
<1>4. CASE ClearName
  <2>1. /\ plays' = plays + 1 /\ UNCHANGED stage
        /\ overlapped' = (overlapped \/ \E t \in Players : stage[t] # "none")
    BY <1>4 DEF ClearName
  <2>2. plays' \in Nat /\ plays' # 0 /\ plays <= plays'
    BY <1>1, <2>1
  <2>3. ~overlapped' => ~overlapped /\ \A t \in Players : stage'[t] = "none"
    BY <2>1
  <2>4. QED
    BY <2>2, <2>3
<1>5. CASE CopyName
  BY <1>1, <1>2, <1>3, <1>5 DEF CopyName
<1>6. CASE AllocateStack
  BY <1>1, <1>2, <1>3, <1>6 DEF AllocateStack
<1>7. CASE AllocateTcb
  <2>1. /\ cli = "tcb" /\ plays # 0 /\ UNCHANGED <<plays, overlapped>>
        /\ \/ cli' = "prompt" /\ \E t \in Players : stage' = [stage EXCEPT ![t] = "create"]
           \/ UNCHANGED stage
    BY <1>2, <1>7 DEF AllocateTcb
  <2>2. CASE UNCHANGED stage
    BY <1>1, <1>3, <2>1, <2>2
  <2>3. CASE cli' = "prompt" /\ \E t \in Players : stage' = [stage EXCEPT ![t] = "create"]
    <3>1. PICK t \in Players : stage' = [stage EXCEPT ![t] = "create"]
      BY <2>3
    <3>2. \A u \in Players : u # t => stage'[u] = stage[u]
      BY <1>1, <3>1
    <3>3. QED
      BY <1>1, <1>3, <2>1, <2>3, <3>2
  <2>4. QED
    BY <2>1, <2>2, <2>3
<1>8. CASE GiveBack
  BY <1>1, <1>2, <1>3, <1>8 DEF GiveBack
<1>9. ASSUME NEW t \in Players,
             \/ CreateQueue(t) \/ OpenFile(t) \/ Prime(t) \/ Receive(t)
             \/ EndOfFile(t) \/ DeleteSelf(t) \/ TransferComplete(t)
      PROVE  /\ plays # 0
             /\ \A u \in Players : stage'[u] # "none" => stage[u] # "none"
             /\ UNCHANGED <<plays, cli, overlapped>>
  <2>1. /\ stage[t] # "none"
        /\ \/ UNCHANGED stage
           \/ \E s \in Stages : stage' = [stage EXCEPT ![t] = s]
    BY <1>9 DEF CreateQueue, OpenFile, Prime, Receive, EndOfFile, DeleteSelf,
               TransferComplete, Assert, Stages
  <2>2. UNCHANGED <<plays, cli, overlapped>>
    BY <1>9 DEF CreateQueue, OpenFile, Prime, Receive, EndOfFile, DeleteSelf,
               TransferComplete
  <2>3. QED
    BY <1>1, <1>2, <2>1, <2>2
<1>10. CASE TakeDead
  BY <1>1, <1>3, <1>10 DEF TakeDead
<1>11. ASSUME NEW t \in reaped, t \in Players, FreeStack(t) \/ FreeTcb(t)
       PROVE  /\ UNCHANGED <<plays, cli, overlapped, refused, halted>>
              /\ \A u \in Players : stage'[u] # "none" => stage[u] # "none"
  <2>1. /\ UNCHANGED <<plays, cli, overlapped, refused, halted>>
        /\ UNCHANGED stage \/ stage' = [stage EXCEPT ![t] = "none"]
    BY <1>11 DEF FreeStack, FreeTcb
  <2>2. QED
    BY <1>1, <2>1
<1>12. ASSUME NEW t \in Players,
              \/ CreateQueue(t) \/ OpenFile(t) \/ Prime(t) \/ Receive(t)
              \/ EndOfFile(t) \/ DeleteSelf(t) \/ TransferComplete(t)
       PROVE  /\ plays' # 0 /\ plays' = plays
              /\ ~overlapped' =>
                    /\ ~overlapped
                    /\ \A u, v \in Players :
                          stage'[u] # "none" /\ stage'[v] # "none" => u = v
                    /\ cli' # "prompt" => \A u \in Players : stage'[u] = "none"
  BY <1>3, <1>9, <1>12
<1>13. QED
  BY <1>1, <1>3, <1>4, <1>5, <1>6, <1>7, <1>8, <1>10, <1>11, <1>12, HeapSteps

LEMMA AloneStep ==
    ASSUME MemoryInv, NameInv, AloneInv, [HeapNext]_heapVars PROVE AloneInv'
<1>1. CASE HeapNext
  <2>1. PlayTypes
    BY DEF MemoryInv
  <2>2. /\ plays' = 0 => ~refused' /\ ~halted'
        /\ ~overlapped' =>
              /\ ~overlapped
              /\ \A t, u \in Players :
                    stage'[t] # "none" /\ stage'[u] # "none" => t = u
              /\ cli' # "prompt" => \A t \in Players : stage'[t] = "none"
        /\ plays' \in Nat /\ plays <= plays' /\ plays \in Nat
    BY <1>1, <2>1, Sizes, FewStep DEF PlayTypes, Commands
  <2>3. ASSUME Alone' PROVE ~refused' /\ ~halted' /\ Shape'
    <3>1. /\ ~overlapped' /\ plays' <= Capacity /\ 1 <= Capacity
      BY <2>3 DEF Alone, Capacity
    <3>2. Capacity \in Int
      BY <2>2, <3>1, CapacityIs
    <3>3. Alone
      BY <2>2, <3>1, <3>2 DEF Alone
    <3>4. QED
      BY <1>1, <3>1, <3>3, ShapeStep
  <2>4. QED
    BY <2>2, <2>3 DEF AloneInv
<1>2. CASE UNCHANGED heapVars
  <2>1. UNCHANGED <<heap, name, cli, newStack, plays, refused, overlapped, stage,
                    given, stack, tcb, waits, dead, reaped, handle, queues,
                    halted>>
    BY <1>2 DEF heapVars, consoleVars, taskVars, idleVars
  <2>2. QED
    BY <2>1 DEF AloneInv, Alone, Shape, FreeNow, Capacity
<1>3. QED
  BY <1>1, <1>2

LEMMA AloneInit == HeapInit => AloneInv
<1> SUFFICES ASSUME HeapInit PROVE AloneInv
  OBVIOUS
<1>1. /\ plays = 0 /\ ~refused /\ ~halted /\ cli = "prompt"
      /\ \A t \in Players : stage[t] = "none"
  BY DEF HeapInit
<1>2. ASSUME Alone PROVE Shape
  <2>1. FreeNow = UnitsOf(StackPlace, PlaceSize) \cup RearUnits(0)
    BY <1>2, AloneBoot DEF Alone
  <2>2. QED
    BY <1>1, <2>1 DEF Shape
<1>3. QED
  BY <1>1, <1>2 DEF AloneInv

\* As long as every play is over and cleaned up before the next, the first
\* Capacity of them find their memory, for any sizes: the stack and the control
\* block come back to where they were and join again, and each queue lies behind
\* the last.
THEOREM AloneFindsMemory == HeapSpec => []AloneNeverRefused
<1>1. HeapInit => MemoryInv /\ NameInv /\ AloneInv
  BY MemoryInit, NameInit, AloneInit
<1>2. MemoryInv /\ NameInv /\ AloneInv /\ [HeapNext]_heapVars
        => MemoryInv' /\ NameInv' /\ AloneInv'
  BY MemoryStep, NameStep, AloneStep DEF MemoryInv
<1>3. MemoryInv /\ NameInv /\ AloneInv => AloneNeverRefused
  <2> SUFFICES ASSUME MemoryInv, AloneInv, ~overlapped, plays <= Capacity
               PROVE  ~refused /\ ~halted
    BY DEF AloneNeverRefused
  <2>1. plays \in Nat
    BY Sizes DEF MemoryInv, PlayTypes, Commands
  <2>2. Capacity \in Int
    BY <2>1, CapacityIs
  <2>3. CASE 1 <= Capacity
    BY <2>3 DEF AloneInv, Alone
  <2>4. CASE ~(1 <= Capacity)
    BY <2>1, <2>2, <2>4 DEF AloneInv
  <2>5. QED
    BY <2>3, <2>4
<1>4. QED
  BY <1>1, <1>2, <1>3, PTL DEF HeapSpec

=============================================================================
