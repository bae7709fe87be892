---------------------------- MODULE QueueLemmas -----------------------------
(***************************************************************************)
(* What a wait queue (sync/wait.c) holds after each of its operations:     *)
(* wait_queue_add appends a record, wakeup_first takes the first one, and  *)
(* wait_queue_del takes one out of the middle.  The queue is a sequence    *)
(* without repetitions, and the lemmas say which set of waiters it lists.  *)
(* The last ones are for counting: sets of processes, and induction over   *)
(* the naturals for a set, by the least number that is not in it.          *)
(***************************************************************************)
EXTENDS Naturals, Sequences, FiniteSets, SequencesExt, SequenceTheorems,
        FiniteSetTheorems, WellFoundedInduction, TLAPS

\* wait_queue_init and wait_queue_empty
LEMMA QueueEmpty ==
    /\ ToSet(<<>>) = {} /\ IsInjective(<<>>)
    /\ \A S : <<>> \in Seq(S)
    /\ \A S : \A q \in Seq(S) : ToSet(q) = {} <=> q = <<>>
<1>1. \A S : \A q \in Seq(S) : q # <<>> => ToSet(q) # {}
  <2> SUFFICES ASSUME NEW S, NEW q \in Seq(S), q # <<>>
               PROVE  ToSet(q) # {}
    OBVIOUS
  <2>1. 1 \in DOMAIN q
    BY HeadTailProperties
  <2>q. QED
    BY <2>1 DEF ToSet
<1>2. DOMAIN <<>> = {}
  OBVIOUS
<1>q. QED
  BY <1>1, <1>2 DEF ToSet, IsInjective

\* The elements of a queue have its type.
LEMMA QueueType ==
    ASSUME NEW S, NEW q \in Seq(S)
    PROVE  ToSet(q) \subseteq S
BY DEF ToSet

\* wait_queue_add
LEMMA QueueAdd ==
    ASSUME NEW S, NEW q \in Seq(S), NEW e \in S
    PROVE  /\ Append(q, e) \in Seq(S)
           /\ Append(q, e) # <<>> /\ Len(Append(q, e)) = Len(q) + 1
           /\ ToSet(Append(q, e)) = ToSet(q) \cup {e}
           /\ IsInjective(q) /\ e \notin ToSet(q) => IsInjective(Append(q, e))
<1> DEFINE r == Append(q, e)
           n == Len(q)
<1>1. /\ n \in Nat /\ DOMAIN q = 1..n /\ DOMAIN r = 1..(n + 1)
      /\ r \in Seq(S) /\ r # <<>> /\ Len(r) = n + 1
      /\ \A i \in 1..n : r[i] = q[i]
      /\ r[n + 1] = e
  BY AppendProperties, LenProperties
<1>0. \A i \in 1..(n + 1) : i \in 1..n \/ i = n + 1
  BY <1>1
<1>4. \A i \in 1..n : i \in 1..(n + 1) /\ i # n + 1
  BY <1>1
<1>5. n + 1 \in 1..(n + 1)
  BY <1>1
<1> HIDE DEF r, n
<1>2. ToSet(r) = ToSet(q) \cup {e}
  BY <1>0, <1>1, <1>4, <1>5 DEF ToSet
<1>3. ASSUME IsInjective(q), e \notin ToSet(q)
      PROVE  IsInjective(r)
  <2>1. \A i \in 1..n : q[i] # e
    BY <1>1, <1>3 DEF ToSet
  <2>2. \A i, j \in 1..n : q[i] = q[j] => i = j
    BY <1>1, <1>3 DEF IsInjective
  <2>3. \A i, j \in 1..(n + 1) : r[i] = r[j] => i = j
    BY <1>0, <1>1, <2>1, <2>2
  <2>q. QED
    BY <1>1, <2>3 DEF IsInjective
<1>q. QED
  BY <1>1, <1>2, <1>3 DEF r, n

\* wakeup_first: the first record leaves the queue.
LEMMA QueueTail ==
    ASSUME NEW S, NEW q \in Seq(S), q # <<>>
    PROVE  /\ Head(q) \in S /\ Head(q) \in ToSet(q)
           /\ Tail(q) \in Seq(S)
           /\ Len(q) \in Nat /\ Len(q) > 0 /\ Len(Tail(q)) = Len(q) - 1
           /\ ToSet(q) = ToSet(Tail(q)) \cup {Head(q)}
           /\ IsInjective(q) => /\ IsInjective(Tail(q))
                                /\ ToSet(Tail(q)) = ToSet(q) \ {Head(q)}
<1> DEFINE r == Tail(q)
           n == Len(q)
<1>1. /\ n \in Nat /\ n > 0 /\ DOMAIN q = 1..n /\ DOMAIN r = 1..(n - 1)
      /\ r \in Seq(S) /\ Len(r) = n - 1
      /\ \A i \in 1..(n - 1) : r[i] = q[i + 1]
      /\ q[1] = Head(q) /\ Head(q) \in S
  BY HeadTailProperties, LenProperties
<1>2. /\ 1 \in 1..n
      /\ \A i \in 1..(n - 1) : i + 1 \in 1..n /\ i + 1 # 1
      /\ \A i \in 1..n : i # 1 => i - 1 \in 1..(n - 1) /\ (i - 1) + 1 = i
      /\ \A i, j \in 1..(n - 1) : i + 1 = j + 1 => i = j
  BY <1>1
<1> HIDE DEF r, n
<1>3. ToSet(q) = ToSet(r) \cup {Head(q)}
  <2>1. ASSUME NEW x \in ToSet(q) PROVE x \in ToSet(r) \cup {Head(q)}
    <3>1. PICK i \in 1..n : x = q[i]
      BY <1>1 DEF ToSet
    <3>2. CASE i = 1
      BY <1>1, <3>1, <3>2
    <3>3. CASE i # 1
      <4>1. i - 1 \in 1..(n - 1) /\ r[i - 1] = x
        BY <1>1, <1>2, <3>1, <3>3
      <4>q. QED
        BY <1>1, <4>1 DEF ToSet
    <3>q. QED
      BY <3>2, <3>3
  <2>2. ToSet(r) \subseteq ToSet(q) /\ Head(q) \in ToSet(q)
    BY <1>1, <1>2, SMTT(30) DEF ToSet
  <2>q. QED
    BY <2>1, <2>2
<1>4. ASSUME IsInjective(q)
      PROVE  IsInjective(r) /\ ToSet(r) = ToSet(q) \ {Head(q)}
  <2>1. \A i, j \in 1..n : q[i] = q[j] => i = j
    BY <1>1, <1>4 DEF IsInjective
  <2>2. \A i \in 1..(n - 1) : r[i] # Head(q)
    BY <1>1, <1>2, <2>1
  <2>3. Head(q) \notin ToSet(r)
    BY <1>1, <2>2 DEF ToSet
  <2>4. \A i, j \in 1..(n - 1) : r[i] = r[j] => i = j
    BY <1>1, <1>2, <2>1
  <2>q. QED
    BY <1>1, <1>3, <2>3, <2>4 DEF IsInjective
<1>q. QED
  BY <1>1, <1>3, <1>4 DEF r, n

\* A sequence without its element at position k
LEMMA CutAt ==
    ASSUME NEW S, NEW q \in Seq(S), NEW k \in 1..Len(q)
    PROVE  /\ RemoveAt(q, k) \in Seq(S)
           /\ Len(RemoveAt(q, k)) = Len(q) - 1
           /\ \A i \in 1..(Len(q) - 1) :
                RemoveAt(q, k)[i] = IF i < k THEN q[i] ELSE q[i + 1]
<1> DEFINE n == Len(q)
           a == SubSeq(q, 1, k - 1)
           b == SubSeq(q, k + 1, n)
<1>0. n \in Nat /\ k \in Nat /\ 1 <= k /\ k <= n /\ k - 1 \in Nat /\ n - k \in Nat
  BY LenProperties
<1>1. /\ a \in Seq(S) /\ Len(a) = k - 1
      /\ \A i \in 1..(k - 1) : a[i] = q[i]
  <2>1. \A i \in 1..(k - 1) : i \in 1..n
    BY <1>0
  <2>q. QED
    BY <1>0, <2>1, SubSeqProperties
<1>2. /\ b \in Seq(S) /\ Len(b) = n - k
      /\ \A i \in 1..(n - k) : b[i] = q[k + i]
  <2>1. \A i \in (k + 1)..n : i \in 1..n
    BY <1>0
  <2>q. QED
    BY <1>0, <2>1, SubSeqProperties
<1> HIDE DEF a, b, n
<1>3. /\ a \o b \in Seq(S) /\ Len(a \o b) = n - 1
      /\ \A i \in 1..(n - 1) : (a \o b)[i] = IF i <= k - 1 THEN a[i] ELSE b[i - (k - 1)]
  <2>1. Len(a) + Len(b) = n - 1
    BY <1>0, <1>1, <1>2
  <2>q. QED
    BY <1>1, <1>2, <2>1, ConcatProperties
<1>4. ASSUME NEW i \in 1..(n - 1)
      PROVE  (a \o b)[i] = IF i < k THEN q[i] ELSE q[i + 1]
  <2>1. CASE i < k
    <3>1. i \in 1..(k - 1) /\ i <= k - 1
      BY <1>0, <2>1
    <3>q. QED
      BY <1>1, <1>3, <2>1, <3>1
  <2>2. CASE ~(i < k)
    <3>1. i - (k - 1) \in 1..(n - k) /\ ~(i <= k - 1) /\ k + (i - (k - 1)) = i + 1
      BY <1>0, <2>2
    <3>2. b[i - (k - 1)] = q[i + 1]
      BY <1>2, <3>1
    <3>q. QED
      BY <1>3, <2>2, <3>1, <3>2
  <2>q. QED
    BY <2>1, <2>2
<1>q. QED
  BY <1>3, <1>4 DEF RemoveAt, a, b, n

\* wait_queue_del: the record e is taken out, wherever it is; nothing happens
\* if it is not there.
LEMMA QueueDel ==
    ASSUME NEW S, NEW q \in Seq(S), NEW e, IsInjective(q)
    PROVE  /\ RemoveFirst(q, e) \in Seq(S)
           /\ IsInjective(RemoveFirst(q, e))
           /\ ToSet(RemoveFirst(q, e)) = ToSet(q) \ {e}
           /\ e \notin ToSet(q) => RemoveFirst(q, e) = q
<1> DEFINE n == Len(q)
<1>0. n \in Nat /\ DOMAIN q = 1..n
  BY LenProperties
<1>1. CASE e \notin ToSet(q)
  <2>1. ~\E i \in 1..n : q[i] = e
    BY <1>0, <1>1 DEF ToSet
  <2>2. RemoveFirst(q, e) = q
    BY <2>1 DEF RemoveFirst
  <2>q. QED
    BY <1>1, <2>2
<1>2. CASE e \in ToSet(q)
  <2>1. PICK k \in 1..n : q[k] = e
    BY <1>0, <1>2 DEF ToSet
  <2>2. \A i, j \in 1..n : q[i] = q[j] => i = j
    BY <1>0 DEF IsInjective
  <2>3. {i \in 1..n : q[i] = e} = {k}
    BY <2>1, <2>2
  <2>4. RemoveFirst(q, e) = RemoveAt(q, k)
    <3>1. Min({k}) = k
      BY <2>1 DEF Min
    <3>2. SelectInSeq(q, LAMBDA v : v = e) = k
      BY <2>3, <3>1 DEF SelectInSeq
    <3>q. QED
      BY <2>1, <3>2 DEF RemoveFirst
  <2> DEFINE r == RemoveAt(q, k)
  <2>5. /\ r \in Seq(S) /\ DOMAIN r = 1..(n - 1)
        /\ \A i \in 1..(n - 1) : r[i] = IF i < k THEN q[i] ELSE q[i + 1]
    BY <2>1, CutAt, LenProperties
  <2> HIDE DEF r
  <2>6. ASSUME NEW i \in 1..(n - 1)
        PROVE  \E j \in 1..n : j # k /\ r[i] = q[j] /\ j = IF i < k THEN i ELSE i + 1
    <3>1. i \in 1..n /\ i + 1 \in 1..n /\ (i < k => i # k) /\ (~(i < k) => i + 1 # k)
      BY <1>0, <2>1
    <3>q. QED
      BY <2>5, <3>1
  <2>7. \A i, j \in 1..(n - 1) : r[i] = r[j] => i = j
    <3> SUFFICES ASSUME NEW i \in 1..(n - 1), NEW j \in 1..(n - 1), r[i] = r[j]
                 PROVE  i = j
      OBVIOUS
    <3>1. PICK a \in 1..n : r[i] = q[a] /\ a = IF i < k THEN i ELSE i + 1
      BY <2>6
    <3>2. PICK b \in 1..n : r[j] = q[b] /\ b = IF j < k THEN j ELSE j + 1
      BY <2>6
    <3>3. a = b
      BY <2>2, <3>1, <3>2
    <3>q. QED
      BY <1>0, <2>1, <3>1, <3>2, <3>3
  <2>8. ToSet(r) = ToSet(q) \ {e}
    <3>1. ASSUME NEW x \in ToSet(r) PROVE x \in ToSet(q) \ {e}
      <4>1. PICK i \in 1..(n - 1) : x = r[i]
        BY <2>5 DEF ToSet
      <4>2. PICK j \in 1..n : j # k /\ x = q[j]
        BY <2>6, <4>1
      <4>q. QED
        BY <1>0, <2>1, <2>2, <4>2 DEF ToSet
    <3>2. ASSUME NEW x \in ToSet(q) \ {e} PROVE x \in ToSet(r)
      <4>1. PICK j \in 1..n : x = q[j]
        BY <1>0 DEF ToSet
      <4>2. j # k
        BY <2>1, <4>1
      <4>3. CASE j < k
        <5>1. j \in 1..(n - 1) /\ r[j] = x
          BY <1>0, <2>1, <2>5, <4>1, <4>3
        <5>q. QED
          BY <2>5, <5>1 DEF ToSet
      <4>4. CASE j > k
        <5>1. j - 1 \in 1..(n - 1) /\ ~(j - 1 < k) /\ (j - 1) + 1 = j
          BY <1>0, <2>1, <4>4
        <5>2. r[j - 1] = x
          BY <2>5, <4>1, <5>1
        <5>q. QED
          BY <2>5, <5>1, <5>2 DEF ToSet
      <4>q. QED
        BY <1>0, <2>1, <4>2, <4>3, <4>4
    <3>q. QED
      BY <3>1, <3>2
  <2>9. IsInjective(r)
    BY <2>5, <2>7 DEF IsInjective
  <2>q. QED
    BY <1>2, <2>4, <2>5, <2>8, <2>9 DEF r
<1>q. QED
  BY <1>1, <1>2
\* An element that goes back to the front
LEMMA QueueFront ==
    ASSUME NEW S, NEW q \in Seq(S), NEW e \in S
    PROVE  /\ <<e>> \o q \in Seq(S)
           /\ Len(<<e>> \o q) = Len(q) + 1
           /\ ToSet(<<e>> \o q) = ToSet(q) \cup {e}
           /\ IsInjective(q) /\ e \notin ToSet(q) => IsInjective(<<e>> \o q)
<1> DEFINE r == <<e>> \o q
           n == Len(q)
<1>1. /\ n \in Nat /\ DOMAIN q = 1..n /\ DOMAIN r = 1..(n + 1)
      /\ r \in Seq(S) /\ Len(r) = n + 1
      /\ r[1] = e /\ \A i \in 1..n : r[i + 1] = q[i]
  <2>1. <<e>> \in Seq(S) /\ Len(<<e>>) = 1 /\ <<e>>[1] = e
    OBVIOUS
  <2>2. n \in Nat /\ DOMAIN q = 1..n
    BY LenProperties
  <2>3. /\ r \in Seq(S) /\ Len(r) = 1 + n
        /\ \A i \in 1..(1 + n) : r[i] = IF i <= 1 THEN <<e>>[i] ELSE q[i - 1]
    BY <2>1, ConcatProperties
  <2>4. DOMAIN r = 1..(n + 1) /\ 1 \in 1..(1 + n)
    BY <2>2, <2>3, LenProperties
  <2>5. \A i \in 1..n : i + 1 \in 1..(1 + n) /\ ~(i + 1 <= 1) /\ (i + 1) - 1 = i
    BY <2>2
  <2> HIDE DEF r, n
  <2>q. QED
    BY <2>1, <2>2, <2>3, <2>4, <2>5
<1>2. /\ 1 \in 1..(n + 1)
      /\ \A i \in 1..n : i + 1 \in 1..(n + 1) /\ i + 1 # 1
      /\ \A i \in 1..(n + 1) : i # 1 => i - 1 \in 1..n /\ (i - 1) + 1 = i
  BY <1>1
<1> HIDE DEF r, n
<1>3. \A i \in 1..(n + 1) : i # 1 => r[i] = q[i - 1] /\ i - 1 \in 1..n
  BY <1>1, <1>2
<1>4. ToSet(r) = ToSet(q) \cup {e}
  <2>1. ASSUME NEW x \in ToSet(r) PROVE x \in ToSet(q) \cup {e}
    <3>1. PICK i \in 1..(n + 1) : x = r[i]
      BY <1>1 DEF ToSet
    <3>q. QED
      BY <1>1, <1>3, <3>1 DEF ToSet
  <2>2. ToSet(q) \subseteq ToSet(r) /\ e \in ToSet(r)
    BY <1>1, <1>2, SMTT(30) DEF ToSet
  <2>q. QED
    BY <2>1, <2>2
<1>5. ASSUME IsInjective(q), e \notin ToSet(q)
      PROVE  IsInjective(r)
  <2>1. \A i \in 1..n : q[i] # e
    BY <1>1, <1>5 DEF ToSet
  <2>2. \A i, j \in 1..n : q[i] = q[j] => i = j
    BY <1>1, <1>5 DEF IsInjective
  <2>3. \A i, j \in 1..(n + 1) : r[i] = r[j] => i = j
    <3> SUFFICES ASSUME NEW i \in 1..(n + 1), NEW j \in 1..(n + 1), r[i] = r[j]
                 PROVE  i = j
      OBVIOUS
    <3>1. CASE i = 1 \/ j = 1
      BY <1>1, <1>3, <2>1, <3>1
    <3>2. CASE i # 1 /\ j # 1
      <4>1. i - 1 = j - 1
        BY <1>3, <2>2, <3>2
      <4>q. QED
        BY <1>1, <4>1
    <3>q. QED
      BY <3>1, <3>2
  <2>q. QED
    BY <1>1, <2>3 DEF IsInjective
<1>q. QED
  BY <1>1, <1>4, <1>5 DEF r, n

\* Counting the processes of a finite set that are in some state
LEMMA Count ==
    ASSUME NEW P, IsFiniteSet(P), NEW S \in SUBSET P
    PROVE  /\ IsFiniteSet(S) /\ Cardinality(S) \in Nat
           /\ \A p \in P : p \notin S => Cardinality(S \cup {p}) = Cardinality(S) + 1
           /\ \A p \in S : Cardinality(S \ {p}) = Cardinality(S) - 1
           /\ Cardinality(S) = 0 <=> S = {}
<1>1. IsFiniteSet(S) /\ Cardinality(S) \in Nat
  BY FS_Subset, FS_CardinalityType
<1>2. \A p \in P : p \notin S => Cardinality(S \cup {p}) = Cardinality(S) + 1
  BY <1>1, FS_AddElement
<1>3. \A p \in S : Cardinality(S \ {p}) = Cardinality(S) - 1
  BY <1>1, FS_RemoveElement
<1>4. Cardinality(S) = 0 <=> S = {}
  BY <1>1, FS_EmptySet
<1>q. QED
  BY <1>1, <1>2, <1>3, <1>4

-----------------------------------------------------------------------------
\* The order of the naturals, as a relation
NatLt == {pr \in Nat \X Nat : pr[1] < pr[2]}

\* A set of naturals has a least element.
LEMMA LeastNat ==
    ASSUME NEW S \in SUBSET Nat, S # {}
    PROVE  \E l \in S : \A k \in S : l <= k
<1>1. IsWellFoundedOn(NatLt, Nat)
  BY NatLessThanWellFounded DEF NatLt, OpToRel
<1>2. PICK l \in S : \A k \in S : <<k, l>> \notin NatLt
  BY <1>1, WFMin, Zenon
<1>3. \A k \in S : l <= k
  <2> TAKE k \in S
  <2>1. <<k, l>> \in Nat \X Nat
    OBVIOUS
  <2>2. ~(k < l)
    BY <1>2, <2>1, Z3 DEF NatLt
  <2>q. QED
    BY <2>2
<1>q. QED
  BY <1>3

\* Induction over an initial segment of the naturals, for a set.
LEMMA Upwards ==
    ASSUME NEW n \in Nat, NEW S, 0 \in S, \A i \in 0 .. n - 1 : i \in S => i + 1 \in S
    PROVE  \A i \in 0 .. n : i \in S
<1> DEFINE B == {i \in 0 .. n : i \notin S}
<1> SUFFICES ASSUME B # {} PROVE FALSE
  OBVIOUS
<1>1. B \in SUBSET Nat
  OBVIOUS
<1>2. PICK l \in B : \A k \in B : l <= k
  BY <1>1, LeastNat
<1>3. l # 0 /\ l - 1 \in 0 .. n - 1 /\ l - 1 \in 0 .. n
  BY <1>2
<1>4. l - 1 \in S
  BY <1>2, <1>3
<1>5. (l - 1) + 1 \in S
  BY <1>3, <1>4
<1>q. QED
  BY <1>2, <1>5

\* A set of positions that has with each all before it is an initial segment.
LEMMA InitialSegment ==
    ASSUME NEW n \in Nat, NEW S \in SUBSET (1 .. n),
           \A i \in S, j \in 1 .. n : j <= i => j \in S
    PROVE  Cardinality(S) \in 0 .. n /\ S = 1 .. Cardinality(S)
<1> DEFINE B == (1 .. n) \ S
<1>1. \E k \in 0 .. n : S = 1 .. k
  <2>1. CASE B = {}
    <3>1. S = 1 .. n
      BY <2>1
    <3>q. QED
      BY <3>1
  <2>2. CASE B # {}
    <3>0. B \in SUBSET Nat
      OBVIOUS
    <3>1. PICK l \in B : \A k \in B : l <= k
      BY <2>2, <3>0, LeastNat
    <3>2. l - 1 \in 0 .. n
      BY <3>1
    <3>3. S = 1 .. (l - 1)
      <4>1. ASSUME NEW i \in S PROVE i \in 1 .. (l - 1)
        BY <3>1, <4>1
      <4>2. ASSUME NEW i \in 1 .. (l - 1) PROVE i \in S
        BY <3>1, <4>2
      <4>q. QED
        BY <4>1, <4>2
    <3>q. QED
      BY <3>2, <3>3
  <2>q. QED
    BY <2>1, <2>2
<1>2. PICK k \in 0 .. n : S = 1 .. k
  BY <1>1
<1>3. 1 \in Int /\ k \in Int /\ (1 > k => k = 0) /\ k - 1 + 1 = k
  OBVIOUS
<1>4. Cardinality(1 .. k) = IF 1 > k THEN 0 ELSE k - 1 + 1
  BY <1>3, FS_Interval
<1>5. Cardinality(S) = k
  BY <1>2, <1>3, <1>4
<1>q. QED
  BY <1>2, <1>5
=============================================================================
