---------------------------- MODULE FamilyProofs ----------------------------
(***************************************************************************)
(* The lists of children stay lists, a process has a living parent, no     *)
(* zombie is missed by who waits for it and init ends last: for any number *)
(* of processes.  And pids are unique, for any number of CPUs, processes   *)
(* and pids.                                                               *)
(*                                                                         *)
(* The list of a process's children is given by a sequence that its links  *)
(* spell out (IsList), a thread group by the smallest set that next does   *)
(* not leave (Ring).  What the walks along the links compute, and the loop *)
(* of get_pid, is found by induction on the length of the walk: the least  *)
(* number at which it would fail does not exist (LeastNat, Upwards).       *)
(***************************************************************************)
EXTENDS Family, Pid, QueueLemmas

-----------------------------------------------------------------------------
(* Walk, which follows the links of a list.                                *)

N == Cardinality(Proc)

\* There are finitely many processes.
LEMMA ProcFinite ==
    IsFiniteSet(Proc) /\ N \in Nat
<1>1. IsFiniteSet({initproc} \cup {kswapd})
  BY FS_Singleton, FS_AddElement
<1>2. IsFiniteSet(UserProc \cup ({initproc} \cup {kswapd}))
  BY <1>1, FS_Union, FamilyAssumption, Zenon
<1>3. Proc = UserProc \cup ({initproc} \cup {kswapd})
  BY DEF Proc
<1>4. IsFiniteSet(Proc)
  BY <1>2, <1>3, Zenon
<1>q. QED
  BY <1>4, FS_CardinalityType DEF N

IsWalk(w, link, first) ==
    w = [n \in 0 .. N |-> IF n = 0 THEN first
                          ELSE IF w[n - 1] = NULL THEN NULL ELSE link[w[n - 1]]]

\* A function that follows the links is the one that Walk defines.
LEMMA WalkIs ==
    ASSUME NEW link, NEW first, NEW v, IsWalk(v, link, first)
    PROVE  Walk(link, first) = v
<1> DEFINE w == CHOOSE w : IsWalk(w, link, first)
<1>1. Walk(link, first) = w
  BY DEF Walk, IsWalk, N
<1>2. IsWalk(w, link, first)
  BY Zenon
<1> HIDE DEF w
<1> DEFINE S == {n \in 0 .. N : w[n] = v[n]}
<1>3. N \in Nat
  BY ProcFinite
<1>4. 0 \in S
  BY <1>2, <1>3 DEF IsWalk
<1>5. \A n \in 0 .. N - 1 : n \in S => n + 1 \in S
  <2> TAKE n \in 0 .. N - 1
  <2> HAVE n \in S
  <2>1. n + 1 \in 0 .. N /\ n + 1 # 0 /\ (n + 1) - 1 = n
    BY <1>3
  <2>2. w[n + 1] = IF w[n] = NULL THEN NULL ELSE link[w[n]]
    BY <1>2, <2>1 DEF IsWalk
  <2>3. v[n + 1] = IF v[n] = NULL THEN NULL ELSE link[v[n]]
    BY <2>1 DEF IsWalk
  <2>q. QED
    BY <2>1, <2>2, <2>3
<1>6. \A n \in 0 .. N : n \in S
  <2> HIDE DEF S
  <2>q. QED
    BY <1>3, <1>4, <1>5, Upwards
<1>7. w = [n \in 0 .. N |-> w[n]] /\ v = [n \in 0 .. N |-> v[n]]
  BY <1>2 DEF IsWalk
<1>q. QED
  BY <1>1, <1>6, <1>7

-----------------------------------------------------------------------------
(* The list of children.                                                    *)

\* s lists the children of p for the links par, cp, op and yp.
IsList(s, p, par, cp, op, yp) ==
    /\ s \in Seq(Proc)
    /\ \A i, j \in 1 .. Len(s) : s[i] = s[j] => i = j
    /\ \A i \in 1 .. Len(s) : par[s[i]] = p
    /\ \A c \in Proc : par[c] = p => \E i \in 1 .. Len(s) : s[i] = c
    /\ cp[p] = IF Len(s) = 0 THEN NULL ELSE s[1]
    /\ \A i \in 1 .. Len(s) : op[s[i]] = IF i = Len(s) THEN NULL ELSE s[i + 1]
    /\ \A i \in 1 .. Len(s) : yp[s[i]] = IF i = 1 THEN NULL ELSE s[i - 1]

\* Walking from cptr along optr gives the list.
LEMMA ChildrenIs ==
    ASSUME NEW s, NEW p \in Proc, IsList(s, p, parent, cptr, optr, yptr)
    PROVE  Children(p) = s
<1> DEFINE n == Len(s)
           v == [k \in 0 .. N |-> IF k < n THEN s[k + 1] ELSE NULL]
<1>1. N \in Nat /\ s \in Seq(Proc) /\ n \in Nat /\ IsFiniteSet(Proc)
  BY ProcFinite DEF IsList
<1>2. n <= N
  <2>1. s \in Injection(1 .. n, Proc)
    BY <1>1 DEF IsList, Injection, IsInjective
  <2>2. Cardinality(1 .. n) <= N
    BY <1>1, <2>1, FS_Injection DEF N
  <2>q. QED
    BY <1>1, <2>2, FS_Interval
<1>3. \A k \in 1 .. n : s[k] # NULL
  BY <1>1, FamilyAssumption DEF Proc
<1>4. IsWalk(v, optr, cptr[p])
  <2> SUFFICES ASSUME NEW k \in 0 .. N
               PROVE  v[k] = IF k = 0 THEN cptr[p]
                             ELSE IF v[k - 1] = NULL THEN NULL ELSE optr[v[k - 1]]
    BY DEF IsWalk
  <2>1. CASE k = 0
    BY <1>1, <2>1 DEF IsList
  <2>2. CASE k # 0
    <3>1. k - 1 \in 0 .. N /\ k \in Nat
      BY <1>1, <2>2
    <3>2. CASE k - 1 < n
      <4>1. k \in 1 .. n /\ v[k - 1] = s[k]
        BY <1>1, <3>1, <3>2, <2>2
      <4>2. optr[s[k]] = IF k = n THEN NULL ELSE s[k + 1]
        BY <4>1 DEF IsList
      <4>3. s[k] # NULL
        BY <1>3, <4>1
      <4>4. v[k] = IF k = n THEN NULL ELSE s[k + 1]
        BY <1>1, <4>1
      <4>q. QED
        BY <2>2, <4>1, <4>2, <4>3, <4>4
    <3>3. CASE ~(k - 1 < n)
      <4>1. v[k - 1] = NULL /\ v[k] = NULL
        BY <1>1, <3>1, <3>3
      <4>q. QED
        BY <2>2, <4>1
    <3>q. QED
      BY <3>2, <3>3
  <2>q. QED
    BY <2>1, <2>2
<1>5. Walk(optr, cptr[p]) = v
  <2> HIDE DEF v
  <2>q. QED
    BY <1>4, WalkIs
<1>6. {k \in DOMAIN v : v[k] # NULL} = 0 .. n - 1
  <2>1. ASSUME NEW k \in 0 .. N PROVE v[k] # NULL <=> k \in 0 .. n - 1
    BY <1>1, <1>3
  <2>2. DOMAIN v = 0 .. N
    OBVIOUS
  <2>3. 0 .. n - 1 \subseteq 0 .. N
    BY <1>1, <1>2
  <2> HIDE DEF v
  <2>q. QED
    BY <2>1, <2>2, <2>3
<1>7. Cardinality(0 .. n - 1) = n
  <2>1. 0 \in Int /\ n - 1 \in Int
    BY <1>1
  <2>2. Cardinality(0 .. n - 1) = IF 0 > n - 1 THEN 0 ELSE (n - 1) - 0 + 1
    BY <2>1, FS_Interval
  <2>q. QED
    BY <1>1, <2>2
<1>8. Children(p) = [i \in 1 .. n |-> v[i - 1]]
  <2> HIDE DEF v
  <2>q. QED
    BY <1>5, <1>6, <1>7 DEF Children
<1>9. \A i \in 1 .. n : v[i - 1] = s[i]
  BY <1>1, <1>2
<1>10. s = [i \in 1 .. n |-> s[i]]
  BY <1>1
<1>q. QED
  BY <1>8, <1>9, <1>10

-----------------------------------------------------------------------------
(* The rings of threads.                                                    *)

Closed(nx, S) == \A x \in S : nx[x] \in S

\* The smallest set with p that is closed under nx.
Ring(nx, p) ==
    {q \in Proc : \A S \in SUBSET Proc : p \in S /\ Closed(nx, S) => q \in S}

\* Following any link from any process is a walk.
LEMMA WalkExists ==
    ASSUME NEW link \in [Proc -> Proc \cup {NULL}], NEW first \in Proc \cup {NULL}
    PROVE  \E v \in [0 .. N -> Proc \cup {NULL}] : IsWalk(v, link, first)
<1> DEFINE T == Proc \cup {NULL}
           G(f, k) == f[k] = IF k = 0 THEN first
                             ELSE IF f[k - 1] = NULL THEN NULL ELSE link[f[k - 1]]
           S == {n \in 0 .. N : \E f \in [0 .. n -> T] : \A k \in 0 .. n : G(f, k)}
<1>1. N \in Nat
  BY ProcFinite
<1>2. 0 \in S
  <2> DEFINE g == [k \in 0 .. 0 |-> first]
  <2>1. g \in [0 .. 0 -> T]
    OBVIOUS
  <2>2. \A k \in 0 .. 0 : G(g, k)
    OBVIOUS
  <2> HIDE DEF g
  <2>q. QED
    BY <1>1, <2>1, <2>2
<1>3. \A n \in 0 .. N - 1 : n \in S => n + 1 \in S
  <2> TAKE n \in 0 .. N - 1
  <2> HAVE n \in S
  <2>1. PICK f \in [0 .. n -> T] : \A k \in 0 .. n : G(f, k)
    OBVIOUS
  <2> DEFINE g == [k \in 0 .. n + 1 |-> IF k \in 0 .. n THEN f[k]
                       ELSE IF f[n] = NULL THEN NULL ELSE link[f[n]]]
  <2>2. n \in 0 .. n /\ n + 1 \in 0 .. N /\ n \in Nat
    BY <1>1
  <2>3. f[n] = NULL \/ link[f[n]] \in T
    BY <2>2
  <2>4. g \in [0 .. n + 1 -> T]
    BY <2>2, <2>3
  <2>5. ASSUME NEW k \in 0 .. n + 1 PROVE G(g, k)
    <3>1. CASE k \in 0 .. n
      <4>1. g[k] = f[k] /\ (k # 0 => k - 1 \in 0 .. n /\ g[k - 1] = f[k - 1])
        BY <2>2, <3>1
      <4>q. QED
        BY <2>1, <3>1, <4>1
    <3>2. CASE k \notin 0 .. n
      <4>1. k = n + 1 /\ k # 0 /\ k - 1 = n
        BY <2>2, <3>2
      <4>2. g[k - 1] = f[n]
        BY <2>2, <4>1
      <4>3. g[k] = IF f[n] = NULL THEN NULL ELSE link[f[n]]
        BY <3>2
      <4>q. QED
        BY <4>1, <4>2, <4>3
    <3>q. QED
      BY <3>1, <3>2
  <2> HIDE DEF g
  <2>q. QED
    BY <2>2, <2>4, <2>5
<1>4. \A n \in 0 .. N : n \in S
  <2> HIDE DEF S
  <2>q. QED
    BY <1>1, <1>2, <1>3, Upwards
<1>5. PICK v \in [0 .. N -> T] : \A k \in 0 .. N : G(v, k)
  BY <1>1, <1>4
<1>6. IsWalk(v, link, first)
  BY <1>5 DEF IsWalk
<1>q. QED
  BY <1>6

\* What makes a ring: it holds p, is closed, and is in every other such set.
LEMMA RingFacts ==
    ASSUME NEW nx \in [Proc -> Proc], NEW p \in Proc
    PROVE  /\ Ring(nx, p) \subseteq Proc
           /\ p \in Ring(nx, p)
           /\ Closed(nx, Ring(nx, p))
           /\ \A S \in SUBSET Proc : p \in S /\ Closed(nx, S) => Ring(nx, p) \subseteq S
BY DEF Ring, Closed

\* With an injective nx the ring of p leads back to p.
LEMMA RingSymmetric ==
    ASSUME NEW nx \in [Proc -> Proc], IsInjective(nx), NEW p \in Proc, NEW q \in Ring(nx, p)
    PROVE  p \in Ring(nx, q)
<1> DEFINE S == Ring(nx, q)
           f == [x \in S |-> nx[x]]
<1>1. q \in Proc
  BY RingFacts
<1>2. S \subseteq Proc /\ q \in S /\ Closed(nx, S)
  BY <1>1, RingFacts
<1>3. IsFiniteSet(S)
  BY <1>2, ProcFinite, FS_Subset
<1> HIDE DEF S
<1>4. f \in Injection(S, S)
  BY <1>2 DEF Closed, Injection, IsInjective
<1>5. f \in Surjection(S, S)
  <2> HIDE DEF f
  <2>q. QED
    BY <1>3, <1>4, FS_Injection
<1>6. Closed(nx, Proc \ S)
  <2> SUFFICES ASSUME NEW x \in Proc \ S, nx[x] \in S PROVE FALSE
    BY DEF Closed
  <2>1. PICK y \in S : f[y] = nx[x]
    BY <1>5 DEF Surjection
  <2>2. nx[y] = nx[x]
    BY <2>1
  <2>q. QED
    BY <1>2, <2>2 DEF IsInjective
<1>7. SUFFICES ASSUME p \notin S PROVE FALSE
  BY DEF S
<1>8. p \in Proc \ S /\ Proc \ S \in SUBSET Proc
  BY <1>7
<1>9. Ring(nx, p) \subseteq Proc \ S
  BY <1>6, <1>8, RingFacts
<1>q. QED
  BY <1>2, <1>9

\* next_thread leads through the ring and back to where it started.
LEMMA GroupIsRing ==
    ASSUME next \in [Proc -> Proc], IsInjective(next), NEW p \in Proc
    PROVE  /\ Group(p) = Ring(next, p)
           /\ Len(Threads(p)) \in Nat \ {0}
           /\ Threads(p) \in Seq(Proc)
<1>1. next \in [Proc -> Proc \cup {NULL}] /\ p \in Proc \cup {NULL} /\ NULL \notin Proc
  BY FamilyAssumption DEF Proc
<1>2. PICK w \in [0 .. N -> Proc \cup {NULL}] : IsWalk(w, next, p)
  BY <1>1, WalkExists
<1>3. Walk(next, p) = w
  BY <1>2, WalkIs
<1>4. N \in Nat /\ IsFiniteSet(Proc)
  BY ProcFinite
<1> DEFINE S == {n \in 0 .. N : w[n] \in Proc}
<1>5. w[0] = p
  BY <1>2, <1>4 DEF IsWalk
<1>6. \A n \in 0 .. N - 1 : w[n] \in Proc => w[n + 1] = next[w[n]]
  <2> TAKE n \in 0 .. N - 1
  <2> HAVE w[n] \in Proc
  <2>1. n + 1 \in 0 .. N /\ n + 1 # 0 /\ (n + 1) - 1 = n
    BY <1>4
  <2>2. w[n + 1] = IF w[n] = NULL THEN NULL ELSE next[w[n]]
    BY <1>2, <2>1 DEF IsWalk
  <2>q. QED
    BY <1>1, <2>2
<1>7. \A n \in 0 .. N : n \in S
  <2>1. 0 \in S
    BY <1>4, <1>5
  <2>2. \A n \in 0 .. N - 1 : n \in S => n + 1 \in S
    BY <1>4, <1>6
  <2> HIDE DEF S
  <2>q. QED
    BY <1>4, <2>1, <2>2, Upwards
<1>8. w \in [0 .. N -> Proc] /\ \A n \in 0 .. N - 1 : w[n + 1] = next[w[n]]
  BY <1>2, <1>4, <1>6, <1>7
<1> HIDE DEF S
<1>9. \E n \in 1 .. N : w[n] = p
  <2> DEFINE D == {i \in 0 .. N : \E j \in 0 .. N : j > i /\ w[i] = w[j]}
  <2>1. D # {}
    <3>1. IsFiniteSet(0 .. N) /\ Cardinality(0 .. N) = N + 1
      BY <1>4, FS_Interval
    <3>2. Cardinality(Proc) < Cardinality(0 .. N)
      BY <1>4, <3>1 DEF N
    <3>3. PICK x, y \in 0 .. N : x # y /\ w[x] = w[y]
      BY <1>4, <1>8, <3>1, <3>2, FS_PigeonHole
    <3>q. QED
      BY <1>4, <3>3
  <2>2. D \in SUBSET Nat
    OBVIOUS
  <2>3. PICK i \in D : \A k \in D : i <= k
    BY <2>1, <2>2, LeastNat
  <2>4. PICK j \in 0 .. N : j > i /\ w[i] = w[j]
    BY <2>3
  <2>5. i = 0
    <3>1. SUFFICES ASSUME i # 0 PROVE FALSE
      OBVIOUS
    <3>2. i - 1 \in 0 .. N - 1 /\ j - 1 \in 0 .. N - 1 /\ j - 1 > i - 1
          /\ (i - 1) + 1 = i /\ (j - 1) + 1 = j
      BY <1>4, <2>3, <2>4, <3>1
    <3>3. w[i] = next[w[i - 1]] /\ w[j] = next[w[j - 1]]
      BY <1>8, <3>2
    <3>4. w[i - 1] \in Proc /\ w[j - 1] \in Proc
      BY <1>4, <1>8, <3>2
    <3>5. w[i - 1] = w[j - 1]
      <4>1. \A x, y \in Proc : next[x] = next[y] => x = y
        BY DEF IsInjective
      <4>q. QED
        BY <2>4, <3>3, <3>4, <4>1
    <3>6. i - 1 \in D
      BY <1>4, <3>2, <3>5
    <3>q. QED
      BY <2>3, <3>2, <3>6
  <2>6. j \in 1 .. N
    BY <1>4, <2>4, <2>5
  <2>q. QED
    BY <1>5, <2>4, <2>5, <2>6
<1> DEFINE R == {k \in 1 .. N : w[k] = p}
<1>10. \E k \in 1 .. N : w[k] = p /\ \A m \in 1 .. k - 1 : w[m] # p
  <2>1. R # {} /\ R \in SUBSET Nat
    BY <1>9
  <2>2. PICK k \in R : \A m \in R : k <= m
    BY <2>1, LeastNat
  <2>3. \A m \in 1 .. k - 1 : w[m] # p
    <3> SUFFICES ASSUME NEW m \in 1 .. k - 1, w[m] = p PROVE FALSE
      OBVIOUS
    <3>1. m \in 1 .. N /\ m < k
      BY <1>4, <2>2
    <3>2. m \in R
      BY <3>1
    <3>q. QED
      BY <2>2, <3>1, <3>2
  <2>q. QED
    BY <2>2, <2>3
<1> DEFINE n == CHOOSE k \in 1 .. N : w[k] = p /\ \A m \in 1 .. k - 1 : w[m] # p
<1>11. n \in 1 .. N /\ w[n] = p
  BY <1>10, Zenon
<1>12. Threads(p) = [i \in 1 .. n |-> w[i - 1]]
  BY <1>3 DEF Threads, N
<1> HIDE DEF n
<1>13. \A i \in 1 .. n : i - 1 \in 0 .. N - 1 /\ w[i - 1] \in Proc
  BY <1>4, <1>8, <1>11
<1>14. Threads(p) \in [1 .. n -> Proc]
  BY <1>12, <1>13
<1>15. Threads(p) \in Seq(Proc) /\ Len(Threads(p)) = n
  BY <1>4, <1>11, <1>14, SeqDef
<1> DEFINE T == {w[i - 1] : i \in 1 .. n}
<1>16. Group(p) = T
  <2>1. DOMAIN Threads(p) = 1 .. n /\ \A i \in 1 .. n : Threads(p)[i] = w[i - 1]
    BY <1>12
  <2>q. QED
    BY <2>1 DEF Group, ToSet
<1>17. Ring(next, p) \subseteq T
  <2>1. p \in T
    <3>1. 1 \in 1 .. n /\ 1 - 1 = 0
      BY <1>4, <1>11
    <3>q. QED
      BY <1>5, <3>1
  <2>2. T \in SUBSET Proc
    BY <1>13
  <2>3. Closed(next, T)
    <3> SUFFICES ASSUME NEW i \in 1 .. n PROVE next[w[i - 1]] \in T
      BY DEF Closed
    <3>1. (i - 1) + 1 = i /\ i - 1 \in 0 .. N - 1
      BY <1>13
    <3>2. next[w[i - 1]] = w[i]
      BY <1>8, <3>1
    <3>3. CASE i = n
      BY <1>11, <2>1, <3>2, <3>3
    <3>4. CASE i # n
      <4>1. i + 1 \in 1 .. n /\ (i + 1) - 1 = i
        BY <1>4, <1>11, <3>4
      <4>q. QED
        BY <3>2, <4>1
    <3>q. QED
      BY <3>3, <3>4
  <2> HIDE DEF T
  <2>q. QED
    BY <2>1, <2>2, <2>3, RingFacts
<1>18. T \subseteq Ring(next, p)
  <2> DEFINE A == {k \in 0 .. N : w[k] \in Ring(next, p)}
  <2>1. 0 \in A
    BY <1>4, <1>5, RingFacts
  <2>2. \A k \in 0 .. N - 1 : k \in A => k + 1 \in A
    <3> TAKE k \in 0 .. N - 1
    <3> HAVE k \in A
    <3>1. Closed(next, Ring(next, p))
      BY RingFacts
    <3>2. next[w[k]] \in Ring(next, p)
      BY <3>1 DEF Closed
    <3>q. QED
      BY <1>4, <1>8, <3>2
  <2>3. \A k \in 0 .. N : k \in A
    <3> HIDE DEF A
    <3>q. QED
      BY <1>4, <2>1, <2>2, Upwards
  <2>4. \A i \in 1 .. n : i - 1 \in 0 .. N
    BY <1>4, <1>11
  <2>q. QED
    BY <2>3, <2>4
<1>q. QED
  BY <1>11, <1>15, <1>16, <1>17, <1>18

-----------------------------------------------------------------------------
(* The children of a group, in the order of do_wait.                        *)

In(c, s) == \E i \in 1 .. Len(s) : s[i] = c

\* What a concatenation holds.
LEMMA InConcat ==
    ASSUME NEW S, NEW a \in Seq(S), NEW b \in Seq(S)
    PROVE  /\ a \o b \in Seq(S)
           /\ \A c : In(c, a \o b) <=> In(c, a) \/ In(c, b)
<1>1. a \o b \in Seq(S) /\ Len(a \o b) = Len(a) + Len(b) /\ Len(a) \in Nat /\ Len(b) \in Nat
  OBVIOUS
<1>2. \A i \in 1 .. Len(a) : i \in 1 .. Len(a \o b) /\ (a \o b)[i] = a[i]
  BY <1>1
<1>3. \A i \in 1 .. Len(b) : Len(a) + i \in 1 .. Len(a \o b) /\ (a \o b)[Len(a) + i] = b[i]
  BY <1>1
<1>4. \A i \in 1 .. Len(a \o b) : \/ i \in 1 .. Len(a)
                                  \/ i - Len(a) \in 1 .. Len(b) /\ Len(a) + (i - Len(a)) = i
  BY <1>1
<1> DEFINE r == a \o b
<1> HIDE DEF r
<1>5. ASSUME NEW c PROVE In(c, r) <=> In(c, a) \/ In(c, b)
  <2>1. ASSUME In(c, a) PROVE In(c, r)
    BY <1>2, <2>1 DEF In, r
  <2>2. ASSUME In(c, b) PROVE In(c, r)
    BY <1>3, <2>2 DEF In, r
  <2>3. ASSUME In(c, r) PROVE In(c, a) \/ In(c, b)
    <3>1. PICK i \in 1 .. Len(r) : r[i] = c
      BY <2>3 DEF In
    <3>2. CASE i \in 1 .. Len(a)
      BY <1>2, <3>1, <3>2 DEF In, r
    <3>3. CASE i - Len(a) \in 1 .. Len(b) /\ Len(a) + (i - Len(a)) = i
      BY <1>3, <3>1, <3>3 DEF In, r
    <3>q. QED
      BY <1>4, <3>2, <3>3 DEF r
  <2>q. QED
    BY <2>1, <2>2, <2>3
<1>q. QED
  BY <1>1, <1>5 DEF r

\* What a flattened sequence holds.
LEMMA InFlatten ==
    ASSUME NEW S, NEW ss \in Seq(Seq(S)), Len(ss) # 0
    PROVE  /\ FlattenSeq(ss) \in Seq(S)
           /\ \A c : In(c, FlattenSeq(ss)) <=> \E j \in 1 .. Len(ss) : In(c, ss[j])
<1> DEFINE m == Len(ss)
           IsFlat(f) == f = [i \in 1 .. m |-> IF i = 1 THEN ss[i] ELSE f[i - 1] \o ss[i]]
           f == CHOOSE f : IsFlat(f)
           G(h, k) == h[k] = IF k = 1 THEN ss[k] ELSE h[k - 1] \o ss[k]
           E == {n \in 0 .. m - 1 : \E h \in [1 .. n + 1 -> Seq(S)] :
                                        \A k \in 1 .. n + 1 : G(h, k)}
<1>1. m \in Nat \ {0} /\ m - 1 \in Nat /\ \A k \in 1 .. m : ss[k] \in Seq(S)
  OBVIOUS
<1>2. FlattenSeq(ss) = f[m]
  BY DEF FlattenSeq
<1>3. \A n \in 0 .. m - 1 : n \in E
  <2>1. 0 \in E
    <3> DEFINE g == [k \in 1 .. 0 + 1 |-> ss[1]]
    <3>1. 1 \in 1 .. m
      BY <1>1
    <3>2. g \in [1 .. 0 + 1 -> Seq(S)]
      BY <1>1, <3>1
    <3>3. \A k \in 1 .. 0 + 1 : G(g, k)
      OBVIOUS
    <3> HIDE DEF g
    <3>q. QED
      BY <1>1, <3>2, <3>3
  <2>2. \A n \in 0 .. (m - 1) - 1 : n \in E => n + 1 \in E
    <3> TAKE n \in 0 .. (m - 1) - 1
    <3> HAVE n \in E
    <3>1. PICK h \in [1 .. n + 1 -> Seq(S)] : \A k \in 1 .. n + 1 : G(h, k)
      OBVIOUS
    <3> DEFINE g == [k \in 1 .. (n + 1) + 1 |->
                        IF k \in 1 .. n + 1 THEN h[k] ELSE h[n + 1] \o ss[n + 2]]
    <3>2. n \in Nat /\ n + 1 \in 0 .. m - 1 /\ n + 1 \in 1 .. n + 1 /\ n + 2 \in 1 .. m
      BY <1>1
    <3>3. h[n + 1] \in Seq(S) /\ ss[n + 2] \in Seq(S)
      BY <1>1, <3>2
    <3>4. h[n + 1] \o ss[n + 2] \in Seq(S)
      BY <3>3
    <3>5. g \in [1 .. (n + 1) + 1 -> Seq(S)]
      BY <3>2, <3>4
    <3>6. ASSUME NEW k \in 1 .. (n + 1) + 1 PROVE G(g, k)
      <4>1. CASE k \in 1 .. n + 1
        <5>1. g[k] = h[k] /\ (k # 1 => k - 1 \in 1 .. n + 1 /\ g[k - 1] = h[k - 1])
          BY <3>2, <4>1
        <5>q. QED
          BY <3>1, <4>1, <5>1
      <4>2. CASE k \notin 1 .. n + 1
        <5>1. k = n + 2 /\ k # 1 /\ k - 1 = n + 1
          BY <3>2, <4>2
        <5>2. g[k - 1] = h[n + 1]
          BY <3>2, <5>1
        <5>3. g[k] = h[n + 1] \o ss[n + 2]
          BY <4>2
        <5>q. QED
          BY <5>1, <5>2, <5>3
      <4>q. QED
        BY <4>1, <4>2
    <3> HIDE DEF g
    <3>q. QED
      BY <3>2, <3>5, <3>6
  <2> HIDE DEF E
  <2>q. QED
    BY <1>1, <2>1, <2>2, Upwards
<1>4. PICK h \in [1 .. m -> Seq(S)] : \A k \in 1 .. m : G(h, k)
  <2>1. m - 1 \in 0 .. m - 1 /\ (m - 1) + 1 = m
    BY <1>1
  <2>2. m - 1 \in E
    BY <1>3, <2>1
  <2>q. QED
    BY <2>1, <2>2
<1>5. IsFlat(h)
  BY <1>4
<1>6. IsFlat(f)
  <2> HIDE DEF IsFlat
  <2>q. QED
    BY <1>5, Zenon
<1> HIDE DEF f
<1>7. \A k \in 1 .. m : f[k] = IF k = 1 THEN ss[k] ELSE f[k - 1] \o ss[k]
  BY <1>6
<1> DEFINE A == {n \in 0 .. m - 1 :
                   /\ f[n + 1] \in Seq(S)
                   /\ \A c : In(c, f[n + 1]) <=> \E j \in 1 .. n + 1 : In(c, ss[j])}
<1>8. 0 \in A
  <2>1. 1 \in 1 .. m
    BY <1>1
  <2>2. f[1] = ss[1] /\ ss[1] \in Seq(S)
    BY <1>1, <1>7, <2>1
  <2>3. 0 + 1 = 1 /\ \A j : j \in 1 .. 1 <=> j = 1
    OBVIOUS
  <2>q. QED
    BY <1>1, <2>2, <2>3
<1>9. \A n \in 0 .. (m - 1) - 1 : n \in A => n + 1 \in A
  <2> TAKE n \in 0 .. (m - 1) - 1
  <2> HAVE n \in A
  <2>1. n \in Nat /\ n + 1 \in 0 .. m - 1 /\ n + 2 \in 1 .. m /\ n + 2 # 1 /\ (n + 2) - 1 = n + 1
        /\ (n + 1) + 1 = n + 2
    BY <1>1
  <2>2. f[n + 2] = f[n + 1] \o ss[n + 2]
    BY <1>7, <2>1
  <2>3. f[n + 1] \in Seq(S) /\ \A c : In(c, f[n + 1]) <=> \E j \in 1 .. n + 1 : In(c, ss[j])
    OBVIOUS
  <2>4. ss[n + 2] \in Seq(S)
    BY <1>1, <2>1
  <2>5. f[n + 2] \in Seq(S) /\ \A c : In(c, f[n + 2]) <=> In(c, f[n + 1]) \/ In(c, ss[n + 2])
    <3>1. f[n + 1] \o ss[n + 2] \in Seq(S)
          /\ \A c : In(c, f[n + 1] \o ss[n + 2]) <=> In(c, f[n + 1]) \/ In(c, ss[n + 2])
      BY <2>3, <2>4, InConcat
    <3>q. QED
      BY <2>2, <3>1, Zenon
  <2>6. \A j : j \in 1 .. n + 2 <=> j \in 1 .. n + 1 \/ j = n + 2
    BY <2>1
  <2>7. \A c : In(c, f[n + 2]) <=> \E j \in 1 .. n + 2 : In(c, ss[j])
    BY <2>3, <2>5, <2>6
  <2>q. QED
    BY <2>1, <2>5, <2>7
<1>10. m - 1 \in A
  <2>1. \A n \in 0 .. m - 1 : n \in A
    <3> HIDE DEF A
    <3>q. QED
      BY <1>1, <1>8, <1>9, Upwards
  <2>2. m - 1 \in 0 .. m - 1
    BY <1>1
  <2>q. QED
    BY <2>1, <2>2, Zenon
<1>11. (m - 1) + 1 = m
  BY <1>1
<1>q. QED
  BY <1>2, <1>10, <1>11

Lists(par, cp, op, yp) == \A p \in Proc : \E s : IsList(s, p, par, cp, op, yp)

\* Children lists the children.
LEMMA ChildrenList ==
    ASSUME Lists(parent, cptr, optr, yptr), NEW p \in Proc
    PROVE  /\ IsList(Children(p), p, parent, cptr, optr, yptr)
           /\ Children(p) \in Seq(Proc)
           /\ \A c \in Proc : parent[c] = p <=> In(c, Children(p))
<1>1. PICK s : IsList(s, p, parent, cptr, optr, yptr)
  BY DEF Lists
<1>2. Children(p) = s
  BY <1>1, ChildrenIs
<1>3. s \in Seq(Proc) /\ \A c \in Proc : parent[c] = p <=> In(c, s)
  BY <1>1 DEF IsList, In
<1>q. QED
  BY <1>1, <1>2, <1>3

\* What do_wait looks at.
LEMMA CandidatesAre ==
    ASSUME next \in [Proc -> Proc], IsInjective(next), Lists(parent, cptr, optr, yptr),
           NEW p \in Proc, NEW t \in UserProc \cup {NULL}
    PROVE  /\ Candidates(p, t) \in Seq(Proc)
           /\ \A c \in Proc : In(c, Candidates(p, t)) <=>
                /\ parent[c] \in Ring(next, p)
                /\ t = NULL \/ (t = c /\ state[c] # "UNINIT")
<1>1. Group(p) = Ring(next, p) /\ Threads(p) \in Seq(Proc) /\ Len(Threads(p)) \in Nat \ {0}
  BY GroupIsRing
<1>2. CASE t = NULL
  <2> DEFINE h == Threads(p)
             ss == [i \in DOMAIN h |-> Children(h[i])]
  <2>1. h \in Seq(Proc) /\ Len(h) \in Nat \ {0} /\ DOMAIN h = 1 .. Len(h)
    BY <1>1
  <2>2. \A i \in 1 .. Len(h) : h[i] \in Proc
    BY <2>1
  <2>3. \A i \in 1 .. Len(h) : Children(h[i]) \in Seq(Proc)
    BY <2>2, ChildrenList
  <2>4. ss \in [1 .. Len(h) -> Seq(Proc)]
    BY <2>1, <2>3
  <2>5. ss \in Seq(Seq(Proc)) /\ Len(ss) = Len(h)
    BY <2>1, <2>4, SeqDef
  <2>6. \A i \in 1 .. Len(h) : ss[i] = Children(h[i])
    BY <2>1
  <2>7. Candidates(p, t) = FlattenSeq(ss)
    BY <1>2 DEF Candidates, GroupChildren
  <2> HIDE DEF ss
  <2>8. FlattenSeq(ss) \in Seq(Proc)
        /\ \A c : In(c, FlattenSeq(ss)) <=> \E j \in 1 .. Len(ss) : In(c, ss[j])
    BY <2>1, <2>5, InFlatten
  <2>9. \A q : q \in Ring(next, p) <=> \E i \in 1 .. Len(h) : h[i] = q
    BY <1>1, <2>1 DEF Group, ToSet
  <2>10. ASSUME NEW c \in Proc
         PROVE  In(c, FlattenSeq(ss)) <=> parent[c] \in Ring(next, p)
    <3>1. In(c, FlattenSeq(ss)) <=> \E j \in 1 .. Len(h) : In(c, Children(h[j]))
      BY <2>5, <2>6, <2>8
    <3>2. \A j \in 1 .. Len(h) : In(c, Children(h[j])) <=> parent[c] = h[j]
      BY <2>2, ChildrenList
    <3> HIDE DEF h
    <3>q. QED
      BY <2>9, <3>1, <3>2
  <2>q. QED
    BY <1>2, <2>7, <2>8, <2>10
<1>3. CASE t # NULL
  <2>1. t \in Proc
    BY <1>3 DEF Proc
  <2>2. CASE state[t] # "UNINIT" /\ parent[t] \in Group(p)
    <3>1. Candidates(p, t) = <<t>>
      BY <1>3, <2>2 DEF Candidates
    <3>2. \A c : In(c, <<t>>) <=> c = t
      BY DEF In
    <3>q. QED
      BY <1>1, <1>3, <2>1, <2>2, <3>1, <3>2
  <2>3. CASE ~(state[t] # "UNINIT" /\ parent[t] \in Group(p))
    <3>1. Candidates(p, t) = <<>>
      BY <1>3, <2>3 DEF Candidates
    <3>2. \A c : ~In(c, <<>>)
      BY DEF In
    <3>q. QED
      BY <1>1, <1>3, <2>1, <2>3, <3>1, <3>2
  <2>q. QED
    BY <2>2, <2>3
<1>q. QED
  BY <1>2, <1>3

-----------------------------------------------------------------------------
(* What set_links, remove_links and __do_exit do to the lists.              *)

\* A list that no change touches stays the list.
LEMMA ListFrame ==
    ASSUME NEW t, NEW q \in Proc,
           NEW par, NEW cp, NEW op, NEW yp, IsList(t, q, par, cp, op, yp),
           NEW par2, NEW cp2, NEW op2, NEW yp2,
           \A x \in Proc : par2[x] = q <=> par[x] = q,
           \A x \in Proc : par[x] = q => op2[x] = op[x] /\ yp2[x] = yp[x],
           cp2[q] = cp[q]
    PROVE  IsList(t, q, par2, cp2, op2, yp2)
<1>1. t \in Seq(Proc) /\ Len(t) \in Nat /\ \A i \in 1 .. Len(t) : t[i] \in Proc
  BY DEF IsList
<1>2. \A i \in 1 .. Len(t) : par2[t[i]] = q /\ op2[t[i]] = op[t[i]] /\ yp2[t[i]] = yp[t[i]]
  BY <1>1 DEF IsList
<1>3. \A c \in Proc : par2[c] = q => \E i \in 1 .. Len(t) : t[i] = c
  BY DEF IsList
<1>q. QED
  BY <1>1, <1>2, <1>3 DEF IsList

\* The links after c has become the youngest child of p.
Linked(c, p, par, cp, op, yp, par2, cp2, op2, yp2) ==
    /\ par2[c] = p /\ \A x \in Proc \ {c} : par2[x] = par[x]
    /\ cp2[p] = c /\ \A x \in Proc \ {p} : cp2[x] = cp[x]
    /\ op2[c] = cp[p] /\ \A x \in Proc \ {c} : op2[x] = op[x]
    /\ yp2[c] = NULL /\ (cp[p] \in Proc \ {c} => yp2[cp[p]] = c)
    /\ \A x \in Proc \ {c, cp[p]} : yp2[x] = yp[x]

\* set_links
LEMMA ListsLinked ==
    ASSUME NEW par, NEW cp, NEW op, NEW yp, Lists(par, cp, op, yp),
           NEW par2, NEW cp2, NEW op2, NEW yp2,
           NEW c \in Proc, NEW p \in Proc, par[c] = NULL,
           Linked(c, p, par, cp, op, yp, par2, cp2, op2, yp2)
    PROVE  Lists(par2, cp2, op2, yp2)
<1>1. NULL \notin Proc
  BY FamilyAssumption DEF Proc
<1>2. PICK s : IsList(s, p, par, cp, op, yp)
  BY DEF Lists
<1>3. s \in Seq(Proc) /\ Len(s) \in Nat /\ \A i \in 1 .. Len(s) : s[i] \in Proc /\ s[i] # c
  BY <1>1, <1>2 DEF IsList
<1> DEFINE n == Len(s)
           r == [i \in 1 .. n + 1 |-> IF i = 1 THEN c ELSE s[i - 1]]
<1>4. r \in Seq(Proc) /\ Len(r) = n + 1
  <2>1. r \in [1 .. n + 1 -> Proc]
    BY <1>3
  <2> HIDE DEF r
  <2>q. QED
    BY <1>3, <2>1, SeqDef
<1>5. r[1] = c /\ \A i \in 1 .. n : r[i + 1] = s[i]
  BY <1>3
<1>6. \A i \in 1 .. n + 1 : i = 1 \/ (i - 1 \in 1 .. n /\ (i - 1) + 1 = i)
  BY <1>3
<1> HIDE DEF r
<1>7. IsList(r, p, par2, cp2, op2, yp2)
  <2>1. \A i, j \in 1 .. n + 1 : r[i] = r[j] => i = j
    <3> SUFFICES ASSUME NEW i \in 1 .. n + 1, NEW j \in 1 .. n + 1, r[i] = r[j] PROVE i = j
      OBVIOUS
    <3>1. \A a, b \in 1 .. n : s[a] = s[b] => a = b
      BY <1>2 DEF IsList
    <3>2. i # 1 => r[i] = s[i - 1] /\ r[i] # c
      BY <1>3, <1>5, <1>6
    <3>3. j # 1 => r[j] = s[j - 1] /\ r[j] # c
      BY <1>3, <1>5, <1>6
    <3>4. i # 1 /\ j # 1 => i - 1 = j - 1
      BY <1>6, <3>1, <3>2, <3>3
    <3>q. QED
      BY <1>3, <1>5, <3>2, <3>3, <3>4
  <2>2. \A i \in 1 .. n + 1 : par2[r[i]] = p
    <3> TAKE i \in 1 .. n + 1
    <3>1. CASE i = 1
      BY <1>5, <3>1 DEF Linked
    <3>2. CASE i # 1
      <4>1. r[i] = s[i - 1] /\ i - 1 \in 1 .. n
        BY <1>5, <1>6, <3>2
      <4>2. par[s[i - 1]] = p
        BY <1>2, <4>1 DEF IsList
      <4>q. QED
        BY <1>3, <4>1, <4>2 DEF Linked
    <3>q. QED
      BY <3>1, <3>2
  <2>3. ASSUME NEW x \in Proc, par2[x] = p PROVE \E i \in 1 .. n + 1 : r[i] = x
    <3>1. CASE x = c
      <4>1. 1 \in 1 .. n + 1
        BY <1>3
      <4>q. QED
        BY <1>5, <3>1, <4>1
    <3>2. CASE x # c
      <4>1. par[x] = p
        BY <2>3, <3>2 DEF Linked
      <4>2. PICK i \in 1 .. n : s[i] = x
        BY <1>2, <4>1 DEF IsList
      <4>3. i + 1 \in 1 .. n + 1 /\ r[i + 1] = x
        BY <1>3, <1>5, <4>2
      <4>q. QED
        BY <4>3
    <3>q. QED
      BY <3>1, <3>2
  <2>4. cp2[p] = r[1] /\ n + 1 # 0
    BY <1>3, <1>5 DEF Linked
  <2>5. \A i \in 1 .. n + 1 : op2[r[i]] = IF i = n + 1 THEN NULL ELSE r[i + 1]
    <3> TAKE i \in 1 .. n + 1
    <3>1. CASE i = 1
      <4>1. op2[r[1]] = IF n = 0 THEN NULL ELSE s[1]
        BY <1>2, <1>5 DEF Linked, IsList
      <4>2. n # 0 => 1 \in 1 .. n /\ r[1 + 1] = s[1]
        BY <1>3, <1>5
      <4>q. QED
        BY <1>3, <3>1, <4>1, <4>2
    <3>2. CASE i # 1
      <4>1. r[i] = s[i - 1] /\ i - 1 \in 1 .. n /\ (i - 1) + 1 = i
        BY <1>5, <1>6, <3>2
      <4>2. op2[r[i]] = IF i - 1 = n THEN NULL ELSE s[i]
        BY <1>2, <1>3, <4>1 DEF Linked, IsList
      <4>3. i - 1 # n => i \in 1 .. n /\ r[i + 1] = s[i]
        BY <1>3, <1>5, <4>1
      <4>q. QED
        BY <1>3, <4>1, <4>2, <4>3
    <3>q. QED
      BY <3>1, <3>2
  <2>6. \A i \in 1 .. n + 1 : yp2[r[i]] = IF i = 1 THEN NULL ELSE r[i - 1]
    <3> TAKE i \in 1 .. n + 1
    <3>1. CASE i = 1
      BY <1>5, <3>1 DEF Linked
    <3>2. CASE i # 1
      <4>1. r[i] = s[i - 1] /\ i - 1 \in 1 .. n /\ (i - 1) + 1 = i
        BY <1>5, <1>6, <3>2
      <4>2. cp[p] = s[1] /\ 1 \in 1 .. n
        BY <1>2, <1>3, <4>1 DEF IsList
      <4>3. CASE i = 2
        <5>1. r[i] = cp[p] /\ r[i - 1] = c
          BY <1>5, <4>1, <4>2, <4>3
        <5>q. QED
          BY <1>3, <3>2, <4>2, <5>1 DEF Linked
      <4>4. CASE i # 2
        <5>1. s[i - 1] # s[1]
          BY <1>2, <3>2, <4>1, <4>2, <4>4 DEF IsList
        <5>2. yp2[r[i]] = yp[s[i - 1]]
          BY <1>3, <4>1, <4>2, <5>1 DEF Linked
        <5>3. yp[s[i - 1]] = s[(i - 1) - 1]
          BY <1>2, <3>2, <4>1, <4>4 DEF IsList
        <5>4. (i - 1) - 1 \in 1 .. n /\ ((i - 1) - 1) + 1 = i - 1
          BY <1>3, <3>2, <4>1, <4>4
        <5>5. r[i - 1] = s[(i - 1) - 1]
          BY <1>5, <5>4
        <5>q. QED
          BY <3>2, <5>2, <5>3, <5>5
      <4>q. QED
        BY <4>3, <4>4
    <3>q. QED
      BY <3>1, <3>2
  <2>q. QED
    BY <1>4, <2>1, <2>2, <2>3, <2>4, <2>5, <2>6 DEF IsList
<1>8. ASSUME NEW q \in Proc, q # p PROVE \E t : IsList(t, q, par2, cp2, op2, yp2)
  <2>1. PICK t : IsList(t, q, par, cp, op, yp)
    BY DEF Lists
  <2>2. cp[p] \in Proc => par[cp[p]] = p
    <3>1. cp[p] \in Proc => 1 \in 1 .. n /\ cp[p] = s[1]
      BY <1>1, <1>2, <1>3 DEF IsList
    <3>q. QED
      BY <1>2, <3>1 DEF IsList
  <2>3. \A x \in Proc : par2[x] = q <=> par[x] = q
    BY <1>1, <1>8 DEF Linked
  <2>4. \A x \in Proc : par[x] = q => op2[x] = op[x] /\ yp2[x] = yp[x]
    BY <1>1, <1>8, <2>2 DEF Linked
  <2>5. cp2[q] = cp[q]
    BY <1>8 DEF Linked
  <2>6. IsList(t, q, par2, cp2, op2, yp2)
    BY <2>1, <2>3, <2>4, <2>5, ListFrame
  <2>q. QED
    BY <2>6
<1>q. QED
  BY <1>7, <1>8 DEF Lists

\* The links after z, which has no children, has been taken out.
Unlinked(z, par, cp, op, yp, par2, cp2, op2, yp2) ==
    /\ par2[z] = NULL /\ \A x \in Proc \ {z} : par2[x] = par[x]
    /\ cp2[z] = NULL /\ cp2[par[z]] = (IF yp[z] = NULL THEN op[z] ELSE cp[par[z]])
    /\ \A x \in Proc \ {z, par[z]} : cp2[x] = cp[x]
    /\ yp[z] # NULL => op2[yp[z]] = op[z]
    /\ \A x \in Proc \ {z, yp[z]} : op2[x] = op[x]
    /\ op[z] # NULL => yp2[op[z]] = yp[z]
    /\ \A x \in Proc \ {z, op[z]} : yp2[x] = yp[x]

\* remove_links
LEMMA ListsUnlinked ==
    ASSUME NEW par, NEW cp, NEW op, NEW yp, Lists(par, cp, op, yp),
           NEW par2, NEW cp2, NEW op2, NEW yp2,
           NEW z \in Proc, par[z] \in Proc \ {z}, \A x \in Proc : par[x] # z,
           Unlinked(z, par, cp, op, yp, par2, cp2, op2, yp2)
    PROVE  Lists(par2, cp2, op2, yp2)
<1>1. NULL \notin Proc
  BY FamilyAssumption DEF Proc
<1>2. PICK p \in Proc \ {z} : p = par[z]
  OBVIOUS
<1>3. PICK s : IsList(s, p, par, cp, op, yp)
  BY DEF Lists
<1> DEFINE n == Len(s)
<1>4. s \in Seq(Proc) /\ n \in Nat /\ \A i \in 1 .. n : s[i] \in Proc
  BY <1>3 DEF IsList
<1>5. PICK k \in 1 .. n : s[k] = z
  BY <1>2, <1>3 DEF IsList
<1>6. \A i, j \in 1 .. n : s[i] = s[j] => i = j
  BY <1>3 DEF IsList
<1>7. op[z] = IF k = n THEN NULL ELSE s[k + 1]
  BY <1>3, <1>5 DEF IsList
<1>8. yp[z] = IF k = 1 THEN NULL ELSE s[k - 1]
  BY <1>3, <1>5 DEF IsList
<1>9. k \in Nat /\ k > 0 /\ k <= n /\ (k # n => k + 1 \in 1 .. n) /\ (k # 1 => k - 1 \in 1 .. n)
  BY <1>4, <1>5
<1> DEFINE m == n - 1
           r == [i \in 1 .. m |-> IF i < k THEN s[i] ELSE s[i + 1]]
<1>10. m \in Nat /\ \A i \in 1 .. m : i \in 1 .. n /\ i + 1 \in 1 .. n
  BY <1>4, <1>9
<1>11. r \in Seq(Proc) /\ Len(r) = m
  <2>1. r \in [1 .. m -> Proc]
    BY <1>4, <1>10
  <2> HIDE DEF r, m
  <2>q. QED
    BY <1>10, <2>1, SeqDef
<1> DEFINE At(i) == IF i < k THEN i ELSE i + 1
<1>12. \A i \in 1 .. m : r[i] = s[At(i)] /\ At(i) \in 1 .. n /\ At(i) # k
  BY <1>9, <1>10
<1>13. \A i, j \in 1 .. m : At(i) = At(j) => i = j
  BY <1>9, <1>10
<1>14. \A a \in 1 .. n : a # k => \E i \in 1 .. m : At(i) = a
  <2> SUFFICES ASSUME NEW a \in 1 .. n, a # k PROVE \E i \in 1 .. m : At(i) = a
    OBVIOUS
  <2>1. CASE a < k
    <3>1. a \in 1 .. m /\ At(a) = a
      BY <1>4, <1>9, <2>1
    <3>q. QED
      BY <3>1
  <2>2. CASE ~(a < k)
    <3>1. a - 1 \in 1 .. m /\ At(a - 1) = a
      BY <1>4, <1>9, <2>2
    <3>q. QED
      BY <3>1
  <2>q. QED
    BY <2>1, <2>2
<1>15. ASSUME NEW i \in 1 .. m PROVE s[At(i)] \in Proc /\ s[At(i)] # z /\ par[s[At(i)]] = p
  BY <1>3, <1>4, <1>5, <1>6, <1>12 DEF IsList
<1>a. \A i \in 1 .. m : IF At(i) = n THEN i = m ELSE At(i) + 1 \in 1 .. n
  BY <1>4, <1>9, <1>10
<1>b. \A i \in 1 .. m : i # m => At(i + 1) = IF At(i) + 1 = k THEN k + 1 ELSE At(i) + 1
  BY <1>4, <1>9, <1>10
<1>c. \A i \in 1 .. m : i # 1 => At(i - 1) = IF At(i) - 1 = k THEN k - 1 ELSE At(i) - 1
  BY <1>4, <1>9, <1>10
<1>d. \A i \in 1 .. m : i = m => At(i) = n \/ (At(i) + 1 = k /\ k = n)
  BY <1>4, <1>9, <1>10
<1>e. \A i \in 1 .. m : i = 1 => At(i) = 1 \/ (At(i) - 1 = k /\ k = 1)
  BY <1>4, <1>9, <1>10
<1>f. \A i \in 1 .. m : i \in Nat /\ At(i) \in Nat /\ At(i) # 0
                        /\ (i # 1 => i - 1 \in 1 .. m) /\ (i # m => i + 1 \in 1 .. m)
  BY <1>4, <1>9, <1>10
<1>g. m # 0 => 1 \in 1 .. m /\ At(1) = IF k = 1 THEN 2 ELSE 1
  <2>1. m # 0 => 1 \in 1 .. m
    <3>1. m \in Nat
      BY <1>10
    <3> HIDE DEF m
    <3>q. QED
      BY <3>1
  <2>2. 1 < k <=> k # 1
    BY <1>9
  <2>q. QED
    BY <2>1, <2>2
<1> HIDE DEF r, At
<1>16. IsList(r, p, par2, cp2, op2, yp2)
  <2>1. \A i, j \in 1 .. m : r[i] = r[j] => i = j
    BY <1>6, <1>12, <1>13
  <2>2. \A i \in 1 .. m : par2[r[i]] = p
    BY <1>12, <1>15 DEF Unlinked
  <2>3. ASSUME NEW x \in Proc, par2[x] = p PROVE \E i \in 1 .. m : r[i] = x
    <3>1. x # z /\ par[x] = p
      BY <1>1, <1>2, <2>3 DEF Unlinked
    <3>2. PICK a \in 1 .. n : s[a] = x
      BY <1>3, <3>1 DEF IsList
    <3>3. a # k
      BY <1>5, <3>1, <3>2
    <3>4. PICK i \in 1 .. m : At(i) = a
      BY <1>14, <3>3
    <3>5. r[i] = x
      BY <1>12, <3>2, <3>4
    <3>q. QED
      BY <3>5
  <2>4. cp2[p] = IF m = 0 THEN NULL ELSE r[1]
    <3>1. cp2[p] = IF k = 1 THEN op[z] ELSE cp[p]
      <4>1. yp[z] = NULL <=> k = 1
        BY <1>1, <1>4, <1>8, <1>9
      <4>q. QED
        BY <1>2, <4>1 DEF Unlinked
    <3>2. cp[p] = s[1]
      BY <1>3, <1>4, <1>9 DEF IsList
    <3>3. CASE m = 0
      <4>1. k = 1 /\ k = n
        <5>1. n - 1 = 0 /\ n \in Nat /\ k \in Nat /\ k > 0 /\ k <= n
          BY <1>4, <1>9, <3>3
        <5> HIDE DEF n
        <5>q. QED
          BY <5>1
      <4>q. QED
        BY <1>7, <3>1, <3>3, <4>1
    <3>4. CASE m # 0
      <4>1. r[1] = s[At(1)] /\ At(1) = IF k = 1 THEN 2 ELSE 1
        BY <1>12, <1>g, <3>4
      <4>2. k = 1 => op[z] = s[2]
        BY <1>4, <1>7, <3>4
      <4>q. QED
        BY <3>1, <3>2, <3>4, <4>1, <4>2
    <3>q. QED
      BY <3>3, <3>4
  <2>5. \A i \in 1 .. m : op2[r[i]] = IF i = m THEN NULL ELSE r[i + 1]
    <3> TAKE i \in 1 .. m
    <3>1. PICK a \in 1 .. n : a = At(i)
      BY <1>12
    <3>2. r[i] = s[a] /\ s[a] \in Proc /\ s[a] # z /\ a # k
      BY <1>12, <1>15, <3>1
    <3>3. op[s[a]] = IF a = n THEN NULL ELSE s[a + 1]
      BY <1>3 DEF IsList
    <3>4. CASE a + 1 = k
      <4>1. k # 1 /\ k - 1 = a
        BY <1>9, <1>4, <3>4
      <4>2. yp[z] = s[a] /\ s[a] # NULL
        BY <1>1, <1>8, <3>2, <4>1
      <4>3. op2[s[a]] = op[z]
        BY <4>2 DEF Unlinked
      <4>4. CASE i = m
        <5>1. k = n
          BY <1>4, <1>9, <1>d, <3>1, <3>4, <4>4
        <5>q. QED
          BY <1>7, <3>2, <4>3, <4>4, <5>1
      <4>5. CASE i # m
        <5>1. At(i + 1) = k + 1 /\ i + 1 \in 1 .. m
          BY <1>b, <1>f, <3>1, <3>4, <4>5
        <5>2. r[i + 1] = s[k + 1] /\ k + 1 \in 1 .. n
          BY <1>12, <5>1
        <5>3. k # n
          BY <1>4, <1>9, <5>2
        <5>q. QED
          BY <1>7, <3>2, <4>3, <4>5, <5>2, <5>3
      <4>q. QED
        BY <4>4, <4>5
    <3>5. CASE a + 1 # k
      <4>1. s[a] # yp[z]
        <5>1. k # 1 => k - 1 \in 1 .. n /\ k - 1 # a
          BY <1>9, <1>4, <3>5
        <5>q. QED
          BY <1>1, <1>6, <1>8, <3>2, <5>1
      <4>2. op2[s[a]] = op[s[a]]
        BY <3>2, <4>1 DEF Unlinked
      <4>3. CASE i = m
        <5>1. a = n
          BY <1>d, <3>1, <3>5, <4>3
        <5>q. QED
          BY <3>2, <3>3, <4>2, <4>3, <5>1
      <4>4. CASE i # m
        <5>1. At(i + 1) = a + 1 /\ i + 1 \in 1 .. m
          BY <1>b, <1>f, <3>1, <3>5, <4>4
        <5>2. r[i + 1] = s[a + 1] /\ a # n
          BY <1>4, <1>12, <1>a, <3>1, <4>4, <5>1
        <5>q. QED
          BY <3>2, <3>3, <4>2, <4>4, <5>2
      <4>q. QED
        BY <4>3, <4>4
    <3>q. QED
      BY <3>4, <3>5
  <2>6. \A i \in 1 .. m : yp2[r[i]] = IF i = 1 THEN NULL ELSE r[i - 1]
    <3> TAKE i \in 1 .. m
    <3>1. PICK a \in 1 .. n : a = At(i)
      BY <1>12
    <3>2. r[i] = s[a] /\ s[a] \in Proc /\ s[a] # z /\ a # k
      BY <1>12, <1>15, <3>1
    <3>3. yp[s[a]] = IF a = 1 THEN NULL ELSE s[a - 1]
      BY <1>3 DEF IsList
    <3>4. CASE a - 1 = k
      <4>1. k # n /\ k + 1 = a
        BY <1>9, <1>4, <3>4
      <4>2. op[z] = s[a] /\ s[a] # NULL
        BY <1>1, <1>7, <3>2, <4>1
      <4>3. yp2[s[a]] = yp[z]
        BY <4>2 DEF Unlinked
      <4>4. CASE i = 1
        <5>1. k = 1
          BY <1>4, <1>9, <1>e, <3>1, <3>4, <4>4
        <5>q. QED
          BY <1>8, <3>2, <4>3, <4>4, <5>1
      <4>5. CASE i # 1
        <5>1. At(i - 1) = k - 1 /\ i - 1 \in 1 .. m
          BY <1>c, <1>f, <3>1, <3>4, <4>5
        <5>2. r[i - 1] = s[k - 1] /\ k - 1 \in 1 .. n
          BY <1>12, <5>1
        <5>3. k # 1
          BY <1>4, <1>9, <5>2
        <5>q. QED
          BY <1>8, <3>2, <4>3, <4>5, <5>2, <5>3
      <4>q. QED
        BY <4>4, <4>5
    <3>5. CASE a - 1 # k
      <4>1. s[a] # op[z]
        <5>1. k # n => k + 1 \in 1 .. n /\ k + 1 # a
          BY <1>9, <1>4, <3>5
        <5>q. QED
          BY <1>1, <1>6, <1>7, <3>2, <5>1
      <4>2. yp2[s[a]] = yp[s[a]]
        BY <3>2, <4>1 DEF Unlinked
      <4>3. CASE i = 1
        <5>1. a = 1
          BY <1>e, <3>1, <3>5, <4>3
        <5>q. QED
          BY <3>2, <3>3, <4>2, <4>3, <5>1
      <4>4. CASE i # 1
        <5>1. At(i - 1) = a - 1 /\ i - 1 \in 1 .. m
          BY <1>c, <1>f, <3>1, <3>5, <4>4
        <5>2. r[i - 1] = s[a - 1] /\ a - 1 \in 1 .. n
          BY <1>12, <5>1
        <5>3. a # 1
          BY <1>4, <5>2
        <5>q. QED
          BY <3>2, <3>3, <4>2, <4>4, <5>2, <5>3
      <4>q. QED
        BY <4>3, <4>4
    <3>q. QED
      BY <3>4, <3>5
  <2>q. QED
    BY <1>11, <2>1, <2>2, <2>3, <2>4, <2>5, <2>6 DEF IsList
<1>17. ASSUME NEW q \in Proc, q # p PROVE \E t : IsList(t, q, par2, cp2, op2, yp2)
  <2>1. PICK t : IsList(t, q, par, cp, op, yp)
    BY DEF Lists
  <2>2. \A x \in Proc : par2[x] = q <=> par[x] = q
    BY <1>1, <1>2, <1>17 DEF Unlinked
  <2>3. (yp[z] # NULL => par[yp[z]] = p) /\ (op[z] # NULL => par[op[z]] = p)
    BY <1>3, <1>7, <1>8, <1>9 DEF IsList
  <2>4. \A x \in Proc : par[x] = q => op2[x] = op[x] /\ yp2[x] = yp[x]
    BY <1>1, <1>2, <1>17, <2>3 DEF Unlinked
  <2>5. cp2[q] = cp[q]
    <3>1. CASE q # z
      BY <1>2, <1>17, <3>1 DEF Unlinked
    <3>2. CASE q = z
      <4>1. Len(t) = 0
        <5>1. Len(t) \in Nat /\ \A i \in 1 .. Len(t) : t[i] \in Proc /\ par[t[i]] = q
          BY <2>1 DEF IsList
        <5>2. Len(t) # 0 => 1 \in 1 .. Len(t)
          BY <5>1
        <5>q. QED
          BY <3>2, <5>1, <5>2
      <4>2. cp[q] = NULL
        BY <2>1, <4>1 DEF IsList
      <4>q. QED
        BY <3>2, <4>2 DEF Unlinked
    <3>q. QED
      BY <3>1, <3>2
  <2>6. IsList(t, q, par2, cp2, op2, yp2)
    BY <2>1, <2>2, <2>4, <2>5, ListFrame
  <2>q. QED
    BY <2>6
<1>q. QED
  BY <1>16, <1>17 DEF Lists

\* list is the children of p and r, and the links are the ones after r has
\* inherited those of p, in this order.
Inherited(list, p, r, par, cp, op, yp, par2, cp2, op2, yp2) ==
    /\ list \in Seq(Proc)
    /\ \A i, j \in 1 .. Len(list) : list[i] = list[j] => i = j
    /\ \A c \in Proc : In(c, list) <=> par[c] \in {p, r}
    /\ \A c \in Proc : par2[c] = IF par[c] = p THEN r ELSE par[c]
    /\ cp2[p] = NULL /\ cp2[r] = IF Len(list) = 0 THEN NULL ELSE list[1]
    /\ \A x \in Proc \ {p, r} : cp2[x] = cp[x]
    /\ \A i \in 1 .. Len(list) : op2[list[i]] = IF i = Len(list) THEN NULL ELSE list[i + 1]
    /\ \A i \in 1 .. Len(list) : yp2[list[i]] = IF i = 1 THEN NULL ELSE list[i - 1]
    /\ \A c \in Proc : ~In(c, list) => op2[c] = op[c] /\ yp2[c] = yp[c]

\* The loop of __do_exit over the children
LEMMA ListsInherited ==
    ASSUME NEW par, NEW cp, NEW op, NEW yp, Lists(par, cp, op, yp),
           NEW par2, NEW cp2, NEW op2, NEW yp2,
           NEW p \in Proc, NEW r \in Proc, r # p,
           NEW list, Inherited(list, p, r, par, cp, op, yp, par2, cp2, op2, yp2)
    PROVE  Lists(par2, cp2, op2, yp2)
<1>1. IsList(<<>>, p, par2, cp2, op2, yp2)
  <2>1. \A c \in Proc : par2[c] # p
    BY DEF Inherited
  <2>2. <<>> \in Seq(Proc) /\ Len(<<>>) = 0 /\ \A i : i \notin 1 .. 0
    OBVIOUS
  <2>3. cp2[p] = NULL
    BY DEF Inherited
  <2>q. QED
    BY <2>1, <2>2, <2>3 DEF IsList
<1>2. IsList(list, r, par2, cp2, op2, yp2)
  <2>1. list \in Seq(Proc) /\ \A i \in 1 .. Len(list) : list[i] \in Proc
    BY DEF Inherited
  <2>2. \A c \in Proc : In(c, list) <=> par2[c] = r
    BY DEF Inherited
  <2>3. \A i \in 1 .. Len(list) : par2[list[i]] = r
    BY <2>1, <2>2 DEF In
  <2>4. \A c \in Proc : par2[c] = r => \E i \in 1 .. Len(list) : list[i] = c
    BY <2>2 DEF In
  <2>q. QED
    BY <2>1, <2>3, <2>4 DEF Inherited, IsList
<1>3. ASSUME NEW q \in Proc \ {p, r} PROVE \E t : IsList(t, q, par2, cp2, op2, yp2)
  <2>1. PICK t : IsList(t, q, par, cp, op, yp)
    BY DEF Lists
  <2>2. \A x \in Proc : par2[x] = q <=> par[x] = q
    BY DEF Inherited
  <2>3. \A x \in Proc : par[x] = q => op2[x] = op[x] /\ yp2[x] = yp[x]
    BY DEF Inherited
  <2>4. cp2[q] = cp[q]
    BY DEF Inherited
  <2>5. IsList(t, q, par2, cp2, op2, yp2)
    BY <2>1, <2>2, <2>3, <2>4, ListFrame
  <2>q. QED
    BY <2>5
<1>q. QED
  BY <1>1, <1>2, <1>3 DEF Lists

\* A reversed list holds the same, each once.
LEMMA Reversed ==
    ASSUME NEW S, NEW a \in Seq(S)
    PROVE  /\ Reverse(a) \in Seq(S) /\ Len(Reverse(a)) = Len(a)
           /\ \A c : In(c, Reverse(a)) <=> In(c, a)
           /\ (\A i, j \in 1 .. Len(a) : a[i] = a[j] => i = j)
                => \A i, j \in 1 .. Len(a) : Reverse(a)[i] = Reverse(a)[j] => i = j
<1> DEFINE n == Len(a)
           v == Reverse(a)
<1>1. n \in Nat /\ \A i \in 1 .. n : (n - i) + 1 \in 1 .. n /\ (n - ((n - i) + 1)) + 1 = i
  OBVIOUS
<1>2. v = [i \in 1 .. n |-> a[(n - i) + 1]]
  BY DEF Reverse
<1>3. v \in [1 .. n -> S]
  BY <1>1, <1>2
<1>4. v \in Seq(S) /\ Len(v) = n
  BY <1>1, <1>3, SeqDef
<1>5. \A i \in 1 .. n : v[i] = a[(n - i) + 1]
  BY <1>2
<1> HIDE DEF v
<1>6. \A i \in 1 .. n : v[(n - i) + 1] = a[i]
  BY <1>1, <1>5
<1>7. ASSUME NEW c PROVE In(c, v) <=> In(c, a)
  <2>1. ASSUME In(c, v) PROVE In(c, a)
    <3>1. PICK i \in 1 .. n : v[i] = c
      BY <1>4, <2>1 DEF In
    <3>2. (n - i) + 1 \in 1 .. n /\ a[(n - i) + 1] = c
      BY <1>1, <1>5, <3>1
    <3>q. QED
      BY <3>2 DEF In
  <2>2. ASSUME In(c, a) PROVE In(c, v)
    <3>1. PICK i \in 1 .. n : a[i] = c
      BY <2>2 DEF In
    <3>2. (n - i) + 1 \in 1 .. n /\ v[(n - i) + 1] = c
      BY <1>1, <1>6, <3>1
    <3>q. QED
      BY <1>4, <3>2 DEF In
  <2>q. QED
    BY <2>1, <2>2
<1>8. ASSUME \A i, j \in 1 .. n : a[i] = a[j] => i = j, NEW i \in 1 .. n, NEW j \in 1 .. n, v[i] = v[j]
      PROVE  i = j
  <2>1. (n - i) + 1 \in 1 .. n /\ (n - j) + 1 \in 1 .. n
    BY <1>1
  <2>2. a[(n - i) + 1] = a[(n - j) + 1]
    BY <1>5, <1>8
  <2>3. PICK x \in 1 .. n, y \in 1 .. n : x = (n - i) + 1 /\ y = (n - j) + 1
    BY <2>1
  <2>4. x = y
    BY <1>8, <2>2, <2>3
  <2>5. i \in Int /\ j \in Int /\ n \in Int
    BY <1>1
  <2>q. QED
    BY <2>3, <2>4, <2>5
<1>q. QED
  BY <1>4, <1>7, <1>8 DEF v

\* Two lists without repetitions and with nothing in common
LEMMA ConcatInjective ==
    ASSUME NEW S, NEW a \in Seq(S), NEW b \in Seq(S),
           \A i, j \in 1 .. Len(a) : a[i] = a[j] => i = j,
           \A i, j \in 1 .. Len(b) : b[i] = b[j] => i = j,
           \A c : ~(In(c, a) /\ In(c, b))
    PROVE  \A i, j \in 1 .. Len(a \o b) : (a \o b)[i] = (a \o b)[j] => i = j
<1> DEFINE n == Len(a)
           m == Len(b)
           r == a \o b
<1>1. n \in Nat /\ m \in Nat /\ Len(r) = n + m
  OBVIOUS
<1>2. \A i \in 1 .. n : r[i] = a[i] /\ In(r[i], a)
  BY DEF In
<1>3. \A i \in 1 .. n + m : i \notin 1 .. n => i - n \in 1 .. m /\ r[i] = b[i - n]
  BY <1>1
<1>4. \A i \in 1 .. n + m : i \notin 1 .. n => In(r[i], b)
  BY <1>3 DEF In
<1> HIDE DEF r
<1> SUFFICES ASSUME NEW i \in 1 .. n + m, NEW j \in 1 .. n + m, r[i] = r[j] PROVE i = j
  BY <1>1 DEF r
<1>5. CASE i \in 1 .. n /\ j \in 1 .. n
  BY <1>2, <1>5
<1>6. CASE i \notin 1 .. n /\ j \notin 1 .. n
  <2>1. i - n = j - n
    BY <1>3, <1>6
  <2>q. QED
    BY <1>1, <2>1
<1>7. CASE i \in 1 .. n /\ j \notin 1 .. n
  BY <1>2, <1>4, <1>7
<1>8. CASE i \notin 1 .. n /\ j \in 1 .. n
  BY <1>2, <1>4, <1>8
<1>q. QED
  BY <1>5, <1>6, <1>7, <1>8

\* What Reparent does, link by link.
LEMMA ReparentEffect ==
    ASSUME Lists(parent, cptr, optr, yptr), NEW p \in Proc, NewParent(p) \in Proc \ {p},
           cptr \in [Proc -> Proc \cup {NULL}],
           Reparent(p)
    PROVE  /\ \E list : Inherited(list, p, NewParent(p), parent, cptr, optr, yptr,
                                  parent', cptr', optr', yptr')
           /\ parent' = [c \in Proc |-> parent'[c]] /\ cptr' = [c \in Proc |-> cptr'[c]]
           /\ optr' = [c \in Proc |-> optr'[c]] /\ yptr' = [c \in Proc |-> yptr'[c]]
<1>1. PICK r \in Proc \ {p} : r = NewParent(p)
  OBVIOUS
<1> DEFINE a == Children(p)
           b == Children(r)
<1>2. a \in Seq(Proc) /\ (\A c \in Proc : parent[c] = p <=> In(c, a))
      /\ \A i, j \in 1 .. Len(a) : a[i] = a[j] => i = j
  BY ChildrenList DEF IsList
<1>3. b \in Seq(Proc) /\ (\A c \in Proc : parent[c] = r <=> In(c, b))
      /\ \A i, j \in 1 .. Len(b) : b[i] = b[j] => i = j
  BY ChildrenList DEF IsList
<1> DEFINE v == Reverse(a)
           list == v \o b
           At(c) == CHOOSE i \in DOMAIN list : list[i] = c
<1>4. /\ parent' = [c \in Proc |-> IF c \in ToSet(a) THEN r ELSE parent[c]]
      /\ cptr' = [cptr EXCEPT ![p] = NULL, ![r] = IF list = <<>> THEN NULL ELSE Head(list)]
      /\ optr' = [c \in Proc |-> IF c \in ToSet(list)
                                 THEN IF At(c) = Len(list) THEN NULL ELSE list[At(c) + 1]
                                 ELSE optr[c]]
      /\ yptr' = [c \in Proc |-> IF c \in ToSet(list)
                                 THEN IF At(c) = 1 THEN NULL ELSE list[At(c) - 1]
                                 ELSE yptr[c]]
  BY <1>1 DEF Reparent
<1> HIDE DEF a, b
<1>5. v \in Seq(Proc) /\ Len(v) = Len(a) /\ (\A c : In(c, v) <=> In(c, a))
      /\ \A i, j \in 1 .. Len(v) : v[i] = v[j] => i = j
  BY <1>2, Reversed
<1> HIDE DEF v
<1>6. \A c : ~(In(c, v) /\ In(c, b))
  <2> SUFFICES ASSUME NEW c, In(c, v), In(c, b) PROVE FALSE
    OBVIOUS
  <2>1. c \in Proc
    BY <1>3 DEF In
  <2>q. QED
    BY <1>1, <1>2, <1>3, <1>5, <2>1
<1>7. list \in Seq(Proc) /\ \A c : In(c, list) <=> In(c, v) \/ In(c, b)
  BY <1>3, <1>5, InConcat
<1>8. \A i, j \in 1 .. Len(list) : list[i] = list[j] => i = j
  BY <1>3, <1>5, <1>6, ConcatInjective
<1> HIDE DEF list
<1>9. DOMAIN list = 1 .. Len(list) /\ DOMAIN a = 1 .. Len(a)
  BY <1>2, <1>7
<1>10. (\A c : c \in ToSet(list) <=> In(c, list)) /\ \A c : c \in ToSet(a) <=> In(c, a)
  BY <1>9 DEF ToSet, In
<1>11. ASSUME NEW i \in 1 .. Len(list)
       PROVE  At(list[i]) = i /\ list[i] \in Proc /\ list[i] \in ToSet(list)
  <2>1. At(list[i]) \in 1 .. Len(list) /\ list[At(list[i])] = list[i]
    BY <1>9, Zenon
  <2>q. QED
    BY <1>7, <1>8, <1>9, <2>1 DEF ToSet
<1> HIDE DEF At
<1>12. \A c \in Proc : In(c, list) <=> parent[c] \in {p, r}
  BY <1>2, <1>3, <1>5, <1>7
<1>13. \A c \in Proc : parent'[c] = IF parent[c] = p THEN r ELSE parent[c]
  BY <1>2, <1>4, <1>10
<1>14. cptr'[p] = NULL /\ (cptr'[r] = IF Len(list) = 0 THEN NULL ELSE list[1])
       /\ \A x \in Proc \ {p, r} : cptr'[x] = cptr[x]
  <2>1. Len(list) = 0 <=> list = <<>>
    BY <1>7
  <2>2. list # <<>> => Head(list) = list[1]
    BY <1>7
  <2>q. QED
    BY <1>1, <1>4, <2>1, <2>2
<1>15. \A i \in 1 .. Len(list) : optr'[list[i]] = IF i = Len(list) THEN NULL ELSE list[i + 1]
  <2> TAKE i \in 1 .. Len(list)
  <2>q. QED
    BY <1>4, <1>11
<1>16. \A i \in 1 .. Len(list) : yptr'[list[i]] = IF i = 1 THEN NULL ELSE list[i - 1]
  <2> TAKE i \in 1 .. Len(list)
  <2>q. QED
    BY <1>4, <1>11
<1>17. \A c \in Proc : ~In(c, list) => optr'[c] = optr[c] /\ yptr'[c] = yptr[c]
  BY <1>4, <1>10
<1>18. Inherited(list, p, r, parent, cptr, optr, yptr, parent', cptr', optr', yptr')
  BY <1>7, <1>8, <1>12, <1>13, <1>14, <1>15, <1>16, <1>17 DEF Inherited
<1>19. parent' = [c \in Proc |-> parent'[c]] /\ cptr' = [c \in Proc |-> cptr'[c]]
  BY <1>4
<1>20. optr' = [c \in Proc |-> optr'[c]]
  BY <1>4
<1>21. yptr' = [c \in Proc |-> yptr'[c]]
  BY <1>4
<1>q. QED
  BY <1>1, <1>18, <1>19, <1>20, <1>21

-----------------------------------------------------------------------------
(* What joining and leaving a group does to the rings.                      *)

\* A process that is alone in its ring is in no other.
LEMMA AloneInRing ==
    ASSUME NEW nx \in [Proc -> Proc], IsInjective(nx),
           NEW c \in Proc, nx[c] = c, NEW q \in Proc, c \in Ring(nx, q)
    PROVE  q = c
<1>1. q \in Ring(nx, c)
  BY RingSymmetric
<1>2. {c} \in SUBSET Proc /\ Closed(nx, {c})
  BY DEF Closed
<1>q. QED
  BY <1>1, <1>2, RingFacts

\* list_add_before in copy_thread_group: c joins in front of p.
LEMMA JoinRing ==
    ASSUME NEW nx \in [Proc -> Proc], IsInjective(nx),
           NEW c \in Proc, nx[c] = c, NEW p \in Proc \ {c},
           NEW nx2, nx2 = [q \in Proc |-> IF q = c THEN p ELSE IF nx[q] = p THEN c ELSE nx[q]]
    PROVE  /\ nx2 \in [Proc -> Proc]
           /\ IsInjective(nx2)
           /\ \A q \in Proc : nx[q] = q /\ q \notin {c, p} => nx2[q] = q
           /\ \A q \in Proc \ {c} : Ring(nx2, q) \subseteq Ring(nx, q) \cup {c}
<1>1. nx2 \in [Proc -> Proc]
  OBVIOUS
<1>2. \A x, y \in Proc : nx[x] = nx[y] => x = y
  BY DEF IsInjective
<1>3. \A x \in Proc : nx2[x] = IF x = c THEN p ELSE IF nx[x] = p THEN c ELSE nx[x]
  OBVIOUS
<1>4. \A x, y \in Proc : nx2[x] = nx2[y] => x = y
  BY <1>2, <1>3
<1>5. IsInjective(nx2)
  BY <1>1, <1>4 DEF IsInjective
<1>6. \A q \in Proc : nx[q] = q /\ q \notin {c, p} => nx2[q] = q
  BY <1>3
<1>7. ASSUME NEW q \in Proc \ {c} PROVE Ring(nx2, q) \subseteq Ring(nx, q) \cup {c}
  <2> DEFINE R == Ring(nx, q)
  <2>1. R \subseteq Proc /\ q \in R /\ Closed(nx, R)
    BY RingFacts
  <2>2. c \notin R
    BY AloneInRing
  <2> HIDE DEF R
  <2>3. CASE p \in R
    <3>1. R \cup {c} \in SUBSET Proc /\ q \in R \cup {c}
      BY <2>1
    <3>2. Closed(nx2, R \cup {c})
      BY <1>3, <2>1, <2>3 DEF Closed
    <3>3. Ring(nx2, q) \subseteq R \cup {c}
      BY <1>1, <3>1, <3>2, RingFacts
    <3>q. QED
      BY <3>3 DEF R
  <2>4. CASE p \notin R
    <3>1. Closed(nx2, R)
      BY <1>3, <2>1, <2>2, <2>4 DEF Closed
    <3>2. Ring(nx2, q) \subseteq R
      BY <1>1, <2>1, <3>1, RingFacts
    <3>q. QED
      BY <3>2 DEF R
  <2>q. QED
    BY <2>3, <2>4
<1>q. QED
  BY <1>1, <1>5, <1>6, <1>7

\* de_thread
LEMMA LeaveRing ==
    ASSUME NEW nx \in [Proc -> Proc], IsInjective(nx), NEW p \in Proc,
           NEW nx2, nx2 = [q \in Proc |-> IF q = p THEN p ELSE IF nx[q] = p THEN nx[p] ELSE nx[q]]
    PROVE  /\ nx2 \in [Proc -> Proc]
           /\ IsInjective(nx2)
           /\ \A q \in Proc : nx[q] = q \/ q = p => nx2[q] = q
           /\ \A q \in Proc \ {p} : Ring(nx2, q) \subseteq Ring(nx, q) \ {p}
<1>1. nx2 \in [Proc -> Proc]
  OBVIOUS
<1>2. \A x, y \in Proc : nx[x] = nx[y] => x = y
  BY DEF IsInjective
<1>3. \A x \in Proc : nx2[x] = IF x = p THEN p ELSE IF nx[x] = p THEN nx[p] ELSE nx[x]
  OBVIOUS
<1>4. \A x, y \in Proc : nx2[x] = nx2[y] => x = y
  BY <1>2, <1>3
<1>5. IsInjective(nx2)
  BY <1>1, <1>4 DEF IsInjective
<1>6. \A q \in Proc : nx[q] = q \/ q = p => nx2[q] = q
  BY <1>3
<1>7. ASSUME NEW q \in Proc \ {p} PROVE Ring(nx2, q) \subseteq Ring(nx, q) \ {p}
  <2> DEFINE R == Ring(nx, q)
  <2>1. R \subseteq Proc /\ q \in R /\ Closed(nx, R)
    BY RingFacts
  <2> HIDE DEF R
  <2>2. R \ {p} \in SUBSET Proc /\ q \in R \ {p}
    BY <2>1
  <2>3. Closed(nx2, R \ {p})
    BY <1>2, <1>3, <2>1 DEF Closed
  <2>4. Ring(nx2, q) \subseteq R \ {p}
    BY <1>1, <2>2, <2>3, RingFacts
  <2>q. QED
    BY <2>4 DEF R
<1>q. QED
  BY <1>1, <1>5, <1>6, <1>7

-----------------------------------------------------------------------------
(* The invariant.                                                           *)

TypeOK ==
    /\ state \in [Proc -> {"UNINIT", "RUNNABLE", "SLEEPING", "ZOMBIE"}]
    /\ wait_state \in [Proc -> {"0", "WT_CHILD", "WT_KSEM"}]
    /\ exiting \in [Proc -> BOOLEAN]
    /\ parent \in [Proc -> Proc \cup {NULL}] /\ cptr \in [Proc -> Proc \cup {NULL}]
    /\ optr \in [Proc -> Proc \cup {NULL}] /\ yptr \in [Proc -> Proc \cup {NULL}]
    /\ next \in [Proc -> Proc]
    /\ pc \in [Proc -> {"user", "wait", "exit", "done"}]
    /\ target \in [Proc -> UserProc \cup {NULL}]

Alive == {"RUNNABLE", "SLEEPING"}

\* The lists are lists, every process but init is in one, and the owner of a
\* list is alive.
ListsOK ==
    /\ Lists(parent, cptr, optr, yptr)
    /\ \A p \in Proc : parent[p] = NULL <=> p = initproc \/ state[p] = "UNINIT"
    /\ \A p \in Proc : parent[p] = NULL => optr[p] = NULL /\ yptr[p] = NULL
    /\ \A p \in Proc : parent[p] # NULL => state[parent[p]] \in Alive

\* The dead are in no ring.
RingsOK ==
    /\ IsInjective(next)
    /\ \A p \in Proc : state[p] \notin Alive => next[p] = p

\* Only who sleeps waits for something.
SleepOK == \A p \in Proc : wait_state[p] # "0" <=> state[p] = "SLEEPING"

\* init_main waits for any child until there are no user processes; it and
\* kswapd are alone in their groups and nobody kills them.
InitOK ==
    /\ state[initproc] \in Alive /\ pc[initproc] \in {"wait", "done"}
    /\ target[initproc] = NULL /\ ~exiting[initproc] /\ next[initproc] = initproc
    /\ state[kswapd] = "RUNNABLE" /\ pc[kswapd] = "user" /\ parent[kswapd] = initproc
    /\ next[kswapd] = kswapd
    /\ pc[initproc] = "done" => \A u \in UserProc : state[u] = "UNINIT"

CountOK == nr_process = Cardinality({p \in Proc : state[p] # "UNINIT"})

\* NoZombieMissed, without the order of the candidates.
WaitersOK ==
    \A p, c \in Proc :
        wait_state[p] = "WT_CHILD" /\ state[c] = "ZOMBIE" /\ parent[c] \in Ring(next, p)
            => target[p] \notin {NULL, c}

Inv == TypeOK /\ ListsOK /\ RingsOK /\ SleepOK /\ InitOK /\ CountOK /\ WaitersOK

\* The links as the property states them
LEMMA InvLinks ==
    Inv => LinksConsistent
<1> SUFFICES ASSUME Inv PROVE LinksConsistent
  OBVIOUS
<1> USE DEF Inv
<1>0. NULL \notin Proc
  BY FamilyAssumption DEF Proc
<1>1. ASSUME NEW p \in Proc
      PROVE  /\ IsInjective(Children(p))
             /\ ToSet(Children(p)) = {c \in Proc : parent[c] = p}
             /\ cptr[p] # NULL => yptr[cptr[p]] = NULL
             /\ optr[p] # NULL => yptr[optr[p]] = p
             /\ state[p] \in {"UNINIT", "ZOMBIE"} => next[p] = p
  <2> DEFINE s == Children(p)
  <2>1. IsList(s, p, parent, cptr, optr, yptr) /\ s \in Seq(Proc)
        /\ \A c \in Proc : parent[c] = p <=> In(c, s)
    BY ChildrenList DEF ListsOK
  <2> HIDE DEF s
  <2>2. DOMAIN s = 1 .. Len(s) /\ Len(s) \in Nat
    BY <2>1
  <2>3. IsInjective(s)
    BY <2>1, <2>2 DEF IsList, IsInjective
  <2>4. ToSet(s) = {c \in Proc : parent[c] = p}
    BY <2>1, <2>2 DEF ToSet, In
  <2>5. cptr[p] # NULL => yptr[cptr[p]] = NULL
    <3>1. cptr[p] = IF Len(s) = 0 THEN NULL ELSE s[1]
      BY <2>1 DEF IsList
    <3>2. Len(s) # 0 => 1 \in 1 .. Len(s)
      BY <2>2
    <3>q. QED
      BY <2>1, <3>1, <3>2 DEF IsList
  <2>6. ASSUME optr[p] # NULL PROVE yptr[optr[p]] = p
    <3>1. parent[p] \in Proc
      BY <2>6 DEF ListsOK, TypeOK
    <3>2. PICK t : IsList(t, parent[p], parent, cptr, optr, yptr)
      BY <3>1 DEF ListsOK, Lists
    <3>3. PICK i \in 1 .. Len(t) : t[i] = p
      BY <3>2 DEF IsList
    <3>4. i # Len(t) /\ optr[p] = t[i + 1]
      BY <2>6, <3>2, <3>3 DEF IsList
    <3>5. Len(t) \in Nat
      BY <3>2 DEF IsList
    <3>6. i + 1 \in 1 .. Len(t) /\ i + 1 # 1 /\ (i + 1) - 1 = i
      BY <3>4, <3>5
    <3>7. yptr[t[i + 1]] = t[i]
      BY <3>2, <3>6 DEF IsList
    <3>q. QED
      BY <3>3, <3>4, <3>7
  <2>7. state[p] \in {"UNINIT", "ZOMBIE"} => next[p] = p
    BY DEF RingsOK, Alive
  <2>q. QED
    BY <2>3, <2>4, <2>5, <2>6, <2>7 DEF s
<1>q. QED
  BY <1>1 DEF LinksConsistent, RingsOK, CountOK

\* Who has a parent has one that is alive.
LEMMA InvParent ==
    Inv => ParentAlive
BY DEF Inv, ListsOK, Alive, ParentAlive

\* Nobody sleeps through a zombie.
LEMMA InvWaiters ==
    Inv => NoZombieMissed
<1> SUFFICES ASSUME Inv, NEW p \in Proc, wait_state[p] = "WT_CHILD",
                    NEW c \in ToSet(Candidates(p, target[p])), state[c] = "ZOMBIE"
             PROVE  FALSE
  BY DEF NoZombieMissed
<1> USE DEF Inv
<1>1. target[p] \in UserProc \cup {NULL}
  BY DEF TypeOK
<1> DEFINE s == Candidates(p, target[p])
<1>2. s \in Seq(Proc)
      /\ \A x \in Proc : In(x, s) <=> /\ parent[x] \in Ring(next, p)
                                      /\ target[p] = NULL \/ (target[p] = x /\ state[x] # "UNINIT")
  BY <1>1, CandidatesAre DEF TypeOK, RingsOK, ListsOK
<1>3. c \in Proc /\ In(c, s)
  <2> HIDE DEF s
  <2>1. c \in ToSet(s)
    BY DEF s
  <2>q. QED
    BY <1>2, <2>1 DEF ToSet, In
<1>4. parent[c] \in Ring(next, p) /\ target[p] \in {NULL, c}
  BY <1>2, <1>3
<1>q. QED
  BY <1>3, <1>4 DEF WaitersOK

\* init, kswapd and the user processes are different from one another.
LEMMA InitsDiffer ==
    /\ initproc \in Proc /\ kswapd \in Proc /\ initproc # kswapd
    /\ initproc \notin UserProc /\ kswapd \notin UserProc
    /\ NULL \notin Proc /\ UserProc \subseteq Proc
BY FamilyAssumption DEF Proc

\* A process without children has no first child.
LEMMA NoChildren ==
    ASSUME Lists(parent, cptr, optr, yptr), NEW p \in Proc, \A c \in Proc : parent[c] # p
    PROVE  cptr[p] = NULL
<1>1. PICK s : IsList(s, p, parent, cptr, optr, yptr)
  BY DEF Lists
<1>2. Len(s) \in Nat /\ \A i \in 1 .. Len(s) : s[i] \in Proc /\ parent[s[i]] = p
  BY <1>1 DEF IsList
<1>3. Len(s) # 0 => 1 \in 1 .. Len(s)
  BY <1>2
<1>q. QED
  BY <1>1, <1>2, <1>3 DEF IsList

\* When init_main ends it finds what its assertions say.
LEMMA InvInit ==
    Inv => InitChecks
<1> SUFFICES ASSUME Inv, pc[initproc] = "done"
             PROVE  /\ cptr[initproc] = kswapd
                    /\ cptr[kswapd] = NULL /\ yptr[kswapd] = NULL /\ optr[kswapd] = NULL
                    /\ nr_process = 2
  BY DEF InitChecks
<1> USE DEF Inv
<1>1. \A u \in UserProc : state[u] = "UNINIT"
  BY DEF InitOK
<1>2. \A c \in Proc : parent[c] # NULL => c = kswapd
  BY <1>1 DEF ListsOK, Proc
<1>3. parent[kswapd] = initproc
  BY DEF InitOK
<1>4. PICK s : IsList(s, initproc, parent, cptr, optr, yptr)
  BY InitsDiffer DEF ListsOK, Lists
<1>5. Len(s) \in Nat /\ \A i \in 1 .. Len(s) : s[i] = kswapd
  <2>1. Len(s) \in Nat /\ \A i \in 1 .. Len(s) : s[i] \in Proc /\ parent[s[i]] = initproc
    BY <1>4 DEF IsList
  <2>q. QED
    BY <1>2, <2>1, InitsDiffer
<1>6. \E i \in 1 .. Len(s) : s[i] = kswapd
  BY <1>3, <1>4, InitsDiffer DEF IsList
<1>7. Len(s) = 1
  <2>1. Len(s) # 0
    BY <1>6
  <2>2. 1 \in 1 .. Len(s) /\ Len(s) \in 1 .. Len(s)
    BY <1>5, <2>1
  <2>3. s[1] = s[Len(s)]
    BY <1>5, <2>2
  <2>q. QED
    BY <1>4, <2>2, <2>3 DEF IsList
<1>8. 1 \in 1 .. Len(s) /\ s[1] = kswapd
  BY <1>5, <1>7
<1>9. cptr[initproc] = kswapd /\ yptr[kswapd] = NULL /\ optr[kswapd] = NULL
  BY <1>4, <1>7, <1>8 DEF IsList
<1>10. cptr[kswapd] = NULL
  BY <1>2, <1>3, InitsDiffer, NoChildren DEF ListsOK
<1>11. nr_process = 2
  <2>1. {p \in Proc : state[p] # "UNINIT"} = {initproc} \cup {kswapd}
    BY <1>1, InitsDiffer DEF InitOK, Alive, Proc
  <2>2. IsFiniteSet({initproc}) /\ Cardinality({initproc}) = 1
    BY FS_Singleton
  <2>3. kswapd \notin {initproc}
    BY InitsDiffer
  <2>4. Cardinality({initproc} \cup {kswapd}) = Cardinality({initproc}) + 1
    BY <2>2, <2>3, FS_AddElement
  <2>5. Cardinality({initproc} \cup {kswapd}) = 2
    BY <2>2, <2>4
  <2>q. QED
    BY <2>1, <2>5 DEF CountOK
<1>q. QED
  BY <1>9, <1>10, <1>11

-----------------------------------------------------------------------------
(* The invariant holds at the start, when init has user_main and kswapd.    *)

\* init and kswapd, once they have been made
LEMMA InitInv ==
    Init => Inv
<1> SUFFICES ASSUME Init PROVE Inv
  OBVIOUS
<1>1. PICK u \in UserProc :
        /\ state = [p \in Proc |-> IF p \in {u, initproc, kswapd} THEN "RUNNABLE" ELSE "UNINIT"]
        /\ wait_state = [p \in Proc |-> "0"]
        /\ exiting = [p \in Proc |-> FALSE]
        /\ parent = [p \in Proc |-> IF p \in {u, kswapd} THEN initproc ELSE NULL]
        /\ cptr = [p \in Proc |-> IF p = initproc THEN u ELSE NULL]
        /\ optr = [p \in Proc |-> IF p = u THEN kswapd ELSE NULL]
        /\ yptr = [p \in Proc |-> IF p = kswapd THEN u ELSE NULL]
        /\ next = [p \in Proc |-> p]
        /\ nr_process = 3
        /\ pc = [p \in Proc |-> IF p = initproc THEN "wait" ELSE "user"]
        /\ target = [p \in Proc |-> NULL]
  BY DEF Init
<1>2. u \in Proc /\ u # initproc /\ u # kswapd /\ u # NULL
  BY InitsDiffer
<1>3. TypeOK
  BY <1>1, <1>2, InitsDiffer DEF TypeOK
<1>4. Lists(parent, cptr, optr, yptr)
  <2>1. IsList(<<u, kswapd>>, initproc, parent, cptr, optr, yptr)
    <3> DEFINE s == <<u, kswapd>>
    <3>1. s \in Seq(Proc) /\ Len(s) = 2 /\ s[1] = u /\ s[2] = kswapd
      BY <1>2, InitsDiffer
    <3>2. \A i : i \in 1 .. 2 <=> i = 1 \/ i = 2
      OBVIOUS
    <3> HIDE DEF s
    <3>3. \A i, j \in 1 .. 2 : s[i] = s[j] => i = j
      BY <1>2, <3>1, <3>2
    <3>4. \A i \in 1 .. 2 : parent[s[i]] = initproc
      BY <1>1, <1>2, <3>1, <3>2, InitsDiffer
    <3>5. \A c \in Proc : parent[c] = initproc => \E i \in 1 .. 2 : s[i] = c
      BY <1>1, <3>1, <3>2, InitsDiffer
    <3>6. cptr[initproc] = s[1]
      BY <1>1, <3>1, InitsDiffer
    <3>7. \A i \in 1 .. 2 : optr[s[i]] = IF i = 2 THEN NULL ELSE s[i + 1]
      BY <1>1, <1>2, <3>1, <3>2, InitsDiffer
    <3>8. \A i \in 1 .. 2 : yptr[s[i]] = IF i = 1 THEN NULL ELSE s[i - 1]
      BY <1>1, <1>2, <3>1, <3>2, InitsDiffer
    <3>9. IsList(s, initproc, parent, cptr, optr, yptr)
      BY <3>1, <3>3, <3>4, <3>5, <3>6, <3>7, <3>8 DEF IsList
    <3>q. QED
      BY <3>9 DEF s
  <2>2. ASSUME NEW p \in Proc, p # initproc PROVE IsList(<<>>, p, parent, cptr, optr, yptr)
    <3>1. <<>> \in Seq(Proc) /\ Len(<<>>) = 0 /\ \A i : i \notin 1 .. 0
      OBVIOUS
    <3>2. cptr[p] = NULL /\ \A c \in Proc : parent[c] # p
      BY <1>1, <2>2, InitsDiffer
    <3>q. QED
      BY <3>1, <3>2 DEF IsList
  <2>q. QED
    BY <2>1, <2>2 DEF Lists
<1>5. ListsOK
  <2>1. \A p \in Proc : parent[p] = NULL <=> p = initproc \/ state[p] = "UNINIT"
    BY <1>1, <1>2, InitsDiffer
  <2>2. \A p \in Proc : parent[p] = NULL => optr[p] = NULL /\ yptr[p] = NULL
    BY <1>1, <1>2, InitsDiffer
  <2>3. \A p \in Proc : parent[p] # NULL => state[parent[p]] \in Alive
    BY <1>1, <1>2, InitsDiffer DEF Alive
  <2>q. QED
    BY <1>4, <2>1, <2>2, <2>3 DEF ListsOK
<1>6. RingsOK
  BY <1>1 DEF RingsOK, IsInjective
<1>7. SleepOK
  BY <1>1 DEF SleepOK
<1>8. InitOK
  BY <1>1, <1>2, InitsDiffer DEF InitOK, Alive
<1>9. CountOK
  <2>1. {p \in Proc : state[p] # "UNINIT"} = ({initproc} \cup {kswapd}) \cup {u}
    BY <1>1, <1>2, InitsDiffer
  <2>2. IsFiniteSet({initproc}) /\ Cardinality({initproc}) = 1
    BY FS_Singleton
  <2>3. IsFiniteSet({initproc} \cup {kswapd}) /\ Cardinality({initproc} \cup {kswapd}) = 2
    BY <2>2, FS_AddElement, InitsDiffer
  <2>4. u \notin {initproc} \cup {kswapd}
    BY <1>2
  <2>5. Cardinality(({initproc} \cup {kswapd}) \cup {u}) = 3
    BY <2>3, <2>4, FS_AddElement
  <2>q. QED
    BY <1>1, <2>1, <2>5 DEF CountOK
<1>10. WaitersOK
  BY <1>1 DEF WaitersOK
<1>q. QED
  BY <1>3, <1>5, <1>6, <1>7, <1>8, <1>9, <1>10 DEF Inv

-----------------------------------------------------------------------------
(* Steps that leave the links alone.                                        *)

\* A step that leaves lists and rings alone and ends or begins no life keeps the
\* invariant if nobody goes to sleep over a zombie it waits for.
LEMMA QuietStep ==
    ASSUME Inv, UNCHANGED links, TypeOK', SleepOK', InitOK',
           \A q \in Proc : state'[q] = state[q] \/ (state[q] \in Alive /\ state'[q] \in Alive),
           \A q \in Proc : wait_state'[q] = "WT_CHILD" =>
                \/ wait_state[q] = "WT_CHILD" /\ target'[q] = target[q]
                \/ \A c \in Proc : state'[c] = "ZOMBIE" /\ parent[c] \in Ring(next, q)
                                     => target'[q] \notin {NULL, c}
    PROVE  Inv'
<1> USE DEF Inv
<1>1. /\ parent' = parent /\ cptr' = cptr /\ optr' = optr /\ yptr' = yptr
      /\ next' = next /\ nr_process' = nr_process
  BY DEF links
<1>2. \A q \in Proc : /\ state'[q] = "UNINIT" <=> state[q] = "UNINIT"
                      /\ state'[q] = "ZOMBIE" <=> state[q] = "ZOMBIE"
                      /\ state'[q] \in Alive <=> state[q] \in Alive
  BY DEF Alive
<1>3. ListsOK'
  <2>1. \A p \in Proc : parent[p] # NULL => parent[p] \in Proc
    BY DEF TypeOK
  <2>q. QED
    BY <1>1, <1>2, <2>1 DEF ListsOK
<1>4. RingsOK'
  BY <1>1, <1>2 DEF RingsOK
<1>5. CountOK'
  <2>1. {q \in Proc : state'[q] # "UNINIT"} = {q \in Proc : state[q] # "UNINIT"}
    BY <1>2
  <2>q. QED
    BY <1>1, <2>1 DEF CountOK
<1>6. WaitersOK'
  BY <1>1, <1>2 DEF WaitersOK
<1>q. QED
  BY <1>3, <1>4, <1>5, <1>6

\* A user process is neither init nor kswapd, and while there is one init_main
\* goes on.
LEMMA UserFacts ==
    ASSUME Inv, NEW p \in UserProc, state[p] # "UNINIT"
    PROVE  /\ p \in Proc /\ p # initproc /\ p # kswapd
           /\ pc[initproc] = "wait"
BY InitsDiffer DEF Inv, InitOK

\* who is in __do_exit is a user process
LEMMA ExitFacts ==
    ASSUME Inv, NEW p \in Proc, Exiting(p)
    PROVE  p \in UserProc /\ state[p] = "RUNNABLE" /\ wait_state[p] = "0"
BY InitsDiffer DEF Inv, InitOK, Exiting, Running, Proc, SleepOK

\* do_exit_thread and may_killed begin an exit.
LEMMA StepExitThread ==
    ASSUME Inv, NEW p \in Proc, do_exit_thread(p) \/ may_killed(p)
    PROVE  Inv'
<1> USE DEF Inv
<1>1. /\ InUser(p) /\ pc' = [pc EXCEPT ![p] = "exit"] /\ exiting' = Acted(p)
      /\ UNCHANGED <<state, wait_state, links, target>>
  BY DEF do_exit_thread, may_killed
<1>2. p \in UserProc /\ state[p] = "RUNNABLE"
  BY <1>1 DEF InUser, Running
<1>3. p # initproc /\ p # kswapd
  BY <1>2, InitsDiffer
<1>4. TypeOK'
  BY <1>1 DEF TypeOK, Acted, links
<1>5. SleepOK'
  BY <1>1 DEF SleepOK
<1>6. /\ pc'[initproc] = pc[initproc] /\ pc'[kswapd] = pc[kswapd]
      /\ exiting'[initproc] = exiting[initproc]
  BY <1>1, <1>3, InitsDiffer DEF TypeOK, Acted
<1>7. InitOK'
  BY <1>1, <1>6 DEF InitOK, links
<1>q. QED
  BY <1>1, <1>4, <1>5, <1>7, QuietStep

\* put_fs goes to sleep for the semaphore.
LEMMA StepPutFs ==
    ASSUME Inv, NEW p \in Proc, put_fs(p)
    PROVE  Inv'
<1> USE DEF Inv
<1>1. /\ Exiting(p) /\ state' = [state EXCEPT ![p] = "SLEEPING"]
      /\ wait_state' = [wait_state EXCEPT ![p] = "WT_KSEM"]
      /\ UNCHANGED <<exiting, links, pc, target>>
  BY DEF put_fs
<1>2. p \in UserProc /\ state[p] = "RUNNABLE" /\ p # initproc /\ p # kswapd
  BY <1>1, ExitFacts, InitsDiffer
<1>3. TypeOK'
  BY <1>1 DEF TypeOK, links
<1>4. SleepOK'
  BY <1>1 DEF SleepOK, TypeOK
<1>5. state'[initproc] = state[initproc] /\ state'[kswapd] = state[kswapd]
      /\ \A u \in UserProc : state'[u] = state[u] \/ u = p
  BY <1>1, <1>2, InitsDiffer DEF TypeOK
<1>6. InitOK'
  BY <1>1, <1>2, <1>5 DEF InitOK, links
<1>7. \A q \in Proc : state'[q] = state[q] \/ (state[q] \in Alive /\ state'[q] \in Alive)
  BY <1>1, <1>2 DEF TypeOK, Alive
<1>8. \A q \in Proc : wait_state'[q] = "WT_CHILD" => wait_state[q] = "WT_CHILD" /\ target'[q] = target[q]
  BY <1>1 DEF TypeOK
<1>q. QED
  BY <1>1, <1>3, <1>4, <1>6, <1>7, <1>8, QuietStep

\* wakeup_proc for sleeping processes
LEMMA WakeFacts ==
    ASSUME Inv, NEW S \in SUBSET Proc, \A q \in S : state[q] = "SLEEPING",
           state' = WakeState(S), wait_state' = WakeWait(S)
    PROVE  /\ state' \in [Proc -> {"UNINIT", "RUNNABLE", "SLEEPING", "ZOMBIE"}]
           /\ wait_state' \in [Proc -> {"0", "WT_CHILD", "WT_KSEM"}]
           /\ SleepOK'
           /\ \A q \in Proc : state'[q] = state[q] \/ (state[q] \in Alive /\ state'[q] \in Alive)
           /\ \A q \in Proc : wait_state'[q] = "WT_CHILD" => wait_state[q] = "WT_CHILD" /\ q \notin S
           /\ state'[kswapd] = state[kswapd]
<1> USE DEF Inv
<1>1. \A q \in Proc : /\ state'[q] = IF q \in S THEN "RUNNABLE" ELSE state[q]
                      /\ wait_state'[q] = IF q \in S THEN "0" ELSE wait_state[q]
  BY DEF WakeState, WakeWait
<1>2. kswapd \notin S
  BY DEF InitOK
<1>3. /\ state' \in [Proc -> {"UNINIT", "RUNNABLE", "SLEEPING", "ZOMBIE"}]
      /\ wait_state' \in [Proc -> {"0", "WT_CHILD", "WT_KSEM"}]
  BY DEF WakeState, WakeWait, TypeOK
<1>4. SleepOK'
  BY <1>1 DEF SleepOK
<1>5. \A q \in Proc : state'[q] = state[q] \/ (state[q] \in Alive /\ state'[q] \in Alive)
  BY <1>1 DEF Alive
<1>q. QED
  BY <1>1, <1>2, <1>3, <1>4, <1>5, InitsDiffer

\* up wakes a process that waits for the semaphore.
LEMMA StepUp ==
    ASSUME Inv, NEW p \in Proc, up(p)
    PROVE  Inv'
<1> USE DEF Inv
<1>1. /\ wait_state[p] = "WT_KSEM"
      /\ state' = WakeState({p}) /\ wait_state' = WakeWait({p})
      /\ UNCHANGED <<exiting, links, pc, target>>
  BY DEF up
<1>2. \A q \in {p} : state[q] = "SLEEPING"
  BY <1>1 DEF SleepOK
<1>3. /\ state' \in [Proc -> {"UNINIT", "RUNNABLE", "SLEEPING", "ZOMBIE"}]
      /\ wait_state' \in [Proc -> {"0", "WT_CHILD", "WT_KSEM"}]
      /\ SleepOK'
      /\ \A q \in Proc : state'[q] = state[q] \/ (state[q] \in Alive /\ state'[q] \in Alive)
      /\ \A q \in Proc : wait_state'[q] = "WT_CHILD" => wait_state[q] = "WT_CHILD" /\ q \notin {p}
      /\ state'[kswapd] = state[kswapd]
  BY <1>1, <1>2, WakeFacts
<1>4. TypeOK'
  BY <1>1, <1>3 DEF TypeOK, links
<1>5. InitOK'
  <2>1. \A q \in Proc : state[q] = "UNINIT" => state'[q] = "UNINIT"
    BY <1>3 DEF Alive
  <2>2. state'[initproc] \in Alive
    BY <1>3, InitsDiffer DEF InitOK
  <2>q. QED
    BY <1>1, <1>3, <2>1, <2>2, InitsDiffer DEF InitOK, links
<1>6. \A q \in Proc : wait_state'[q] = "WT_CHILD" => wait_state[q] = "WT_CHILD" /\ target'[q] = target[q]
  BY <1>1, <1>3
<1>q. QED
  BY <1>1, <1>3, <1>4, <1>5, <1>6, QuietStep

\* A kill of the processes of K, which p is not one of, by p, which goes on at at.
LEMMA StepKillAll ==
    ASSUME Inv, NEW p \in Proc, NEW K \in SUBSET Proc, initproc \notin K, NEW at \in {"user", "exit"},
           InUser(p),
           exiting' = [KillAll(K) EXCEPT ![p] = FALSE],
           state' = WakeState(Woken(K)), wait_state' = WakeWait(Woken(K)),
           pc' = [pc EXCEPT ![p] = at],
           UNCHANGED <<links, target>>
    PROVE  Inv'
<1> USE DEF Inv
<1>1. p \in UserProc /\ state[p] = "RUNNABLE" /\ p # initproc /\ p # kswapd
  BY InitsDiffer DEF InUser, Running
<1>2. PICK S \in SUBSET Proc : S = Woken(K)
  BY DEF Woken
<1>3. \A q \in S : state[q] = "SLEEPING"
  BY <1>2 DEF SleepOK, Woken
<1>4. state' = WakeState(S) /\ wait_state' = WakeWait(S)
  BY <1>2
<1>5. /\ state' \in [Proc -> {"UNINIT", "RUNNABLE", "SLEEPING", "ZOMBIE"}]
      /\ wait_state' \in [Proc -> {"0", "WT_CHILD", "WT_KSEM"}]
      /\ SleepOK'
      /\ \A q \in Proc : state'[q] = state[q] \/ (state[q] \in Alive /\ state'[q] \in Alive)
      /\ \A q \in Proc : wait_state'[q] = "WT_CHILD" => wait_state[q] = "WT_CHILD" /\ q \notin S
      /\ state'[kswapd] = state[kswapd]
  BY <1>3, <1>4, WakeFacts
<1>6. exiting' \in [Proc -> BOOLEAN] /\ exiting'[initproc] = exiting[initproc]
  BY <1>1, InitsDiffer DEF KillAll, TypeOK
<1>7. pc' \in [Proc -> {"user", "wait", "exit", "done"}]
      /\ pc'[initproc] = pc[initproc] /\ pc'[kswapd] = pc[kswapd]
  BY <1>1, InitsDiffer DEF TypeOK
<1>8. TypeOK'
  BY <1>5, <1>6, <1>7 DEF TypeOK, links
<1>9. InitOK'
  <2>1. \A q \in Proc : state[q] = "UNINIT" => state'[q] = "UNINIT"
    BY <1>5 DEF Alive
  <2>2. state'[initproc] \in Alive
    BY <1>5, InitsDiffer DEF InitOK
  <2>q. QED
    BY <1>5, <1>6, <1>7, <2>1, <2>2, InitsDiffer DEF InitOK, links
<1>10. \A q \in Proc : wait_state'[q] = "WT_CHILD" => wait_state[q] = "WT_CHILD" /\ target'[q] = target[q]
  BY <1>5
<1>11. UNCHANGED links
  OBVIOUS
<1>q. QED
  BY <1>5, <1>8, <1>9, <1>10, <1>11, QuietStep

\* do_kill marks its process and may wake it.
LEMMA StepKill ==
    ASSUME Inv, NEW p \in Proc, NEW q \in UserProc, do_kill(p, q)
    PROVE  Inv'
<1>1. PICK at \in {"user", "exit"} : at = ReturnPc(p)
  BY DEF ReturnPc
<1>2. PICK K \in SUBSET Proc : K = {q}
  BY InitsDiffer
<1>3. initproc \notin K
  BY <1>2, InitsDiffer
<1>4. /\ InUser(p)
      /\ exiting' = [KillAll(K) EXCEPT ![p] = FALSE]
      /\ state' = WakeState(Woken(K)) /\ wait_state' = WakeWait(Woken(K))
      /\ pc' = [pc EXCEPT ![p] = at]
      /\ UNCHANGED <<links, target>>
  BY <1>1, <1>2 DEF do_kill
<1>q. QED
  BY <1>3, <1>4, StepKillAll

\* do_exit kills the other threads of the group.
LEMMA StepExit ==
    ASSUME Inv, NEW p \in Proc, do_exit(p)
    PROVE  Inv'
<1>1. next \in [Proc -> Proc] /\ IsInjective(next) /\ next[initproc] = initproc
  BY DEF Inv, TypeOK, RingsOK, InitOK
<1>2. Group(p) = Ring(next, p) /\ Ring(next, p) \subseteq Proc
  BY <1>1, GroupIsRing, RingFacts
<1>3. PICK K \in SUBSET Proc : K = Group(p) \ {p}
  BY <1>2
<1>4. initproc \notin K
  BY <1>1, <1>2, <1>3, AloneInRing, InitsDiffer
<1>5. PICK at \in {"user", "exit"} : at = "exit"
  OBVIOUS
<1>6. /\ InUser(p)
      /\ exiting' = [KillAll(K) EXCEPT ![p] = FALSE]
      /\ state' = WakeState(Woken(K)) /\ wait_state' = WakeWait(Woken(K))
      /\ pc' = [pc EXCEPT ![p] = at]
      /\ UNCHANGED <<links, target>>
  BY <1>3, <1>5 DEF do_exit
<1>q. QED
  BY <1>4, <1>6, StepKillAll

-----------------------------------------------------------------------------
(* Steps that change the links.                                             *)

\* de_thread takes p out of its ring and closes the ring behind it.
LEMMA DeThread ==
    ASSUME Inv, NEW p \in Proc, next' = de_thread(p)
    PROVE  /\ next' \in [Proc -> Proc]
           /\ IsInjective(next')
           /\ \A q \in Proc : next[q] = q \/ q = p => next'[q] = q
           /\ \A q \in Proc \ {p} : Ring(next', q) \subseteq Ring(next, q) \ {p}
<1>1. next \in [Proc -> Proc] /\ IsInjective(next)
  BY DEF Inv, TypeOK, RingsOK
<1>2. next' = [q \in Proc |-> IF q = p THEN p ELSE IF next[q] = p THEN next[p] ELSE next[q]]
  BY DEF de_thread
<1>q. QED
  BY <1>1, <1>2, LeaveRing

\* do_execve leaves the group.
LEMMA StepExecve ==
    ASSUME Inv, NEW p \in Proc, do_execve(p)
    PROVE  Inv'
<1> USE DEF Inv
<1>1. /\ InUser(p) /\ next' = de_thread(p) /\ pc' = [pc EXCEPT ![p] = ReturnPc(p)]
      /\ exiting' = Acted(p)
      /\ UNCHANGED <<state, wait_state, parent, cptr, optr, yptr, nr_process, target>>
  BY DEF do_execve
<1>2. p \in UserProc /\ state[p] = "RUNNABLE" /\ p # initproc /\ p # kswapd
  BY <1>1, InitsDiffer DEF InUser, Running
<1>3. /\ next' \in [Proc -> Proc]
      /\ IsInjective(next')
      /\ \A q \in Proc : next[q] = q \/ q = p => next'[q] = q
      /\ \A q \in Proc \ {p} : Ring(next', q) \subseteq Ring(next, q) \ {p}
  BY <1>1, DeThread
<1>4. TypeOK'
  BY <1>1, <1>3 DEF TypeOK, Acted, ReturnPc
<1>5. ListsOK' /\ SleepOK' /\ CountOK'
  BY <1>1 DEF ListsOK, SleepOK, CountOK
<1>6. RingsOK'
  BY <1>1, <1>3 DEF RingsOK
<1>7. InitOK'
  <2>1. /\ pc'[initproc] = pc[initproc] /\ pc'[kswapd] = pc[kswapd]
        /\ exiting'[initproc] = exiting[initproc]
    BY <1>1, <1>2, InitsDiffer DEF TypeOK, Acted
  <2>q. QED
    BY <1>1, <1>3, <2>1, InitsDiffer DEF InitOK
<1>8. WaitersOK'
  <2>1. wait_state[p] = "0"
    BY <1>2 DEF SleepOK
  <2>q. QED
    BY <1>1, <1>3, <2>1 DEF WaitersOK
<1>q. QED
  BY <1>4, <1>5, <1>6, <1>7, <1>8

\* What fork does to the ring: nothing, or the child joins the parent's.
LEMMA ForkRing ==
    ASSUME Inv, NEW p \in Proc, NEW c \in UserProc, NEW thread \in BOOLEAN, do_fork(p, c, thread)
    PROVE  /\ next' \in [Proc -> Proc]
           /\ IsInjective(next')
           /\ \A q \in Proc : next[q] = q /\ q \notin {c, p} => next'[q] = q
           /\ \A q \in Proc \ {c} : Ring(next', q) \subseteq Ring(next, q) \cup {c}
<1> USE DEF Inv
<1>1. /\ InUser(p) /\ state[c] = "UNINIT"
      /\ next' = IF thread
                 THEN [q \in Proc |-> IF q = c THEN p
                                      ELSE IF next[q] = p THEN c ELSE next[q]]
                 ELSE next
  BY DEF do_fork
<1>2. c \in Proc /\ next[c] = c /\ p \in Proc \ {c}
  BY <1>1, InitsDiffer DEF RingsOK, Alive, InUser, Running
<1>3. next \in [Proc -> Proc] /\ IsInjective(next)
  BY DEF TypeOK, RingsOK
<1>4. CASE thread
  BY <1>1, <1>2, <1>3, <1>4, JoinRing
<1>5. CASE ~thread
  BY <1>1, <1>3, <1>5
<1>q. QED
  BY <1>4, <1>5

\* do_fork links the child, and a thread joins the ring.
LEMMA StepFork ==
    ASSUME Inv, NEW p \in Proc, NEW c \in UserProc, NEW thread \in BOOLEAN, do_fork(p, c, thread)
    PROVE  Inv'
<1> USE DEF Inv
<1>1. /\ InUser(p) /\ state[c] = "UNINIT" /\ set_links(c, p)
      /\ state' = [state EXCEPT ![c] = "RUNNABLE"]
      /\ pc' = [pc EXCEPT ![p] = ReturnPc(p)]
      /\ exiting' = Acted(p)
      /\ UNCHANGED <<wait_state, target>>
  BY DEF do_fork
<1>2. p \in UserProc /\ state[p] = "RUNNABLE" /\ p # initproc /\ p # kswapd /\ c # p
  BY <1>1, InitsDiffer DEF InUser, Running
<1>3. c \in Proc /\ c # initproc /\ c # kswapd /\ parent[c] = NULL /\ wait_state[c] = "0" /\ NULL \notin Proc
  BY <1>1, InitsDiffer DEF ListsOK, SleepOK
<1>4. /\ next' \in [Proc -> Proc]
      /\ IsInjective(next')
      /\ \A q \in Proc : next[q] = q /\ q \notin {c, p} => next'[q] = q
      /\ \A q \in Proc \ {c} : Ring(next', q) \subseteq Ring(next, q) \cup {c}
  BY ForkRing
<1>5. /\ parent' = [parent EXCEPT ![c] = p] /\ cptr' = [cptr EXCEPT ![p] = c]
      /\ optr' = [optr EXCEPT ![c] = cptr[p]] /\ yptr' = Store([yptr EXCEPT ![c] = NULL], cptr[p], c)
      /\ nr_process' = nr_process + 1
  BY <1>1 DEF set_links
<1>6. /\ parent' \in [Proc -> Proc \cup {NULL}] /\ cptr' \in [Proc -> Proc \cup {NULL}]
      /\ optr' \in [Proc -> Proc \cup {NULL}] /\ yptr' \in [Proc -> Proc \cup {NULL}]
  BY <1>3, <1>5 DEF TypeOK, Store
<1>7. TypeOK'
  BY <1>1, <1>4, <1>6 DEF TypeOK, Acted, ReturnPc
<1>8. Linked(c, p, parent, cptr, optr, yptr, parent', cptr', optr', yptr')
  <2>1. parent'[c] = p /\ \A x \in Proc \ {c} : parent'[x] = parent[x]
    BY <1>3, <1>5 DEF TypeOK
  <2>2. cptr'[p] = c /\ \A x \in Proc \ {p} : cptr'[x] = cptr[x]
    BY <1>5 DEF TypeOK
  <2>3. optr'[c] = cptr[p] /\ \A x \in Proc \ {c} : optr'[x] = optr[x]
    BY <1>3, <1>5 DEF TypeOK
  <2>4. cptr[p] # c
    <3>1. PICK s : IsList(s, p, parent, cptr, optr, yptr)
      BY DEF ListsOK, Lists
    <3>2. Len(s) \in Nat
      BY <3>1 DEF IsList
    <3>3. Len(s) # 0 => 1 \in 1 .. Len(s)
      BY <3>2
    <3>4. cptr[p] # NULL => parent[cptr[p]] = p
      BY <3>1, <3>3 DEF IsList
    <3>q. QED
      BY <1>3, <3>4
  <2>5. /\ yptr'[c] = NULL /\ (cptr[p] \in Proc \ {c} => yptr'[cptr[p]] = c)
        /\ \A x \in Proc \ {c, cptr[p]} : yptr'[x] = yptr[x]
    BY <1>3, <1>5, <2>4 DEF TypeOK, Store
  <2>q. QED
    BY <2>1, <2>2, <2>3, <2>5 DEF Linked
<1>9. Lists(parent', cptr', optr', yptr')
  BY <1>3, <1>8, ListsLinked DEF ListsOK
<1>10. state'[c] = "RUNNABLE" /\ \A q \in Proc \ {c} : state'[q] = state[q]
  BY <1>1, <1>3 DEF TypeOK
<1>11. parent'[c] = p /\ \A x \in Proc \ {c} : parent'[x] = parent[x] /\ optr'[x] = optr[x]
  BY <1>8 DEF Linked
<1>12. ListsOK'
  <2>1. \A x \in Proc : parent'[x] = NULL <=> x = initproc \/ state'[x] = "UNINIT"
    BY <1>3, <1>10, <1>11 DEF ListsOK
  <2>2. ASSUME NEW x \in Proc, parent'[x] = NULL PROVE optr'[x] = NULL /\ yptr'[x] = NULL
    <3>1. x # c /\ parent[x] = NULL
      BY <1>3, <1>11, <2>2
    <3>2. cptr[p] # NULL => parent[cptr[p]] = p
      <4>1. PICK s : IsList(s, p, parent, cptr, optr, yptr)
        BY DEF ListsOK, Lists
      <4>2. Len(s) \in Nat
        BY <4>1 DEF IsList
      <4>3. Len(s) # 0 => 1 \in 1 .. Len(s)
        BY <4>2
      <4>q. QED
        BY <4>1, <4>3 DEF IsList
    <3>3. x # cptr[p]
      BY <1>3, <3>1, <3>2
    <3>4. optr'[x] = optr[x] /\ yptr'[x] = yptr[x]
      BY <1>8, <3>1, <3>3 DEF Linked
    <3>q. QED
      BY <3>1, <3>4 DEF ListsOK
  <2>3. ASSUME NEW x \in Proc, parent'[x] # NULL PROVE state'[parent'[x]] \in Alive
    <3>1. CASE x = c
      BY <1>2, <1>10, <1>11, <3>1 DEF Alive
    <3>2. CASE x # c
      <4>1. parent[x] \in Proc /\ state[parent[x]] \in Alive /\ parent'[x] = parent[x]
        BY <1>11, <2>3, <3>2 DEF ListsOK, TypeOK
      <4>2. parent[x] # c
        BY <1>1, <4>1 DEF Alive
      <4>q. QED
        BY <1>10, <4>1, <4>2
    <3>q. QED
      BY <3>1, <3>2
  <2>q. QED
    BY <1>9, <2>1, <2>2, <2>3 DEF ListsOK
<1>13. RingsOK'
  <2>1. \A q \in Proc : state'[q] \notin Alive => next'[q] = q
    <3> SUFFICES ASSUME NEW q \in Proc, state'[q] \notin Alive PROVE next'[q] = q
      OBVIOUS
    <3>1. q # c /\ q # p /\ state[q] \notin Alive
      BY <1>2, <1>10 DEF Alive
    <3>q. QED
      BY <1>4, <3>1 DEF RingsOK
  <2>q. QED
    BY <1>4, <2>1 DEF RingsOK
<1>14. SleepOK'
  BY <1>1, <1>3, <1>10 DEF SleepOK
<1>15. InitOK'
  <2>1. /\ pc'[initproc] = pc[initproc] /\ pc'[kswapd] = pc[kswapd]
        /\ exiting'[initproc] = exiting[initproc]
    BY <1>1, <1>2, InitsDiffer DEF TypeOK, Acted
  <2>2. pc[initproc] = "wait"
    BY <1>2, UserFacts
  <2>3. /\ state'[initproc] = state[initproc] /\ state'[kswapd] = state[kswapd]
        /\ parent'[kswapd] = parent[kswapd] /\ next'[initproc] = initproc /\ next'[kswapd] = kswapd
    BY <1>2, <1>3, <1>4, <1>10, <1>11, InitsDiffer DEF InitOK
  <2>q. QED
    BY <1>1, <2>1, <2>2, <2>3 DEF InitOK
<1>16. CountOK'
  <2> DEFINE L == {q \in Proc : state[q] # "UNINIT"}
  <2>1. {q \in Proc : state'[q] # "UNINIT"} = L \cup {c}
    BY <1>3, <1>10
  <2>2. c \notin L /\ L \in SUBSET Proc
    BY <1>1
  <2> HIDE DEF L
  <2>3. Cardinality(L \cup {c}) = Cardinality(L) + 1
    BY <1>3, <2>2, ProcFinite, Count
  <2>q. QED
    BY <1>5, <2>1, <2>3 DEF CountOK, L
<1>17. WaitersOK'
  <2> SUFFICES ASSUME NEW q \in Proc, NEW z \in Proc, wait_state'[q] = "WT_CHILD",
                      state'[z] = "ZOMBIE", parent'[z] \in Ring(next', q)
               PROVE  target'[q] \notin {NULL, z}
    BY DEF WaitersOK
  <2>1. q # c /\ z # c /\ state[z] = "ZOMBIE" /\ parent'[z] = parent[z]
    BY <1>1, <1>3, <1>10, <1>11
  <2>2. parent[z] \in Ring(next, q) \cup {c}
    BY <1>4, <2>1
  <2>3. parent[z] # c
    <3>1. parent[z] # NULL => state[parent[z]] \in Alive
      BY DEF ListsOK
    <3>q. QED
      BY <1>1, <1>3, <3>1 DEF Alive
  <2>q. QED
    BY <1>1, <2>1, <2>2, <2>3 DEF WaitersOK
<1>q. QED
  BY <1>7, <1>12, <1>13, <1>14, <1>15, <1>16, <1>17

\* The process that inherits: alive, not p, and in p's ring unless it is init.
LEMMA HeirFacts ==
    ASSUME Inv, NEW p \in Proc, Exiting(p)
    PROVE  /\ NewParent(p) \in Proc \ {p}
           /\ state[NewParent(p)] \in Alive
           /\ next[p] # p => p \in Ring(next, NewParent(p))
           /\ next[p] = p => NewParent(p) = initproc
<1> USE DEF Inv
<1>1. p \in UserProc /\ p # initproc
  BY ExitFacts, InitsDiffer
<1>2. next \in [Proc -> Proc] /\ IsInjective(next)
  BY DEF TypeOK, RingsOK
<1>3. CASE next[p] = p
  BY <1>1, <1>3, InitsDiffer DEF NewParent, InitOK
<1>4. CASE next[p] # p
  <2>1. NewParent(p) = next[p] /\ next[p] \in Proc
    BY <1>2, <1>4 DEF NewParent
  <2>2. next[next[p]] # next[p]
    BY <1>2, <1>4, <2>1 DEF IsInjective
  <2>3. state[next[p]] \in Alive
    BY <2>1, <2>2 DEF RingsOK
  <2>4. next[p] \in Ring(next, p)
    BY <1>2, RingFacts DEF Closed
  <2>5. p \in Ring(next, next[p])
    BY <1>2, <2>4, RingSymmetric
  <2>q. QED
    BY <1>4, <2>1, <2>3, <2>5
<1>q. QED
  BY <1>3, <1>4

\* A ring that meets another one is the same.
LEMMA RingTransitive ==
    ASSUME NEW nx \in [Proc -> Proc], NEW p \in Proc, NEW q \in Ring(nx, p)
    PROVE  Ring(nx, q) \subseteq Ring(nx, p)
<1>1. Ring(nx, p) \in SUBSET Proc /\ Closed(nx, Ring(nx, p))
  BY RingFacts
<1>q. QED
  BY <1>1, RingFacts

\* The second half of __do_exit: out of the ring, the children to the heir or to
\* init, and those woken who may wait for a zombie.
LEMMA StepExitFinish ==
    ASSUME Inv, NEW p \in Proc, ExitFinish(p)
    PROVE  Inv'
<1> USE DEF Inv
<1> DEFINE r == NewParent(p)
<1>1. PICK S : /\ S = WokenParents(p) \cup WokenHeir(p)
               /\ state' = [WakeState(S) EXCEPT ![p] = "ZOMBIE"]
               /\ wait_state' = WakeWait(S)
  BY DEF ExitFinish
<1>2. /\ Exiting(p) /\ Reparent(p) /\ next' = de_thread(p)
      /\ UNCHANGED <<exiting, nr_process, pc, target>>
  BY DEF ExitFinish
<1>3. p \in UserProc /\ state[p] = "RUNNABLE" /\ wait_state[p] = "0" /\ p # initproc /\ p # kswapd
  BY <1>2, ExitFacts, InitsDiffer
<1>4. /\ r \in Proc \ {p} /\ state[r] \in Alive
      /\ next[p] # p => p \in Ring(next, r)
      /\ next[p] = p => r = initproc
  BY <1>2, HeirFacts
<1>5. next \in [Proc -> Proc] /\ IsInjective(next) /\ NULL \notin Proc
  BY InitsDiffer DEF TypeOK, RingsOK
<1>6. parent[p] \in Proc
  BY <1>3, <1>5 DEF ListsOK, TypeOK
<1>7. \A q : q \in WokenParents(p) <=> q \in Ring(next, parent[p]) /\ wait_state[q] = "WT_CHILD"
  <2>1. Group(parent[p]) = Ring(next, parent[p])
    BY <1>5, <1>6, GroupIsRing
  <2>q. QED
    BY <2>1 DEF WokenParents
<1>8. \A q : q \in WokenHeir(p) <=>
            /\ q = r /\ wait_state[q] = "WT_CHILD"
            /\ \E c \in Proc : parent[c] = p /\ (c = p \/ state[c] = "ZOMBIE")
  <2>1. Children(p) \in Seq(Proc) /\ \A c \in Proc : parent[c] = p <=> In(c, Children(p))
    BY ChildrenList DEF ListsOK
  <2>2. \A c : c \in ToSet(Children(p)) <=> c \in Proc /\ parent[c] = p
    BY <2>1 DEF ToSet, In
  <2>q. QED
    BY <2>2 DEF WokenHeir
<1>9. S \in SUBSET Proc /\ \A q \in S : wait_state[q] = "WT_CHILD" /\ state[q] = "SLEEPING"
  <2>1. Ring(next, parent[p]) \subseteq Proc
    BY <1>5, <1>6, RingFacts
  <2>2. S \subseteq Proc /\ \A q \in S : wait_state[q] = "WT_CHILD"
    BY <1>1, <1>4, <1>7, <1>8, <2>1
  <2>q. QED
    BY <2>2 DEF SleepOK
<1>10. p \notin S /\ kswapd \notin S
  BY <1>3, <1>9 DEF InitOK
<1>11. \A q \in Proc : /\ state'[q] = IF q = p THEN "ZOMBIE" ELSE IF q \in S THEN "RUNNABLE" ELSE state[q]
                       /\ wait_state'[q] = IF q \in S THEN "0" ELSE wait_state[q]
  BY <1>1 DEF WakeState, WakeWait
<1>12. /\ state' \in [Proc -> {"UNINIT", "RUNNABLE", "SLEEPING", "ZOMBIE"}]
       /\ wait_state' \in [Proc -> {"0", "WT_CHILD", "WT_KSEM"}]
  BY <1>1 DEF WakeState, WakeWait, TypeOK
<1>13. /\ next' \in [Proc -> Proc]
       /\ IsInjective(next')
       /\ \A q \in Proc : next[q] = q \/ q = p => next'[q] = q
       /\ \A q \in Proc \ {p} : Ring(next', q) \subseteq Ring(next, q) \ {p}
  BY <1>2, DeThread
<1>14. cptr \in [Proc -> Proc \cup {NULL}]
  BY DEF TypeOK
<1>15. PICK list : Inherited(list, p, r, parent, cptr, optr, yptr, parent', cptr', optr', yptr')
  BY <1>2, <1>4, <1>14, ReparentEffect DEF ListsOK
<1>16. Lists(parent', cptr', optr', yptr')
  BY <1>4, <1>15, ListsInherited DEF ListsOK
<1>17. \A c \in Proc : parent'[c] = IF parent[c] = p THEN r ELSE parent[c]
  BY <1>15 DEF Inherited
<1>18. TypeOK'
  <2>1. /\ parent' \in [Proc -> Proc \cup {NULL}] /\ optr' \in [Proc -> Proc \cup {NULL}]
        /\ yptr' \in [Proc -> Proc \cup {NULL}] /\ cptr' \in [Proc -> Proc \cup {NULL}]
    <3>1. list \in Seq(Proc) /\ Len(list) \in Nat
      BY <1>15 DEF Inherited
    <3>2. /\ parent' = [c \in Proc |-> parent'[c]] /\ cptr' = [c \in Proc |-> cptr'[c]]
          /\ optr' = [c \in Proc |-> optr'[c]] /\ yptr' = [c \in Proc |-> yptr'[c]]
      BY <1>2, <1>4, <1>14, ReparentEffect DEF ListsOK
    <3>3. \A c \in Proc : parent'[c] \in Proc \cup {NULL}
      BY <1>4, <1>17 DEF TypeOK
    <3>4. ASSUME NEW c \in Proc PROVE optr'[c] \in Proc \cup {NULL} /\ yptr'[c] \in Proc \cup {NULL}
      <4>1. CASE In(c, list)
        <5>1. PICK i \in 1 .. Len(list) : list[i] = c
          BY <4>1 DEF In
        <5>2. /\ optr'[c] = IF i = Len(list) THEN NULL ELSE list[i + 1]
              /\ yptr'[c] = IF i = 1 THEN NULL ELSE list[i - 1]
          BY <1>15, <5>1 DEF Inherited
        <5>3. /\ i # Len(list) => i + 1 \in 1 .. Len(list)
              /\ i # 1 => i - 1 \in 1 .. Len(list)
          BY <3>1
        <5>4. \A j \in 1 .. Len(list) : list[j] \in Proc
          BY <3>1
        <5>q. QED
          BY <5>2, <5>3, <5>4
      <4>2. CASE ~In(c, list)
        BY <1>15, <4>2 DEF Inherited, TypeOK
      <4>q. QED
        BY <4>1, <4>2
    <3>5. \A c \in Proc : cptr'[c] \in Proc \cup {NULL}
      <4>1. Len(list) # 0 => 1 \in 1 .. Len(list)
        BY <3>1
      <4>2. Len(list) # 0 => list[1] \in Proc
        BY <3>1, <4>1
      <4>3. \A c \in Proc \ {p, r} : cptr'[c] \in Proc \cup {NULL}
        BY <1>14, <1>15 DEF Inherited
      <4>4. cptr'[p] \in Proc \cup {NULL} /\ cptr'[r] \in Proc \cup {NULL}
        BY <1>15, <4>2 DEF Inherited
      <4>q. QED
        BY <4>3, <4>4
    <3>q. QED
      BY <3>2, <3>3, <3>4, <3>5
  <2>q. QED
    BY <1>2, <1>12, <1>13, <2>1 DEF TypeOK
<1>19. ListsOK'
  <2>1. \A x \in Proc : parent'[x] = NULL <=> x = initproc \/ state'[x] = "UNINIT"
    <3>1. \A x \in Proc : parent'[x] = NULL <=> parent[x] = NULL
      BY <1>4, <1>5, <1>17
    <3>2. \A x \in Proc : state'[x] = "UNINIT" <=> state[x] = "UNINIT"
      BY <1>3, <1>9, <1>11
    <3>q. QED
      BY <3>1, <3>2 DEF ListsOK
  <2>2. \A x \in Proc : parent'[x] = NULL => optr'[x] = NULL /\ yptr'[x] = NULL
    <3> SUFFICES ASSUME NEW x \in Proc, parent'[x] = NULL PROVE optr'[x] = NULL /\ yptr'[x] = NULL
      OBVIOUS
    <3>1. parent[x] = NULL
      BY <1>4, <1>5, <1>17
    <3>2. ~In(x, list)
      BY <1>4, <1>5, <1>15, <3>1 DEF Inherited
    <3>q. QED
      BY <1>15, <3>1, <3>2 DEF Inherited, ListsOK
  <2>3. ASSUME NEW x \in Proc, parent'[x] # NULL PROVE state'[parent'[x]] \in Alive
    <3>1. parent'[x] \in Proc \ {p} /\ state[parent'[x]] \in Alive
      <4>1. CASE parent[x] = p
        BY <1>4, <1>17, <4>1
      <4>2. CASE parent[x] # p
        BY <1>17, <2>3, <4>2 DEF ListsOK, TypeOK
      <4>q. QED
        BY <4>1, <4>2
    <3>q. QED
      BY <1>11, <3>1 DEF Alive
  <2>q. QED
    BY <1>16, <2>1, <2>2, <2>3 DEF ListsOK
<1>20. RingsOK'
  <2>1. \A q \in Proc : state'[q] \notin Alive => q = p \/ state[q] \notin Alive
    BY <1>11 DEF Alive
  <2>q. QED
    BY <1>13, <2>1 DEF RingsOK
<1>21. SleepOK'
  BY <1>3, <1>9, <1>10, <1>11 DEF SleepOK
<1>22. InitOK'
  <2>1. pc'[initproc] = pc[initproc] /\ pc'[kswapd] = pc[kswapd]
    BY <1>2, <1>3, InitsDiffer DEF TypeOK
  <2>2. pc[initproc] = "wait"
    BY <1>3, UserFacts
  <2>3. state'[initproc] \in Alive /\ state'[kswapd] = state[kswapd]
    BY <1>3, <1>10, <1>11, InitsDiffer DEF InitOK, Alive
  <2>4. parent'[kswapd] = parent[kswapd] /\ next'[initproc] = initproc /\ next'[kswapd] = kswapd
    BY <1>3, <1>13, <1>17, InitsDiffer DEF InitOK
  <2>q. QED
    BY <1>2, <2>1, <2>2, <2>3, <2>4 DEF InitOK
<1>23. CountOK'
  <2>1. {q \in Proc : state'[q] # "UNINIT"} = {q \in Proc : state[q] # "UNINIT"}
    BY <1>3, <1>9, <1>11
  <2>q. QED
    BY <1>2, <2>1 DEF CountOK
<1>24. WaitersOK'
  <2> SUFFICES ASSUME NEW q \in Proc, NEW z \in Proc, wait_state'[q] = "WT_CHILD",
                      state'[z] = "ZOMBIE", parent'[z] \in Ring(next', q),
                      target'[q] \in {NULL, z}
               PROVE  FALSE
    BY DEF WaitersOK
  <2>1. wait_state[q] = "WT_CHILD" /\ q \notin S /\ q # p
    BY <1>3, <1>11
  <2>2. parent'[z] \in Ring(next, q)
    BY <1>13, <2>1
  \* the ring of p's heir is that of p, or q is init
  <2>3. ASSUME r \in Ring(next, q) PROVE (p \in Ring(next, q) /\ q \in Ring(next, p)) \/ q = r
    <3>1. CASE next[p] # p
      <4>1. Ring(next, r) \subseteq Ring(next, q)
        BY <1>5, <2>3, RingTransitive
      <4>2. p \in Ring(next, q)
        BY <1>4, <3>1, <4>1
      <4>q. QED
        BY <1>5, <4>2, RingSymmetric
    <3>2. CASE next[p] = p
      <4>1. r = initproc /\ next[initproc] = initproc
        BY <1>4, <3>2 DEF InitOK
      <4>q. QED
        BY <1>4, <1>5, <2>3, <4>1, AloneInRing
    <3>q. QED
      BY <3>1, <3>2
  <2>4. target[q] \in {NULL, z}
    BY <1>2
  <2>5. CASE z # p
    <3>1. state[z] = "ZOMBIE"
      BY <1>11, <2>5
    <3>2. CASE parent[z] # p
      <4>1. parent[z] \in Ring(next, q)
        BY <1>17, <2>2, <3>2
      <4>q. QED
        BY <2>1, <2>4, <3>1, <4>1 DEF WaitersOK
    <3>3. CASE parent[z] = p
      <4>1. r \in Ring(next, q)
        BY <1>17, <2>2, <3>3
      <4>2. CASE p \in Ring(next, q)
        BY <2>1, <2>4, <3>1, <3>3, <4>2 DEF WaitersOK
      <4>3. CASE q = r
        <5>1. q \in WokenHeir(p)
          BY <1>8, <2>1, <3>1, <3>3, <4>3
        <5>q. QED
          BY <1>1, <2>1, <5>1
      <4>q. QED
        BY <2>3, <4>1, <4>2, <4>3
    <3>q. QED
      BY <3>2, <3>3
  <2>6. CASE z = p
    <3>1. CASE parent[p] # p
      <4>1. parent[p] \in Ring(next, q)
        BY <1>17, <2>2, <2>6, <3>1
      <4>2. q \in Ring(next, parent[p])
        BY <1>5, <4>1, RingSymmetric
      <4>q. QED
        BY <1>1, <1>7, <2>1, <4>2
    <3>2. CASE parent[p] = p
      <4>1. r \in Ring(next, q)
        BY <1>17, <2>2, <2>6, <3>2
      <4>2. CASE q \in Ring(next, p)
        BY <1>1, <1>7, <2>1, <3>2, <4>2
      <4>3. CASE q = r
        <5>1. q \in WokenHeir(p)
          BY <1>8, <2>1, <3>2, <4>3
        <5>q. QED
          BY <1>1, <2>1, <5>1
      <4>q. QED
        BY <2>3, <4>1, <4>2, <4>3
    <3>q. QED
      BY <3>1, <3>2
  <2>q. QED
    BY <2>5, <2>6
<1>q. QED
  BY <1>18, <1>19, <1>20, <1>21, <1>22, <1>23, <1>24

-----------------------------------------------------------------------------
(* do_wait                                                                  *)

\* The three ends of a round of do_wait.
Reaps(p, z) ==
    /\ remove_links(z)
    /\ state' = [state EXCEPT ![z] = "UNINIT"]
    /\ target' = [target EXCEPT ![p] = NULL]
    /\ pc' = [pc EXCEPT ![p] = AfterWait(p, FALSE), ![z] = "user"]
    /\ exiting' = Acted(p)
    /\ UNCHANGED <<wait_state, next>>

Sleeps(p, t) ==
    /\ state' = [state EXCEPT ![p] = "SLEEPING"]
    /\ wait_state' = [wait_state EXCEPT ![p] = "WT_CHILD"]
    /\ pc' = [pc EXCEPT ![p] = "wait"]
    /\ target' = [target EXCEPT ![p] = t]
    /\ UNCHANGED <<exiting, links>>

Fails(p) ==
    /\ UNCHANGED <<state, wait_state, links>>
    /\ exiting' = Acted(p)
    /\ target' = [target EXCEPT ![p] = NULL]
    /\ pc' = [pc EXCEPT ![p] = AfterWait(p, TRUE)]

Candidate(p, t, c) == parent[c] \in Ring(next, p) /\ (t = NULL \/ (t = c /\ state[c] # "UNINIT"))

\* What a round of do_wait can come to: it reaps a zombie, sleeps while no
\* candidate is one, or has no candidate.
LEMMA WaitRoundCases ==
    ASSUME Inv, NEW p \in Proc, NEW t \in UserProc \cup {NULL}, WaitRound(p, t)
    PROVE  \/ \E z \in Proc : state[z] = "ZOMBIE" /\ Reaps(p, z)
           \/ Sleeps(p, t) /\ \A c \in Proc : Candidate(p, t, c) => state[c] # "ZOMBIE"
           \/ Fails(p) /\ \A c \in Proc : ~Candidate(p, t, c)
<1> DEFINE kids    == Candidates(p, t)
           zombies == {i \in DOMAIN kids : state[kids[i]] = "ZOMBIE"}
           first   == CHOOSE i \in zombies : \A j \in zombies : i <= j
<1>1. kids \in Seq(Proc) /\ \A c \in Proc : In(c, kids) <=> Candidate(p, t, c)
  BY CandidatesAre DEF Inv, TypeOK, RingsOK, ListsOK, Candidate
<1>2. \/ zombies # {} /\ Reaps(p, kids[first])
      \/ zombies = {} /\ Sleeps(p, t)
      \/ kids = <<>> /\ Fails(p)
  BY DEF WaitRound, Reaps, Sleeps, Fails
<1> HIDE DEF kids
<1>3. DOMAIN kids = 1 .. Len(kids) /\ Len(kids) \in Nat
  BY <1>1
<1>4. ASSUME zombies # {} PROVE kids[first] \in Proc /\ state[kids[first]] = "ZOMBIE"
  <2>1. zombies \in SUBSET Nat
    BY <1>3
  <2>2. \E i \in zombies : \A j \in zombies : i <= j
    <3> HIDE DEF zombies
    <3>q. QED
      BY <1>4, <2>1, LeastNat
  <2>3. first \in zombies
    <3> HIDE DEF zombies
    <3>q. QED
      BY <2>2, Zenon
  <2> HIDE DEF first
  <2>q. QED
    BY <1>1, <1>3, <2>3
<1>5. ASSUME zombies = {} PROVE \A c \in Proc : Candidate(p, t, c) => state[c] # "ZOMBIE"
  BY <1>1, <1>3, <1>5 DEF In
<1>6. ASSUME kids = <<>> PROVE \A c \in Proc : ~Candidate(p, t, c)
  <2>1. Len(kids) = 0
    BY <1>6
  <2>2. \A i : i \notin 1 .. 0
    OBVIOUS
  <2>q. QED
    BY <1>1, <2>1, <2>2 DEF In
<1> HIDE DEF zombies, first
<1>q. QED
  BY <1>2, <1>4, <1>5, <1>6

\* do_wait frees a zombie.
LEMMA StepReaps ==
    ASSUME Inv, NEW p \in Proc, state[p] = "RUNNABLE", p = initproc \/ p \in UserProc,
           p = initproc => pc[p] = "wait",
           NEW z \in Proc, state[z] = "ZOMBIE", Reaps(p, z)
    PROVE  Inv'
<1> USE DEF Inv
<1>1. /\ remove_links(z)
      /\ state' = [state EXCEPT ![z] = "UNINIT"]
      /\ target' = [target EXCEPT ![p] = NULL]
      /\ pc' = [pc EXCEPT ![p] = AfterWait(p, FALSE), ![z] = "user"]
      /\ exiting' = Acted(p)
      /\ UNCHANGED <<wait_state, next>>
  BY DEF Reaps
<1>2. z # p /\ z # initproc /\ z # kswapd /\ z \in UserProc /\ p # kswapd
  BY InitsDiffer DEF InitOK, Alive, Proc
<1>3. NULL \notin Proc /\ wait_state[z] = "0" /\ wait_state[p] = "0"
  BY InitsDiffer DEF SleepOK
<1>4. \A c \in Proc : parent[c] # z
  BY <1>3 DEF ListsOK, Alive
<1>5. parent[z] \in Proc \ {z}
  BY <1>2, <1>4 DEF ListsOK, TypeOK
<1>6. /\ yptr' = [Store(yptr, optr[z], yptr[z]) EXCEPT ![z] = NULL]
      /\ optr' = [Store(optr, yptr[z], optr[z]) EXCEPT ![z] = NULL]
      /\ cptr' = IF yptr[z] = NULL
                 THEN [cptr EXCEPT ![parent[z]] = optr[z], ![z] = NULL]
                 ELSE [cptr EXCEPT ![z] = NULL]
      /\ parent' = [parent EXCEPT ![z] = NULL]
      /\ nr_process' = nr_process - 1
  BY <1>1 DEF remove_links
<1>7. /\ parent' \in [Proc -> Proc \cup {NULL}] /\ cptr' \in [Proc -> Proc \cup {NULL}]
      /\ optr' \in [Proc -> Proc \cup {NULL}] /\ yptr' \in [Proc -> Proc \cup {NULL}]
  <2>1. parent' \in [Proc -> Proc \cup {NULL}]
    BY <1>6 DEF TypeOK
  <2>2. cptr' \in [Proc -> Proc \cup {NULL}]
    BY <1>6 DEF TypeOK
  <2>3. optr' \in [Proc -> Proc \cup {NULL}]
    BY <1>6 DEF TypeOK, Store
  <2>4. yptr' \in [Proc -> Proc \cup {NULL}]
    BY <1>6 DEF TypeOK, Store
  <2>q. QED
    BY <2>1, <2>2, <2>3, <2>4
<1>8. pc' \in [Proc -> {"user", "wait", "exit", "done"}]
  BY <1>1 DEF TypeOK, AfterWait, ReturnPc
<1>9. TypeOK'
  BY <1>1, <1>7, <1>8 DEF TypeOK, Acted
\* the neighbours of z in its list
<1>10. (optr[z] # NULL => optr[z] \in Proc \ {z}) /\ (yptr[z] # NULL => yptr[z] \in Proc \ {z})
       /\ (optr[z] # NULL => parent[optr[z]] = parent[z])
       /\ (yptr[z] # NULL => parent[yptr[z]] = parent[z])
  <2>1. PICK s : IsList(s, parent[z], parent, cptr, optr, yptr)
    BY <1>5 DEF ListsOK, Lists
  <2>2. PICK i \in 1 .. Len(s) : s[i] = z
    BY <2>1 DEF IsList
  <2>3. s \in Seq(Proc) /\ Len(s) \in Nat /\ \A j \in 1 .. Len(s) : s[j] \in Proc
    BY <2>1 DEF IsList
  <2>4. /\ optr[z] = IF i = Len(s) THEN NULL ELSE s[i + 1]
        /\ yptr[z] = IF i = 1 THEN NULL ELSE s[i - 1]
    BY <2>1, <2>2 DEF IsList
  <2>5. /\ i # Len(s) => i + 1 \in 1 .. Len(s) /\ i + 1 # i
        /\ i # 1 => i - 1 \in 1 .. Len(s) /\ i - 1 # i
    BY <2>3
  <2>6. \A j \in 1 .. Len(s) : parent[s[j]] = parent[z] /\ (j # i => s[j] # z)
    BY <2>1, <2>2 DEF IsList
  <2>q. QED
    BY <2>3, <2>4, <2>5, <2>6
<1>11. Unlinked(z, parent, cptr, optr, yptr, parent', cptr', optr', yptr')
  <2>1. parent'[z] = NULL /\ \A x \in Proc \ {z} : parent'[x] = parent[x]
    BY <1>6 DEF TypeOK
  <2>2. /\ cptr'[z] = NULL /\ cptr'[parent[z]] = (IF yptr[z] = NULL THEN optr[z] ELSE cptr[parent[z]])
        /\ \A x \in Proc \ {z, parent[z]} : cptr'[x] = cptr[x]
    <3>1. cptr \in [Proc -> Proc \cup {NULL}]
      BY DEF TypeOK
    <3>2. CASE yptr[z] = NULL
      BY <1>5, <1>6, <3>1, <3>2
    <3>3. CASE yptr[z] # NULL
      BY <1>5, <1>6, <3>1, <3>3
    <3>q. QED
      BY <3>2, <3>3
  <2>3. /\ yptr[z] # NULL => optr'[yptr[z]] = optr[z]
        /\ \A x \in Proc \ {z, yptr[z]} : optr'[x] = optr[x]
    BY <1>6, <1>10 DEF TypeOK, Store
  <2>4. /\ optr[z] # NULL => yptr'[optr[z]] = yptr[z]
        /\ \A x \in Proc \ {z, optr[z]} : yptr'[x] = yptr[x]
    BY <1>6, <1>10 DEF TypeOK, Store
  <2>q. QED
    BY <2>1, <2>2, <2>3, <2>4 DEF Unlinked
<1>12. Lists(parent', cptr', optr', yptr')
  BY <1>4, <1>5, <1>11, ListsUnlinked DEF ListsOK
<1>13. state'[z] = "UNINIT" /\ \A q \in Proc \ {z} : state'[q] = state[q]
  BY <1>1 DEF TypeOK
<1>14. parent'[z] = NULL /\ \A q \in Proc \ {z} : parent'[q] = parent[q]
  BY <1>11 DEF Unlinked
<1>15. ListsOK'
  <2>1. \A x \in Proc : parent'[x] = NULL <=> x = initproc \/ state'[x] = "UNINIT"
    BY <1>13, <1>14 DEF ListsOK
  <2>2. ASSUME NEW x \in Proc, parent'[x] = NULL PROVE optr'[x] = NULL /\ yptr'[x] = NULL
    <3>1. CASE x = z
      BY <1>6, <3>1 DEF TypeOK, Store
    <3>2. CASE x # z
      <4>1. parent[x] = NULL
        BY <1>14, <2>2, <3>2
      <4>2. x # optr[z] /\ x # yptr[z]
        BY <1>3, <1>5, <1>10, <4>1
      <4>3. optr'[x] = optr[x] /\ yptr'[x] = yptr[x]
        BY <1>11, <3>2, <4>2 DEF Unlinked
      <4>q. QED
        BY <4>1, <4>3 DEF ListsOK
    <3>q. QED
      BY <3>1, <3>2
  <2>3. ASSUME NEW x \in Proc, parent'[x] # NULL PROVE state'[parent'[x]] \in Alive
    <3>1. x # z /\ parent'[x] = parent[x]
      BY <1>14, <2>3
    <3>2. parent[x] \in Proc \ {z} /\ state[parent[x]] \in Alive
      BY <1>4, <2>3, <3>1 DEF ListsOK, TypeOK
    <3>q. QED
      BY <1>13, <3>1, <3>2
  <2>q. QED
    BY <1>12, <2>1, <2>2, <2>3 DEF ListsOK
<1>16. RingsOK'
  BY <1>1, <1>13 DEF RingsOK, Alive
<1>17. SleepOK'
  BY <1>1, <1>3, <1>13 DEF SleepOK
<1> DEFINE L == {q \in Proc : state[q] # "UNINIT"}
           L2 == {q \in Proc : state'[q] # "UNINIT"}
<1>18. L2 = L \ {z} /\ z \in L /\ L \in SUBSET Proc
  BY <1>13
<1>19. CountOK'
  <2> HIDE DEF L, L2
  <2>1. Cardinality(L \ {z}) = Cardinality(L) - 1
    BY <1>18, ProcFinite, Count
  <2>q. QED
    BY <1>6, <1>18, <2>1 DEF CountOK, L, L2
<1>20. InitOK'
  <2>1. /\ state'[initproc] = state[initproc] /\ state'[kswapd] = state[kswapd]
        /\ parent'[kswapd] = parent[kswapd]
    BY <1>2, <1>13, <1>14, InitsDiffer
  <2>2. target'[initproc] = NULL /\ ~exiting'[initproc]
    BY <1>1, InitsDiffer DEF InitOK, TypeOK, Acted
  <2>3. pc'[kswapd] = pc[kswapd]
    BY <1>1, <1>2, InitsDiffer DEF TypeOK
  <2>4. CASE p # initproc
    <3>1. pc'[initproc] = pc[initproc]
      BY <1>1, <1>2, <2>4, InitsDiffer DEF TypeOK
    <3>2. pc[initproc] = "wait"
      BY <2>4, UserFacts
    <3>q. QED
      BY <1>1, <2>1, <2>2, <2>3, <3>1, <3>2 DEF InitOK
  <2>5. CASE p = initproc
    <3>1. pc'[initproc] = IF nr_process' = 2 THEN "done" ELSE "wait"
      BY <1>1, <1>2, <2>5, InitsDiffer DEF TypeOK, AfterWait
    <3>2. ASSUME nr_process' = 2 PROVE \A u \in UserProc : state'[u] = "UNINIT"
      <4> DEFINE I == {initproc} \cup {kswapd}
      <4>1. IsFiniteSet({initproc}) /\ Cardinality({initproc}) = 1
        BY FS_Singleton
      <4>a. kswapd \notin {initproc}
        BY InitsDiffer
      <4>b. Cardinality(I) = Cardinality({initproc}) + 1
        BY <4>1, <4>a, FS_AddElement
      <4>2. Cardinality(I) = 2
        BY <4>1, <4>b
      <4>3. I \in SUBSET L2
        BY <2>1, InitsDiffer DEF InitOK, Alive
      <4>4. IsFiniteSet(L2)
        BY ProcFinite, FS_Subset
      <4>5. Cardinality(L2) = 2
        BY <1>19, <3>2 DEF CountOK
      <4>6. L2 = I
        <5> HIDE DEF L2, I
        <5>q. QED
          BY <4>2, <4>3, <4>4, <4>5, FS_Subset
      <4>q. QED
        BY <4>6, InitsDiffer
    <3>q. QED
      BY <1>1, <2>1, <2>2, <2>3, <3>1, <3>2 DEF InitOK
  <2>q. QED
    BY <2>4, <2>5
<1>21. WaitersOK'
  <2> SUFFICES ASSUME NEW q \in Proc, NEW c \in Proc, wait_state'[q] = "WT_CHILD",
                      state'[c] = "ZOMBIE", parent'[c] \in Ring(next', q)
               PROVE  target'[q] \notin {NULL, c}
    BY DEF WaitersOK
  <2>1. c # z /\ state[c] = "ZOMBIE" /\ parent'[c] = parent[c] /\ q # p
    BY <1>1, <1>3, <1>13, <1>14
  <2>2. target'[q] = target[q]
    BY <1>1, <2>1 DEF TypeOK
  <2>q. QED
    BY <1>1, <2>1, <2>2 DEF WaitersOK
<1>q. QED
  BY <1>9, <1>15, <1>16, <1>17, <1>19, <1>20, <1>21

\* do_wait goes to sleep.
LEMMA StepSleeps ==
    ASSUME Inv, NEW p \in Proc, state[p] = "RUNNABLE", p = initproc \/ p \in UserProc,
           NEW t \in UserProc \cup {NULL}, p = initproc => t = NULL /\ pc[p] = "wait",
           Sleeps(p, t), \A c \in Proc : Candidate(p, t, c) => state[c] # "ZOMBIE"
    PROVE  Inv'
<1> USE DEF Inv
<1>1. /\ state' = [state EXCEPT ![p] = "SLEEPING"]
      /\ wait_state' = [wait_state EXCEPT ![p] = "WT_CHILD"]
      /\ pc' = [pc EXCEPT ![p] = "wait"]
      /\ target' = [target EXCEPT ![p] = t]
      /\ UNCHANGED <<exiting, links>>
  BY DEF Sleeps
<1>2. TypeOK'
  BY <1>1 DEF TypeOK, links
<1>3. SleepOK'
  BY <1>1 DEF SleepOK, TypeOK
<1>4. state'[p] = "SLEEPING" /\ \A q \in Proc \ {p} : state'[q] = state[q]
  BY <1>1 DEF TypeOK
<1>5. InitOK'
  <2>1. p # kswapd
    BY InitsDiffer
  <2>2. state'[kswapd] = state[kswapd] /\ state'[initproc] \in Alive
    BY <1>4, <2>1, InitsDiffer DEF InitOK, Alive
  <2>3. /\ pc'[kswapd] = pc[kswapd] /\ pc'[initproc] = pc[initproc]
        /\ target'[initproc] = target[initproc]
    BY <1>1, <2>1, InitsDiffer DEF TypeOK, InitOK
  <2>4. \A u \in UserProc : state[u] = "UNINIT" => state'[u] = "UNINIT"
    BY <1>4, InitsDiffer
  <2>q. QED
    BY <1>1, <2>2, <2>3, <2>4 DEF InitOK, links
<1>6. \A q \in Proc : state'[q] = state[q] \/ (state[q] \in Alive /\ state'[q] \in Alive)
  BY <1>4 DEF Alive
<1>7. ASSUME NEW q \in Proc, wait_state'[q] = "WT_CHILD"
      PROVE  \/ wait_state[q] = "WT_CHILD" /\ target'[q] = target[q]
             \/ \A c \in Proc : state'[c] = "ZOMBIE" /\ parent[c] \in Ring(next, q)
                                  => target'[q] \notin {NULL, c}
  <2>1. CASE q # p
    BY <1>1, <1>7, <2>1 DEF TypeOK
  <2>2. CASE q = p
    <3>1. target'[q] = t
      BY <1>1, <2>2 DEF TypeOK
    <3>2. ASSUME NEW c \in Proc, state'[c] = "ZOMBIE", parent[c] \in Ring(next, q)
          PROVE  t \notin {NULL, c}
      <4>1. state[c] = "ZOMBIE"
        BY <1>4, <3>2
      <4>2. ~Candidate(p, t, c)
        BY <4>1
      <4>q. QED
        BY <2>2, <3>2, <4>1, <4>2 DEF Candidate
    <3>q. QED
      BY <3>1, <3>2
  <2>q. QED
    BY <2>1, <2>2
<1>8. UNCHANGED links
  BY <1>1
<1>q. QED
  BY <1>2, <1>3, <1>5, <1>6, <1>7, <1>8, QuietStep

\* do_wait finds no child; init always has kswapd.
LEMMA StepFails ==
    ASSUME Inv, NEW p \in Proc, p = initproc \/ p \in UserProc,
           NEW t \in UserProc \cup {NULL}, p = initproc => t = NULL,
           state[p] = "RUNNABLE",
           Fails(p), \A c \in Proc : ~Candidate(p, t, c)
    PROVE  Inv'
<1> USE DEF Inv
<1>1. /\ UNCHANGED <<state, wait_state, links>>
      /\ exiting' = Acted(p)
      /\ target' = [target EXCEPT ![p] = NULL]
      /\ pc' = [pc EXCEPT ![p] = AfterWait(p, TRUE)]
  BY DEF Fails
<1>2. p # initproc
  <2>1. initproc \in Ring(next, initproc)
    BY InitsDiffer, RingFacts DEF TypeOK
  <2>2. Candidate(initproc, NULL, kswapd)
    BY <2>1 DEF Candidate, InitOK
  <2>q. QED
    BY <2>2, InitsDiffer
<1>3. p \in UserProc /\ p # kswapd
  BY <1>2, InitsDiffer
<1>4. TypeOK'
  <2>1. pc' \in [Proc -> {"user", "wait", "exit", "done"}]
    BY <1>1 DEF TypeOK, AfterWait, ReturnPc
  <2>q. QED
    BY <1>1, <2>1 DEF TypeOK, Acted, links
<1>5. SleepOK'
  BY <1>1 DEF SleepOK
<1>6. InitOK'
  <2>1. /\ pc'[kswapd] = pc[kswapd] /\ pc'[initproc] = pc[initproc]
        /\ target'[initproc] = target[initproc] /\ exiting'[initproc] = exiting[initproc]
    BY <1>1, <1>2, <1>3, InitsDiffer DEF TypeOK, Acted
  <2>q. QED
    BY <1>1, <2>1 DEF InitOK, links
<1>7. \A q \in Proc : wait_state'[q] = "WT_CHILD" => wait_state[q] = "WT_CHILD" /\ target'[q] = target[q]
  <2>1. wait_state[p] = "0"
    BY DEF SleepOK
  <2>q. QED
    BY <1>1, <2>1 DEF TypeOK
<1>8. UNCHANGED links
  BY <1>1
<1>q. QED
  BY <1>1, <1>4, <1>5, <1>6, <1>7, <1>8, QuietStep

\* A round of do_wait, in each of these cases
LEMMA StepWaitRound ==
    ASSUME Inv, NEW p \in Proc, state[p] = "RUNNABLE", p = initproc \/ p \in UserProc,
           NEW t \in UserProc \cup {NULL}, p = initproc => t = NULL /\ pc[p] = "wait",
           WaitRound(p, t)
    PROVE  Inv'
<1>1. \/ \E z \in Proc : state[z] = "ZOMBIE" /\ Reaps(p, z)
      \/ Sleeps(p, t) /\ \A c \in Proc : Candidate(p, t, c) => state[c] # "ZOMBIE"
      \/ Fails(p) /\ \A c \in Proc : ~Candidate(p, t, c)
  BY WaitRoundCases
<1>q. QED
  BY <1>1, StepReaps, StepSleeps, StepFails

\* do_wait enters its loop.
LEMMA StepWait ==
    ASSUME Inv, NEW p \in Proc, NEW t \in UserProc \cup {NULL}, do_wait(p, t)
    PROVE  Inv'
<1>1. InUser(p) /\ WaitRound(p, t)
  BY DEF do_wait
<1>2. p \in UserProc /\ state[p] = "RUNNABLE" /\ p # initproc
  BY <1>1, InitsDiffer DEF InUser, Running
<1>q. QED
  BY <1>1, <1>2, StepWaitRound

\* do_wait goes on after a wakeup.
LEMMA StepWaitWakeup ==
    ASSUME Inv, NEW p \in Proc, wait_wakeup(p)
    PROVE  Inv'
<1> USE DEF Inv
<1>1. state[p] = "RUNNABLE" /\ pc[p] = "wait"
  BY DEF wait_wakeup, Running
<1>2. p = initproc \/ p \in UserProc
  BY <1>1 DEF InitOK, Proc
<1>3. CASE exiting[p]
  <2>1. /\ pc' = [pc EXCEPT ![p] = "exit"] /\ exiting' = Acted(p)
        /\ target' = [target EXCEPT ![p] = NULL]
        /\ UNCHANGED <<state, wait_state, links>>
    BY <1>3 DEF wait_wakeup
  <2>2. p # initproc /\ p # kswapd
    BY <1>1, <1>3, InitsDiffer DEF InitOK
  <2>3. TypeOK'
    BY <2>1 DEF TypeOK, Acted, links
  <2>4. SleepOK'
    BY <2>1 DEF SleepOK
  <2>5. InitOK'
    <3>1. /\ pc'[kswapd] = pc[kswapd] /\ pc'[initproc] = pc[initproc]
          /\ target'[initproc] = target[initproc] /\ exiting'[initproc] = exiting[initproc]
      BY <2>1, <2>2, InitsDiffer DEF TypeOK, Acted
    <3>q. QED
      BY <2>1, <3>1 DEF InitOK, links
  <2>6. \A q \in Proc : wait_state'[q] = "WT_CHILD" => wait_state[q] = "WT_CHILD" /\ target'[q] = target[q]
    <3>1. wait_state[p] = "0"
      BY <1>1 DEF SleepOK
    <3>q. QED
      BY <2>1, <3>1 DEF TypeOK
  <2>7. UNCHANGED links
    BY <2>1
  <2>q. QED
    BY <2>1, <2>3, <2>4, <2>5, <2>6, <2>7, QuietStep
<1>4. CASE ~exiting[p]
  <2>1. WaitRound(p, target[p])
    BY <1>4 DEF wait_wakeup
  <2>2. PICK t \in UserProc \cup {NULL} : t = target[p]
    BY DEF TypeOK
  <2>3. WaitRound(p, t)
    BY <2>1, <2>2, Zenon
  <2>4. p = initproc => t = NULL /\ pc[p] = "wait"
    BY <1>1, <2>2 DEF InitOK
  <2>q. QED
    BY <1>1, <1>2, <2>3, <2>4, StepWaitRound
<1>q. QED
  BY <1>3, <1>4

-----------------------------------------------------------------------------
\* Every step keeps the invariant ...
LEMMA NextInv ==
    Inv /\ [Next]_vars => Inv'
<1> SUFFICES ASSUME Inv, [Next]_vars PROVE Inv'
  OBVIOUS
<1>1. CASE UNCHANGED vars
  BY <1>1 DEF vars, links, Inv, TypeOK, ListsOK, RingsOK, SleepOK, InitOK, CountOK, WaitersOK
<1>2. CASE Next
  <2>1. PICK p \in Proc :
          \/ \E c \in UserProc, thread \in BOOLEAN : do_fork(p, c, thread)
          \/ do_execve(p)
          \/ \E q \in UserProc : do_kill(p, q)
          \/ do_exit(p)
          \/ do_exit_thread(p)
          \/ may_killed(p)
          \/ put_fs(p)
          \/ up(p)
          \/ ExitFinish(p)
          \/ \E t \in UserProc \cup {NULL} : do_wait(p, t)
          \/ wait_wakeup(p)
    BY <1>2 DEF Next
  <2>q. QED
    BY <2>1, StepFork, StepExecve, StepKill, StepExit, StepExitThread, StepPutFs, StepUp,
       StepExitFinish, StepWait, StepWaitWakeup
<1>q. QED
  BY <1>1, <1>2

\* ... and so it always holds.
LEMMA SpecInv ==
    Spec => []Inv
BY InitInv, NextInv, PTL DEF Spec

\* The lists of children, the way back through them, the rings of threads and
\* the count of processes stay consistent, for any number of processes.
THEOREM LinksAreConsistent == Spec => []LinksConsistent
BY SpecInv, InvLinks, PTL

\* The parent of a process is neither freed nor a zombie.
THEOREM ParentsAreAlive == Spec => []ParentAlive
BY SpecInv, InvParent, PTL

\* Nobody sleeps in do_wait while there is a zombie it waits for.
THEOREM NoZombieIsMissed == Spec => []NoZombieMissed
BY SpecInv, InvWaiters, PTL

\* The assertions at the end of init_main hold.
THEOREM InitChecksHold == Spec => []InitChecks
BY SpecInv, InvInit, PTL

-----------------------------------------------------------------------------
(* The wait for a kernel semaphore.                                         *)

\* A step of p leaves those alone who wait for a semaphore, unless it is up.
LEMMA KsemStep ==
    ASSUME Inv, NEW p \in Proc,
           \/ \E c \in UserProc, thread \in BOOLEAN : do_fork(p, c, thread)
           \/ do_execve(p)
           \/ \E q \in UserProc : do_kill(p, q)
           \/ do_exit(p)
           \/ do_exit_thread(p)
           \/ may_killed(p)
           \/ put_fs(p)
           \/ ExitFinish(p)
           \/ \E t \in UserProc \cup {NULL} : do_wait(p, t)
           \/ wait_wakeup(p),
           NEW q \in Proc, wait_state[q] = "WT_KSEM"
    PROVE  wait_state'[q] = "WT_KSEM"
<1> USE DEF Inv
<1>1. state[q] = "SLEEPING"
  BY DEF SleepOK
<1>2. CASE \/ \E c \in UserProc, thread \in BOOLEAN : do_fork(p, c, thread)
           \/ do_execve(p) \/ do_exit_thread(p) \/ may_killed(p)
  BY <1>2 DEF do_fork, do_execve, do_exit_thread, may_killed
<1>3. CASE \E k \in UserProc : do_kill(p, k)
  BY <1>3 DEF do_kill, WakeWait, Woken
<1>4. CASE do_exit(p)
  BY <1>4 DEF do_exit, WakeWait, Woken
<1>5. CASE put_fs(p)
  BY <1>1, <1>5 DEF put_fs, Exiting, Running, TypeOK
<1>6. CASE ExitFinish(p)
  <2>1. PICK S : S = WokenParents(p) \cup WokenHeir(p) /\ wait_state' = WakeWait(S)
    BY <1>6 DEF ExitFinish
  <2>2. q \notin S
    BY <2>1 DEF WokenParents, WokenHeir
  <2>q. QED
    BY <2>1, <2>2 DEF WakeWait
<1>7. ASSUME NEW t, WaitRound(p, t), state[p] = "RUNNABLE" PROVE wait_state'[q] = "WT_KSEM"
  <2>1. wait_state' = wait_state \/ wait_state' = [wait_state EXCEPT ![p] = "WT_CHILD"]
    BY <1>7 DEF WaitRound
  <2>2. q # p
    BY <1>1, <1>7
  <2>q. QED
    BY <2>1, <2>2 DEF TypeOK
<1>8. CASE \E t \in UserProc \cup {NULL} : do_wait(p, t)
  BY <1>7, <1>8 DEF do_wait, InUser, Running
<1>9. CASE wait_wakeup(p)
  BY <1>7, <1>9 DEF wait_wakeup, Running
<1>q. QED
  BY <1>2, <1>3, <1>4, <1>5, <1>6, <1>8, <1>9

\* Who is in the queue waits for the semaphore.
KsemOK == ksem \subseteq Proc /\ \A q \in ksem : wait_state[q] = "WT_KSEM"

\* The queue changes by put_fs and up alone.
LEMMA KsemFrame ==
    ASSUME NEW p \in Proc,
           \/ \E c \in UserProc, thread \in BOOLEAN : do_fork(p, c, thread)
           \/ do_execve(p)
           \/ \E q \in UserProc : do_kill(p, q)
           \/ do_exit(p)
           \/ do_exit_thread(p)
           \/ may_killed(p)
           \/ ExitFinish(p)
           \/ \E t \in UserProc \cup {NULL} : do_wait(p, t)
           \/ wait_wakeup(p)
    PROVE  ksem' = ksem
<1>1. ASSUME NEW t, WaitRound(p, t) PROVE ksem' = ksem
  BY <1>1 DEF WaitRound
<1>2. CASE \E t \in UserProc \cup {NULL} : do_wait(p, t)
  BY <1>1, <1>2 DEF do_wait
<1>3. CASE wait_wakeup(p)
  BY <1>1, <1>3 DEF wait_wakeup
<1>4. CASE \/ \E c \in UserProc, thread \in BOOLEAN : do_fork(p, c, thread)
           \/ do_execve(p) \/ do_exit_thread(p) \/ may_killed(p)
  BY <1>4 DEF do_fork, do_execve, do_exit_thread, may_killed
<1>5. CASE (\E q \in UserProc : do_kill(p, q)) \/ do_exit(p) \/ ExitFinish(p)
  BY <1>5 DEF do_kill, do_exit, ExitFinish
<1>q. QED
  BY <1>2, <1>3, <1>4, <1>5

\* put_fs puts a process into the queue that waits from then on, up takes the one
\* out that it wakes, and no other step wakes one of the queue.
LEMMA KsemNext ==
    ASSUME Inv, KsemOK, Next
    PROVE  KsemOK'
<1>1. PICK p \in Proc :
        \/ \E c \in UserProc, thread \in BOOLEAN : do_fork(p, c, thread)
        \/ do_execve(p)
        \/ \E q \in UserProc : do_kill(p, q)
        \/ do_exit(p)
        \/ do_exit_thread(p)
        \/ may_killed(p)
        \/ put_fs(p)
        \/ up(p)
        \/ ExitFinish(p)
        \/ \E t \in UserProc \cup {NULL} : do_wait(p, t)
        \/ wait_wakeup(p)
  BY DEF Next
<1>2. CASE up(p)
  <2>1. ksem' = ksem \ {p} /\ wait_state' = WakeWait({p})
    BY <1>2 DEF up
  <2>2. \A q \in Proc : q # p => wait_state'[q] = wait_state[q]
    BY <2>1 DEF WakeWait
  <2>q. QED
    BY <2>1, <2>2 DEF KsemOK
<1>3. CASE put_fs(p)
  <2>1. ksem' = ksem \cup {p} /\ wait_state'[p] = "WT_KSEM"
    BY <1>3 DEF put_fs, Inv, TypeOK
  <2>2. \A q \in Proc : wait_state[q] = "WT_KSEM" => wait_state'[q] = "WT_KSEM"
    BY <1>3, KsemStep
  <2>q. QED
    BY <2>1, <2>2 DEF KsemOK
<1>4. CASE ~up(p) /\ ~put_fs(p)
  <2>1. ksem' = ksem
    BY <1>1, <1>4, KsemFrame
  <2>2. \A q \in Proc : wait_state[q] = "WT_KSEM" => wait_state'[q] = "WT_KSEM"
    BY <1>1, <1>4, KsemStep
  <2>q. QED
    BY <2>1, <2>2 DEF KsemOK
<1>q. QED
  BY <1>2, <1>3, <1>4

\* Who waits for a kernel semaphore sleeps until up takes it out of the queue: no
\* kill and no exit wakes it, for any number of processes.
THEOREM KsemIsUndisturbed == Spec => []KsemUndisturbed
<1>1. Init => KsemOK
  BY DEF Init, KsemOK
<1>2. Inv /\ KsemOK /\ [Next]_vars => KsemOK'
  <2>1. CASE UNCHANGED vars
    BY <2>1 DEF vars, KsemOK
  <2>q. QED
    BY <2>1, KsemNext
<1>3. Inv /\ KsemOK => KsemUndisturbed
  BY DEF Inv, SleepOK, KsemOK, KsemUndisturbed
<1>q. QED
  BY <1>1, <1>2, <1>3, SpecInv, PTL DEF Spec

-----------------------------------------------------------------------------
(* The pids, and the loop of get_pid.                                       *)

\* The processes before the i-th have neither last nor a pid between last and
\* safe.
Scanned(s) ==
    \A j \in 1 .. s.i - 1 : proc_list[j] < s.last \/ proc_list[j] >= s.safe

States ==
    {s \in [i : Nat, last : Nat, safe : Nat] :
        /\ s.i >= 1 /\ s.i <= Len(proc_list) + 1
        /\ s.last >= 1 /\ s.last < s.safe /\ s.safe <= MaxPid
        /\ Scanned(s)}

\* The distance from a pid to a free one, with the wrap-around to 1
Distance(x, f) == IF f >= x THEN f - x ELSE f - x + (MaxPid - 1)

\* What is left to do for the loop.
Left(s, f) == Distance(s.last, f) * (Len(proc_list) + 1) + (Len(proc_list) + 1 - s.i)

ListOK == proc_list \in Seq(Nat)

\* A turn keeps the loop's invariant, and until the end of the list it comes
\* nearer to it.
LEMMA TurnOK ==
    ASSUME ListOK, NEW f \in Nat, 1 <= f, f < MaxPid,
           \A j \in 1 .. Len(proc_list) : proc_list[j] # f,
           NEW s \in States
    PROVE  /\ Turn(s) \in States
           /\ s.i > Len(proc_list) => Turn(s) = s
           /\ s.i <= Len(proc_list) => Left(Turn(s), f) <= Left(s, f) - 1
<1> DEFINE n == Len(proc_list)
           t == Turn(s)
<1>1. MaxPid \in Nat
  BY PidAssumption
<1>2. n \in Nat /\ \A j \in 1 .. n : proc_list[j] \in Nat
  BY DEF ListOK
<1>3. /\ s \in [i : Nat, last : Nat, safe : Nat] /\ s.i >= 1 /\ s.i <= n + 1
      /\ s.last >= 1 /\ s.last < s.safe /\ s.safe <= MaxPid
      /\ \A j \in 1 .. s.i - 1 : proc_list[j] < s.last \/ proc_list[j] >= s.safe
  BY DEF States, Scanned
<1>4. CASE s.i > n
  BY <1>2, <1>3, <1>4 DEF Turn
<1>5. CASE s.i <= n
  <2>1. PICK k \in 1 .. n : k = s.i
    BY <1>2, <1>3, <1>5
  <2>2. PICK x \in Nat : x = proc_list[k] /\ x # f
    BY <1>2, <2>1
  <2>3. ~(s.i > n)
    BY <1>2, <1>3, <1>5
  <2>a. PICK a \in Nat : a = s.last
    BY <1>3
  <2>b. PICK b \in Nat : b = s.safe
    BY <1>3
  <2>c. a >= 1 /\ a < b /\ b <= MaxPid
    BY <1>3, <2>a, <2>b
  <2>4. CASE x = s.last /\ s.last + 1 >= s.safe
    <3> DEFINE l == IF s.last + 1 >= MaxPid THEN 1 ELSE s.last + 1
    <3>1. t = [i |-> 1, last |-> l, safe |-> MaxPid]
      BY <1>3, <1>5, <2>1, <2>2, <2>4 DEF Turn
    <3>2. l \in Nat /\ l >= 1 /\ l < MaxPid
      BY <1>1, <1>3
    <3>3. t \in [i : Nat, last : Nat, safe : Nat] /\ t.i = 1 /\ t.last = l /\ t.safe = MaxPid
      BY <1>1, <3>1, <3>2
    <3>4. t \in States
      <4>1. \A j : j \notin 1 .. 1 - 1
        OBVIOUS
      <4>2. Scanned(t)
        BY <3>3, <4>1 DEF Scanned
      <4> HIDE DEF l, t
      <4>q. QED
        BY <1>1, <1>2, <3>2, <3>3, <4>2 DEF States
    <3>5. Distance(l, f) = Distance(s.last, f) - 1
      <4>1. l = IF a + 1 >= MaxPid THEN 1 ELSE a + 1
        BY <2>a
      <4>2. a # f
        BY <2>2, <2>4, <2>a
      <4> HIDE DEF l
      <4>3. Distance(l, f) = Distance(a, f) - 1
        BY <1>1, <2>c, <4>1, <4>2 DEF Distance
      <4>q. QED
        BY <2>a, <4>3
    <3>6. Left(t, f) <= Left(s, f) - 1
      <4>1. PICK d \in Int : d = Distance(s.last, f)
        BY <1>1, <1>3 DEF Distance
      <4>2. Left(s, f) = d * (n + 1) + (n + 1 - k)
        BY <2>1, <4>1 DEF Left
      <4>3. Left(t, f) = (d - 1) * (n + 1) + (n + 1 - 1)
        BY <3>3, <3>5, <4>1 DEF Left
      <4>4. (d - 1) * (n + 1) = d * (n + 1) - (n + 1)
        BY <1>2, <4>1
      <4>5. d * (n + 1) \in Int
        BY <1>2
      <4>q. QED
        BY <1>2, <2>1, <4>2, <4>3, <4>4, <4>5
    <3>q. QED
      BY <2>3, <3>4, <3>6, Zenon
  <2>5. CASE x = s.last /\ ~(s.last + 1 >= s.safe)
    <3>1. t = [i |-> k + 1, last |-> s.last + 1, safe |-> s.safe]
      BY <1>3, <1>5, <2>1, <2>2, <2>5 DEF Turn
    <3>2. t \in [i : Nat, last : Nat, safe : Nat] /\ t.i = k + 1 /\ t.last = s.last + 1 /\ t.safe = s.safe
      BY <1>3, <2>1, <3>1
    <3>3. t \in States
      <4>1. ASSUME NEW j \in 1 .. k PROVE proc_list[j] < s.last + 1 \/ proc_list[j] >= s.safe
        <5>1. CASE j = k
          <6>1. proc_list[j] = a
            BY <2>2, <2>5, <2>a, <5>1, Zenon
          <6>2. s.last + 1 = a + 1 /\ a < a + 1
            BY <2>a
          <6>q. QED
            BY <6>1, <6>2
        <5>2. CASE j # k
          <6>1. j \in 1 .. k - 1 /\ j \in 1 .. n
            BY <1>2, <2>1, <5>2
          <6>q. QED
            BY <1>2, <1>3, <2>1, <6>1
        <5>q. QED
          BY <5>1, <5>2
      <4>2. Scanned(t)
        BY <2>1, <3>2, <4>1 DEF Scanned
      <4> HIDE DEF t
      <4>q. QED
        BY <1>1, <1>2, <1>3, <2>1, <2>5, <3>2, <4>2 DEF States
    <3>4. Distance(s.last + 1, f) = Distance(s.last, f) - 1
      <4>1. a # f
        BY <2>2, <2>5, <2>a
      <4>2. Distance(a + 1, f) = Distance(a, f) - 1
        BY <1>1, <2>c, <4>1 DEF Distance
      <4>q. QED
        BY <2>a, <4>2
    <3>5. Left(t, f) <= Left(s, f) - 1
      <4>1. PICK d \in Int : d = Distance(s.last, f)
        BY <1>1, <1>3 DEF Distance
      <4>2. Left(s, f) = d * (n + 1) + (n + 1 - k)
        BY <2>1, <4>1 DEF Left
      <4>3. Left(t, f) = (d - 1) * (n + 1) + (n + 1 - (k + 1))
        BY <3>2, <3>4, <4>1 DEF Left
      <4>4. (d - 1) * (n + 1) = d * (n + 1) - (n + 1)
        BY <1>2, <4>1
      <4>5. d * (n + 1) \in Int
        BY <1>2
      <4>q. QED
        BY <1>2, <2>1, <4>2, <4>3, <4>4, <4>5
    <3>q. QED
      BY <2>3, <3>3, <3>5, Zenon
  <2>6. CASE x # s.last
    <3> DEFINE e == IF x > s.last /\ s.safe > x THEN x ELSE s.safe
    <3>1. t = [i |-> k + 1, last |-> s.last, safe |-> e]
      BY <1>3, <1>5, <2>1, <2>2, <2>6 DEF Turn
    <3>2. e \in Nat /\ e > s.last /\ e <= s.safe /\ (x < s.last \/ x >= e)
      BY <1>3, <2>2, <2>6
    <3>3. t \in [i : Nat, last : Nat, safe : Nat] /\ t.i = k + 1 /\ t.last = s.last /\ t.safe = e
      BY <1>3, <2>1, <3>1, <3>2
    <3> HIDE DEF e
    <3>4. t \in States
      <4>1. ASSUME NEW j \in 1 .. k PROVE proc_list[j] < s.last \/ proc_list[j] >= e
        <5>1. CASE j = k
          BY <1>3, <2>2, <3>2, <5>1
        <5>2. CASE j # k
          <6>1. j \in 1 .. k - 1 /\ j \in 1 .. n
            BY <1>2, <2>1, <5>2
          <6>2. proc_list[j] \in Nat /\ (proc_list[j] < s.last \/ proc_list[j] >= s.safe)
            BY <1>2, <1>3, <2>1, <6>1
          <6>q. QED
            BY <1>3, <3>2, <6>2
        <5>q. QED
          BY <5>1, <5>2
      <4>2. Scanned(t)
        BY <2>1, <3>3, <4>1 DEF Scanned
      <4> HIDE DEF t
      <4>q. QED
        BY <1>1, <1>2, <1>3, <2>1, <3>2, <3>3, <4>2 DEF States
    <3>5. Left(t, f) <= Left(s, f) - 1
      <4>1. PICK d \in Int : d = Distance(s.last, f)
        BY <1>1, <1>3 DEF Distance
      <4>2. Left(s, f) = d * (n + 1) + (n + 1 - k)
        BY <2>1, <4>1 DEF Left
      <4>3. Left(t, f) = d * (n + 1) + (n + 1 - (k + 1))
        BY <3>3, <4>1 DEF Left
      <4>4. d * (n + 1) \in Int
        BY <1>2
      <4>q. QED
        BY <1>2, <2>1, <4>2, <4>3, <4>4
    <3>q. QED
      BY <2>3, <3>4, <3>5, Zenon
  <2>q. QED
    BY <2>4, <2>5, <2>6
<1>q. QED
  BY <1>2, <1>3, <1>4, <1>5

\* There is a free pid as long as do_fork lets another process in.
LEMMA FreePid ==
    ASSUME ListOK, Len(proc_list) + LcpuCount < MaxProcess
    PROVE  \E f \in 1 .. MaxPid - 1 : \A j \in 1 .. Len(proc_list) : proc_list[j] # f
<1> DEFINE n == Len(proc_list)
<1> SUFFICES ASSUME \A f \in 1 .. MaxPid - 1 : \E j \in 1 .. n : proc_list[j] = f
             PROVE  FALSE
  OBVIOUS
<1>1. n \in Nat /\ n \in Int /\ 1 \in Int /\ MaxPid - 1 \in Int /\ n < MaxPid - 1
  BY PidAssumption DEF ListOK
<1> HIDE DEF n
<1> DEFINE S == 1 .. MaxPid - 1
           T == 1 .. n
           g == [f \in S |-> CHOOSE j \in T : proc_list[j] = f]
<1>2. g \in [S -> T] /\ \A f \in S : proc_list[g[f]] = f
  OBVIOUS
<1>3. IsFiniteSet(S) /\ Cardinality(S) = MaxPid - 1
  BY <1>1, FS_Interval
<1>4. IsFiniteSet(T) /\ Cardinality(T) = n
  BY <1>1, FS_Interval
<1>5. Cardinality(T) < Cardinality(S)
  BY <1>1, <1>3, <1>4
<1> HIDE DEF S, T, g
<1>6. PICK x, y \in S : x # y /\ g[x] = g[y]
  BY <1>2, <1>3, <1>4, <1>5, FS_PigeonHole
<1>q. QED
  BY <1>2, <1>6

IsScan(v, last) ==
    v = [n \in 0 .. Turns |->
            IF n = 0 THEN [i |-> 1, last |-> last, safe |-> MaxPid] ELSE Turn(v[n - 1])]

\* Turns map States to States, so there is a function that applies one after
\* the other.
LEMMA ScanExists ==
    ASSUME NEW last, Turns \in Nat, [i |-> 1, last |-> last, safe |-> MaxPid] \in States,
           \A s \in States : Turn(s) \in States
    PROVE  \E v \in [0 .. Turns -> States] : IsScan(v, last)
<1> DEFINE start == [i |-> 1, last |-> last, safe |-> MaxPid]
           G(f, k) == f[k] = IF k = 0 THEN start ELSE Turn(f[k - 1])
           S == {n \in 0 .. Turns : \E f \in [0 .. n -> States] : \A k \in 0 .. n : G(f, k)}
<1> HIDE DEF start
<1>0. start \in States
  BY DEF start
<1>2. 0 \in S
  <2> DEFINE g == [k \in 0 .. 0 |-> start]
  <2>1. g \in [0 .. 0 -> States]
    BY <1>0
  <2>2. \A k \in 0 .. 0 : G(g, k)
    OBVIOUS
  <2> HIDE DEF g
  <2>q. QED
    BY <2>1, <2>2
<1>3. \A n \in 0 .. Turns - 1 : n \in S => n + 1 \in S
  <2> TAKE n \in 0 .. Turns - 1
  <2> HAVE n \in S
  <2>1. PICK f \in [0 .. n -> States] : \A k \in 0 .. n : G(f, k)
    OBVIOUS
  <2> DEFINE g == [k \in 0 .. n + 1 |-> IF k \in 0 .. n THEN f[k] ELSE Turn(f[n])]
  <2>2. n \in 0 .. n /\ n + 1 \in 0 .. Turns /\ n \in Nat
    OBVIOUS
  <2>3. Turn(f[n]) \in States
    BY <2>2
  <2>4. g \in [0 .. n + 1 -> States]
    BY <2>2, <2>3
  <2>5. ASSUME NEW k \in 0 .. n + 1 PROVE G(g, k)
    <3>1. CASE k \in 0 .. n
      <4>1. g[k] = f[k] /\ (k # 0 => k - 1 \in 0 .. n /\ g[k - 1] = f[k - 1])
        BY <2>2, <3>1
      <4>q. QED
        BY <2>1, <3>1, <4>1
    <3>2. CASE k \notin 0 .. n
      <4>1. k = n + 1 /\ k # 0 /\ k - 1 = n
        BY <2>2, <3>2
      <4>2. g[k - 1] = f[n]
        BY <2>2, <4>1
      <4>3. g[k] = Turn(f[n])
        BY <3>2
      <4>q. QED
        BY <4>1, <4>2, <4>3
    <3>q. QED
      BY <3>1, <3>2
  <2> HIDE DEF g
  <2>q. QED
    BY <2>2, <2>4, <2>5
<1>4. \A n \in 0 .. Turns : n \in S
  <2> HIDE DEF S
  <2>q. QED
    BY <1>2, <1>3, Upwards
<1>5. PICK v \in [0 .. Turns -> States] : \A k \in 0 .. Turns : G(v, k)
  <2> HIDE DEF G
  <2>1. Turns \in 0 .. Turns
    OBVIOUS
  <2>q. QED
    BY <1>4, <2>1
<1>6. IsScan(v, last)
  BY <1>5 DEF IsScan, start
<1>q. QED
  BY <1>6

\* The numbers of turns: what is left at the start is less than the bound.
LEMMA TurnsSuffice ==
    ASSUME NEW m \in Nat, NEW k \in Nat, NEW n \in Nat, NEW d \in Nat,
           n + 1 <= k, d <= m - 2
    PROVE  d * (n + 1) + n < m * k
<1>1. d * (n + 1) <= (m - 2) * (n + 1)
  <2>1. PICK e \in Nat : m - 2 = d + e
    BY m - 2 - d \in Nat
  <2>2. (d + e) * (n + 1) = d * (n + 1) + e * (n + 1)
    BY <2>1
  <2>3. e * (n + 1) \in Nat /\ d * (n + 1) \in Nat
    OBVIOUS
  <2>q. QED
    BY <2>1, <2>2, <2>3
<1>2. (m - 2) * (n + 1) = m * (n + 1) - 2 * (n + 1)
  OBVIOUS
<1>3. m * (n + 1) <= m * k
  <2>1. PICK e \in Nat : k = (n + 1) + e
    BY k - (n + 1) \in Nat
  <2>2. m * ((n + 1) + e) = m * (n + 1) + m * e
    OBVIOUS
  <2>3. m * e \in Nat /\ m * (n + 1) \in Nat
    OBVIOUS
  <2>q. QED
    BY <2>1, <2>2, <2>3
<1>4. PICK a \in Nat, b \in Nat, c \in Nat : a = d * (n + 1) /\ b = m * (n + 1) /\ c = m * k
  OBVIOUS
<1>5. a <= b - 2 * (n + 1) /\ b <= c
  BY <1>1, <1>2, <1>3, <1>4
<1>6. a + n < c
  BY <1>5
<1>q. QED
  BY <1>4, <1>6

\* The scan ends, with a pid that nobody has and no pid between it and safe.
LEMMA ScanOK ==
    ASSUME ListOK, Len(proc_list) + LcpuCount < MaxProcess,
           NEW last \in Nat, 1 <= last, last < MaxPid
    PROVE  /\ Scan(last) \in States
           /\ \A j \in 1 .. Len(proc_list) :
                proc_list[j] < Scan(last).last \/ proc_list[j] >= Scan(last).safe
<1> DEFINE n == Len(proc_list)
           start == [i |-> 1, last |-> last, safe |-> MaxPid]
           w == CHOOSE w : IsScan(w, last)
<1>1. /\ MaxPid \in Nat /\ MaxProcess \in Nat /\ LcpuCount \in Nat /\ n \in Nat
      /\ n + 1 <= MaxProcess
  BY PidAssumption DEF ListOK
<1>2. Turns = MaxPid * MaxProcess /\ Turns \in Nat
  BY <1>1 DEF Turns
<1>3. PICK f \in 1 .. MaxPid - 1 : \A j \in 1 .. n : proc_list[j] # f
  BY FreePid
<1>3a. f \in Nat /\ 1 <= f /\ f < MaxPid
  BY <1>1, <1>3
<1>4. start \in States
  <2>1. start \in [i : Nat, last : Nat, safe : Nat]
    BY <1>1
  <2>2. start.i = 1 /\ start.last = last /\ start.safe = MaxPid
    OBVIOUS
  <2>3. \A j : j \notin 1 .. 1 - 1
    OBVIOUS
  <2>4. Scanned(start)
    BY <2>2, <2>3 DEF Scanned
  <2> HIDE DEF start
  <2>q. QED
    BY <1>1, <2>1, <2>2, <2>4 DEF States
<1>5. \A s \in States : /\ Turn(s) \in States
                        /\ s.i > n => Turn(s) = s
                        /\ s.i <= n => Left(Turn(s), f) <= Left(s, f) - 1
  BY <1>3, <1>3a, TurnOK
<1>6. Scan(last) = w[Turns]
  BY DEF Scan, IsScan
<1>7. IsScan(w, last)
  <2>1. \E v : IsScan(v, last)
    BY <1>2, <1>4, <1>5, ScanExists
  <2>q. QED
    BY <2>1, Zenon
<1> HIDE DEF w
<1>8. w[0] = start /\ \A k \in 0 .. Turns - 1 : w[k + 1] = Turn(w[k])
  <2>1. 0 \in 0 .. Turns
    BY <1>2
  <2>2. \A k \in 0 .. Turns - 1 : k + 1 \in 0 .. Turns /\ k + 1 # 0 /\ (k + 1) - 1 = k
    BY <1>2
  <2>q. QED
    BY <1>7, <2>1, <2>2 DEF IsScan
<1> HIDE DEF n, start
<1>9. ASSUME NEW s \in States
      PROVE  /\ s.i \in Nat /\ s.i <= n + 1
             /\ \E d \in Nat : /\ d <= MaxPid - 2
                               /\ Left(s, f) = d * (n + 1) + (n + 1 - s.i)
  <2>1. s.i \in Nat /\ s.i <= n + 1 /\ s.last \in Nat /\ s.last >= 1 /\ s.last < MaxPid
    BY <1>1 DEF States, n
  <2>2. Distance(s.last, f) \in Nat /\ Distance(s.last, f) <= MaxPid - 2
    <3>1. PICK a \in Nat : a = s.last /\ a >= 1 /\ a < MaxPid
      BY <2>1
    <3>2. Distance(a, f) \in Nat /\ Distance(a, f) <= MaxPid - 2
      BY <1>1, <1>3a, <3>1 DEF Distance
    <3>q. QED
      BY <3>1, <3>2
  <2>q. QED
    BY <2>1, <2>2 DEF Left, n
<1>10. ASSUME NEW s \in States PROVE Left(s, f) \in Nat
  <2>1. PICK d \in Nat : Left(s, f) = d * (n + 1) + (n + 1 - s.i)
    BY <1>9
  <2>2. s.i \in Nat /\ s.i <= n + 1
    BY <1>9
  <2>3. d * (n + 1) \in Nat /\ n + 1 - s.i \in Nat
    BY <1>1, <2>2
  <2>q. QED
    BY <2>1, <2>3
<1>11. Left(start, f) < Turns
  <2>1. PICK d \in Nat : d <= MaxPid - 2 /\ Left(start, f) = d * (n + 1) + (n + 1 - start.i)
    BY <1>4, <1>9
  <2>2. n + 1 - start.i = n
    BY <1>1 DEF start
  <2>3. d * (n + 1) + n < MaxPid * MaxProcess
    BY <1>1, <2>1, TurnsSuffice
  <2>q. QED
    BY <1>2, <2>1, <2>2, <2>3
<1> DEFINE A == {k \in 0 .. Turns : /\ w[k] \in States
                                    /\ w[k].i > n \/ Left(w[k], f) <= Left(start, f) - k}
<1>12. 0 \in A
  BY <1>2, <1>4, <1>8, <1>10
<1>13. \A k \in 0 .. Turns - 1 : k \in A => k + 1 \in A
  <2> TAKE k \in 0 .. Turns - 1
  <2> HAVE k \in A
  <2>1. k + 1 \in 0 .. Turns /\ k \in Nat
    BY <1>2
  <2>a. w[k] \in States /\ w[k + 1] = Turn(w[k])
    BY <1>8
  <2>2. w[k] \in States /\ w[k + 1] = Turn(w[k]) /\ w[k + 1] \in States /\ w[k].i \in Nat
    BY <1>5, <1>9, <2>a
  <2>3. CASE w[k].i > n
    BY <1>5, <2>1, <2>2, <2>3
  <2>4. CASE ~(w[k].i > n)
    <3>1. Left(w[k + 1], f) <= Left(w[k], f) - 1
      BY <1>1, <1>5, <2>2, <2>4
    <3>2. Left(w[k], f) <= Left(start, f) - k
      BY <2>4
    <3>3. Left(w[k + 1], f) \in Nat /\ Left(w[k], f) \in Nat /\ Left(start, f) \in Nat
      BY <1>4, <1>10, <2>2
    <3>4. Left(w[k + 1], f) <= Left(start, f) - (k + 1)
      BY <2>1, <3>1, <3>2, <3>3
    <3>q. QED
      BY <2>1, <2>2, <3>4
  <2>q. QED
    BY <2>3, <2>4
<1>14. Turns \in A
  <2> HIDE DEF A
  <2>1. \A k \in 0 .. Turns : k \in A
    BY <1>2, <1>12, <1>13, Upwards
  <2>q. QED
    BY <1>2, <2>1
<1>15a. w[Turns] \in States /\ (w[Turns].i > n \/ Left(w[Turns], f) <= Left(start, f) - Turns)
  BY <1>14, Zenon
<1> DEFINE s == w[Turns]
<1> HIDE DEF s
<1>15. s \in States /\ (s.i > n \/ Left(s, f) <= Left(start, f) - Turns)
  BY <1>15a, Zenon DEF s
<1>16. s.i > n
  <2>1. Left(s, f) \in Nat /\ Left(start, f) \in Nat
    BY <1>4, <1>10, <1>15
  <2>q. QED
    BY <1>2, <1>11, <1>15, <2>1
<1>17. s.i \in Nat /\ \A j \in 1 .. n : j \in 1 .. s.i - 1
  BY <1>1, <1>9, <1>15, <1>16
<1>18. \A j \in 1 .. n : proc_list[j] < s.last \/ proc_list[j] >= s.safe
  BY <1>15, <1>17 DEF States, Scanned
<1>q. QED
  BY <1>6, <1>15, <1>18 DEF s, n

\* The inductive invariant of the allocation.
PidInv ==
    /\ ListOK
    /\ last_pid \in Nat /\ last_pid >= 1 /\ next_safe \in Nat
    /\ UniquePid
    /\ WindowIsFree

\* get_pid returns a pid that no process has, and a window that is free.
LEMMA GetPidOK ==
    ASSUME PidInv, Len(proc_list) + LcpuCount < MaxProcess
    PROVE  /\ get_pid.last \in Nat /\ get_pid.last >= 1 /\ get_pid.safe \in Nat
           /\ \A j \in 1 .. Len(proc_list) :
                /\ proc_list[j] # get_pid.last
                /\ ~(get_pid.last < proc_list[j] /\ proc_list[j] < get_pid.safe)
<1> USE DEF PidInv
<1>1. /\ MaxPid \in Nat /\ MaxProcess \in Nat /\ LcpuCount \in Nat /\ LcpuCount >= 1
      /\ Len(proc_list) \in Nat /\ LcpuCount < MaxPid
      /\ \A j \in 1 .. Len(proc_list) : proc_list[j] \in Nat
  BY PidAssumption DEF ListOK
<1>2. ASSUME NEW last \in Nat, 1 <= last, last < MaxPid, get_pid = Scan(last)
      PROVE  /\ get_pid.last \in Nat /\ get_pid.last >= 1 /\ get_pid.safe \in Nat
             /\ \A j \in 1 .. Len(proc_list) :
                  /\ proc_list[j] # get_pid.last
                  /\ ~(get_pid.last < proc_list[j] /\ proc_list[j] < get_pid.safe)
  <2>1. PICK s : s = get_pid
    OBVIOUS
  <2>2. s \in States /\ \A j \in 1 .. Len(proc_list) : proc_list[j] < s.last \/ proc_list[j] >= s.safe
    BY <1>2, <2>1, ScanOK
  <2>3. s.last \in Nat /\ s.last >= 1 /\ s.safe \in Nat /\ s.last < s.safe
    BY <2>2 DEF States
  <2>q. QED
    BY <1>1, <2>1, <2>2, <2>3
<1>3. CASE last_pid + 1 >= MaxPid
  BY <1>1, <1>2, <1>3 DEF get_pid
<1>4. CASE ~(last_pid + 1 >= MaxPid) /\ last_pid + 1 >= next_safe
  <2>1. last_pid + 1 \in Nat /\ 1 <= last_pid + 1 /\ last_pid + 1 < MaxPid
    BY <1>1, <1>4
  <2>2. get_pid = Scan(last_pid + 1)
    BY <1>4 DEF get_pid
  <2>q. QED
    BY <1>2, <2>1, <2>2
<1>5. CASE ~(last_pid + 1 >= MaxPid) /\ ~(last_pid + 1 >= next_safe)
  <2>1. get_pid.last = last_pid + 1 /\ get_pid.safe = next_safe
    BY <1>5 DEF get_pid
  <2>q. QED
    BY <1>1, <1>5, <2>1 DEF WindowIsFree
<1>q. QED
  BY <1>3, <1>4, <1>5

\* do_fork and do_wait keep the invariant.
LEMMA PidStep ==
    ASSUME PidInv, [PidNext]_pidVars
    PROVE  PidInv'
<1>1. CASE UNCHANGED pidVars
  BY <1>1 DEF pidVars, PidInv, ListOK, UniquePid, WindowIsFree, IsInjective
<1>2. CASE do_fork_pid
  <2>1. PICK l \in Nat : l = get_pid.last /\ l >= 1
    BY <1>2, GetPidOK DEF do_fork_pid
  <2>2. PICK e \in Nat : e = get_pid.safe
    BY <1>2, GetPidOK DEF do_fork_pid
  <2>3. last_pid' = l /\ next_safe' = e /\ proc_list' = <<l>> \o proc_list
    BY <1>2, <2>1, <2>2 DEF do_fork_pid
  <2>4. \A x \in ToSet(proc_list) : x # l /\ ~(l < x /\ x < e)
    <3>1. \A j \in 1 .. Len(proc_list) : proc_list[j] # l /\ ~(l < proc_list[j] /\ proc_list[j] < e)
      BY <1>2, <2>1, <2>2, GetPidOK DEF do_fork_pid
    <3>q. QED
      BY <3>1 DEF ToSet, PidInv, ListOK
  <2>5. proc_list \in Seq(Nat) /\ IsInjective(proc_list)
    BY DEF PidInv, ListOK, UniquePid
  <2>6. /\ proc_list' \in Seq(Nat) /\ IsInjective(proc_list')
        /\ ToSet(proc_list') = ToSet(proc_list) \cup {l}
    BY <2>3, <2>4, <2>5, QueueFront
  <2>7. \A j \in 1 .. Len(proc_list') : proc_list'[j] \in ToSet(proc_list')
    BY <2>6 DEF ToSet
  <2>8. ~(l < l /\ l < e)
    BY <2>1
  <2>9. \A j \in 1 .. Len(proc_list') : ~(l < proc_list'[j] /\ proc_list'[j] < e)
    BY <2>4, <2>6, <2>7, <2>8
  <2>q. QED
    BY <2>1, <2>3, <2>6, <2>9 DEF PidInv, ListOK, UniquePid, WindowIsFree
<1>3. CASE do_wait_pid
  <2>1. PICK i \in 1 .. Len(proc_list) - 1 : proc_list' = RemoveAt(proc_list, i)
    BY <1>3 DEF do_wait_pid
  <2> DEFINE n == Len(proc_list)
             q == proc_list
             r == proc_list'
  <2>2. q \in Seq(Nat) /\ n \in Nat /\ i \in 1 .. n
    BY DEF PidInv, ListOK
  <2>3. /\ r \in Seq(Nat) /\ Len(r) = n - 1
        /\ \A k \in 1 .. (n - 1) : r[k] = IF k < i THEN q[k] ELSE q[k + 1]
    BY <2>1, <2>2, CutAt
  <2>4. last_pid' = last_pid /\ next_safe' = next_safe
    BY <1>3 DEF do_wait_pid
  <2>d. DOMAIN q = 1 .. n
    BY <2>2
  <2>a. \A k, m \in DOMAIN q : q[k] = q[m] => k = m
    BY DEF PidInv, UniquePid, IsInjective
  <2>w. \A k \in 1 .. n : ~(last_pid < q[k] /\ q[k] < next_safe)
    BY DEF PidInv, WindowIsFree
  <2>5. /\ \A k, m \in 1 .. n : q[k] = q[m] => k = m
        /\ \A k \in 1 .. n : ~(last_pid < q[k] /\ q[k] < next_safe)
    BY <2>d, <2>a, <2>w, Zenon
  <2> HIDE DEF q, r, n
  <2>6. ASSUME NEW k \in 1 .. (n - 1)
        PROVE  \E m \in 1 .. n : r[k] = q[m] /\ m = IF k < i THEN k ELSE k + 1
    <3>1. k \in 1 .. n /\ k + 1 \in 1 .. n
      BY <2>2
    <3>q. QED
      BY <2>3, <3>1
  <2>7. \A k \in 1 .. (n - 1) : ~(last_pid < r[k] /\ r[k] < next_safe)
    BY <2>5, <2>6
  <2>8. ASSUME NEW k \in 1 .. (n - 1), NEW m \in 1 .. (n - 1), r[k] = r[m]
        PROVE  k = m
    <3>1. PICK a \in 1 .. n : r[k] = q[a] /\ a = IF k < i THEN k ELSE k + 1
      BY <2>6
    <3>2. PICK b \in 1 .. n : r[m] = q[b] /\ b = IF m < i THEN m ELSE m + 1
      BY <2>6
    <3>3. a = b
      BY <2>5, <2>8, <3>1, <3>2
    <3>q. QED
      BY <2>2, <3>1, <3>2, <3>3
  <2>9. IsInjective(r)
    <3>1. DOMAIN r = 1 .. (n - 1)
      BY <2>3
    <3>q. QED
      BY <2>8, <3>1 DEF IsInjective
  <2>q. QED
    BY <2>3, <2>4, <2>7, <2>9 DEF PidInv, ListOK, UniquePid, WindowIsFree, r
<1>q. QED
  BY <1>1, <1>2, <1>3 DEF PidNext

\* The first process is initproc.
LEMMA PidBegins ==
    ASSUME PidInit
    PROVE  PidInv
<1>1. proc_list = <<LcpuCount>> /\ LcpuCount \in Nat /\ LcpuCount >= 1 /\ MaxPid \in Nat
  BY PidAssumption DEF PidInit
<1>2. proc_list \in Seq(Nat) /\ Len(proc_list) = 1 /\ proc_list[1] = LcpuCount
  BY <1>1
<1>3. \A j \in 1 .. 1 : j = 1
  OBVIOUS
<1>q. QED
  BY <1>1, <1>2, <1>3 DEF PidInit, PidInv, ListOK, UniquePid, WindowIsFree, IsInjective

\* PidInv is an invariant.
LEMMA PidAlways == PidSpec => []PidInv
<1>1. PidInit => PidInv
  BY PidBegins
<1>2. PidInv /\ [PidNext]_pidVars => PidInv'
  BY PidStep
<1>q. QED
  BY <1>1, <1>2, PTL DEF PidSpec

\* get_pid (process/proc.c) hands out no pid that a process in proc_list has, for any
\* MAX_PROCESS below MAX_PID and any number of CPUs: after wrapping around, too.
THEOREM PidsAreUnique == PidSpec => []UniquePid
<1>1. PidInv => UniquePid
  BY DEF PidInv
<1>q. QED
  BY <1>1, PidAlways, PTL

\* Between the static variables last_pid and next_safe of get_pid no pid is in use, so
\* that handing out the next one without a scan is right, whatever has exited since.
THEOREM PidWindowIsFree == PidSpec => []WindowIsFree
<1>1. PidInv => WindowIsFree
  BY DEF PidInv
<1>q. QED
  BY <1>1, PidAlways, PTL
=============================================================================
