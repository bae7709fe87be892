----------------------------- MODULE PipeProofs -----------------------------
(***************************************************************************)
(* A pipe is a bounded byte stream, nobody sleeps in it in vain, and what  *)
(* its files, inodes and buffer refer to is counted: for any number of     *)
(* processes, tables and descriptors, any size of the buffers and any      *)
(* lengths.                                                                *)
(***************************************************************************)
EXTENDS Pipe, QueueLemmas

USE PipeAssumption

Entry == [status : {"NONE", "OPENED", "CLOSED"}, node : End, count : Nat]
Call == [end : {"none", "r", "w"}, fd : Fd, len : Nat, ret : Nat]

TypeOK ==
    /\ file \in [Table -> [Fd -> Entry]]
    /\ fs_struct \in [Proc -> Table \cup {NoTable}]
    /\ open \in [End -> Nat] /\ ref \in [End -> Nat]
    /\ p_rpos \in Nat /\ p_wpos \in Nat /\ ref_count \in Nat
    /\ buf \in [0 .. BufSize - 1 -> Nat]
    /\ isclosed \in BOOLEAN
    /\ pc \in [Proc -> {"user", "loop", "asleep", "interrupted", "woken"}]
    /\ call \in [Proc -> Call]
    /\ exiting \in [Proc -> BOOLEAN]

\* A process that is in the middle of a call has a table of files, and the call
\* has something left to transfer; a reader has transferred nothing yet.
CallsOK ==
    \A p \in Proc : pc[p] # "user" =>
        /\ fs_struct[p] # NoTable
        /\ call[p].end \in End /\ call[p].len > 0
        /\ call[p].ret < call[p].len /\ call[p].ret < IobufSize
        /\ call[p].end = "r" \/ pc[p] = "loop" => call[p].ret = 0

\* The descriptors that refer to the inode e
Refs(e) == {x \in Table \X Fd : file[x[1]][x[2]].status # "NONE" /\ file[x[1]][x[2]].node = e}

\* The calls inside the pipe through a descriptor
Users(t, d) == {p \in Proc : InRound(p) /\ fs_struct[p] = t /\ call[p].fd = d}

\* The counts of the files, and why each file is there
FilesOK ==
    /\ \A t \in Table, d \in Fd :
        /\ file[t][d].count = Cardinality(Users(t, d))
                                + (IF file[t][d].status = "OPENED" THEN 1 ELSE 0)
        /\ file[t][d].status = "CLOSED" => file[t][d].count # 0
        /\ file[t][d].status # "NONE" => \E p \in Proc : fs_struct[p] = t
    /\ \A p \in Proc : InRound(p) => /\ Files(p)[call[p].fd].status # "NONE"
                                     /\ Files(p)[call[p].fd].node = call[p].end

\* The counts of the inodes, and those of the pipe's state that rest on them
InodesOK ==
    /\ \A e \in End : open[e] = Cardinality(Refs(e)) /\ ref[e] = open[e]
    /\ ref_count = Cardinality({e \in End : ref[e] > 0})
    /\ isclosed = FALSE => \A e \in End : open[e] > 0

\* The bytes in the buffer and those that have been read
BufferOK ==
    /\ p_rpos <= p_wpos /\ p_wpos <= p_rpos + BufSize
    /\ \A i \in Nat : p_rpos <= i /\ i < p_wpos => buf[i % BufSize] = i + 1
    /\ rcvd = [i \in 1 .. p_rpos |-> i]

Inv == TypeOK /\ CallsOK /\ FilesOK /\ InodesOK /\ BufferOK /\ NobodySleepsInVain

-----------------------------------------------------------------------------
(* Numbers and sets                                                         *)

LEMMA MinOfTwo ==
    ASSUME NEW a \in Int, NEW b \in Int
    PROVE  /\ Min({a, b}) \in {a, b} /\ Min({a, b}) <= a /\ Min({a, b}) <= b
           /\ Min({a, b}) \in Int
<1>1. \E x \in {a, b} : \A y \in {a, b} : x =< y
  OBVIOUS
<1>q. QED
  BY <1>1 DEF Min

LEMMA MinOfAnyTwo ==
    \A a, b \in Int : /\ Min({a, b}) \in {a, b} /\ Min({a, b}) <= a /\ Min({a, b}) <= b
                      /\ Min({a, b}) \in Int
BY MinOfTwo

LEMMA LeastIsIn ==
    ASSUME NEW S \in SUBSET Nat, S # {}
    PROVE  Min(S) \in S
<1>1. \E x \in S : \A y \in S : x =< y
  BY LeastNat
<1>q. QED
  BY <1>1 DEF Min

\* Two positions of the byte stream that are less than a buffer apart have
\* different places in the buffer.
LEMMA PlacesDiffer ==
    ASSUME NEW n \in Nat \ {0}, NEW a \in Nat, NEW b \in Nat, a <= b, b < a + n,
           a % n = b % n
    PROVE  a = b
<1>1. /\ a = (n * (a \div n)) + (a % n) /\ b = (n * (b \div n)) + (b % n)
      /\ a \div n \in Int /\ b \div n \in Int
  <2>1. a \div n \in Int /\ b \div n \in Int
    OBVIOUS
  <2>2. a = (n * (a \div n)) + (a % n)
    OBVIOUS
  <2>3. b = (n * (b \div n)) + (b % n)
    OBVIOUS
  <2>q. QED
    BY <2>1, <2>2, <2>3
<1> DEFINE i == a \div n
           j == b \div n
<1> HIDE DEF i, j
<1>2. b - a = n * j - n * i /\ i \in Int /\ j \in Int
  BY <1>1 DEF i, j
<1>3. b - a = n * (j - i) /\ j - i \in Int
  BY <1>2
<1>4. j - i < 1
  <2>1. ASSUME j - i >= 1 PROVE n * (j - i) >= n
    BY <1>2, <2>1
  <2>q. QED
    BY <1>2, <1>3, <2>1
<1>5. j - i > -1
  <2>1. ASSUME j - i <= -1 PROVE n * (j - i) <= -n
    BY <1>2, <2>1
  <2>q. QED
    BY <1>2, <1>3, <2>1
<1>6. j = i
  BY <1>2, <1>4, <1>5
<1>q. QED
  BY <1>2, <1>6

LEMMA PlaceType ==
    ASSUME NEW n \in Nat \ {0}, NEW a \in Nat
    PROVE  a % n \in 0 .. n - 1
OBVIOUS

\* As many descriptors of one table as pairs of the table with them
LEMMA Column ==
    ASSUME NEW t, NEW D, IsFiniteSet(D)
    PROVE  IsFiniteSet({t} \X D) /\ Cardinality({t} \X D) = Cardinality(D)
<1>1. IsFiniteSet({t}) /\ Cardinality({t}) = 1
  BY FS_Singleton
<1>2. Cardinality({t} \X D) = 1 * Cardinality(D) /\ IsFiniteSet({t} \X D)
  BY <1>1, FS_Product
<1>3. Cardinality(D) \in Nat
  BY FS_CardinalityType
<1>q. QED
  BY <1>2, <1>3

LEMMA FdFinite == IsFiniteSet(Fd) /\ Fd \subseteq Nat /\ IsFiniteSet(End)
<1>1. IsFiniteSet(Fd)
  BY FS_Interval DEF Fd
<1>2. IsFiniteSet({"r"} \cup {"w"})
  BY FS_Singleton, FS_Union
<1>3. End = {"r"} \cup {"w"}
  BY DEF End
<1>q. QED
  BY <1>1, <1>2, <1>3 DEF Fd

LEMMA RefsFinite ==
    /\ IsFiniteSet(Table \X Fd)
    /\ \A e : Refs(e) \in SUBSET (Table \X Fd)
    /\ \A e : IsFiniteSet(Refs(e)) /\ Cardinality(Refs(e)) \in Nat
<1>1. IsFiniteSet(Table \X Fd)
  BY FdFinite, FS_Product
<1>2. \A e : Refs(e) \in SUBSET (Table \X Fd)
  BY DEF Refs
<1>q. QED
  BY <1>1, <1>2, Count

LEMMA UsersFinite ==
    \A t, d : Users(t, d) \in SUBSET Proc /\ Cardinality(Users(t, d)) \in Nat
<1>1. \A t, d : Users(t, d) \in SUBSET Proc
  BY DEF Users
<1>q. QED
  BY <1>1, Count
-----------------------------------------------------------------------------
(* The buffer                                                               *)

\* The first n bytes of the stream
LEMMA Stream ==
    ASSUME NEW n \in Nat
    PROVE  /\ [i \in 1 .. n |-> i] \in Seq(Nat)
           /\ Len([i \in 1 .. n |-> i]) = n
OBVIOUS

\* k bytes are read.
LEMMA ReadOK ==
    ASSUME TypeOK, BufferOK, NEW k \in Nat, k <= p_wpos - p_rpos,
           rcvd' = rcvd \o [i \in 1 .. k |-> buf[(p_rpos + i - 1) % BufSize]],
           p_rpos' = p_rpos + k, p_wpos' = p_wpos, buf' = buf
    PROVE  BufferOK' /\ p_rpos' \in Nat
<1> DEFINE b == [i \in 1 .. k |-> buf[(p_rpos + i - 1) % BufSize]]
<1>0. /\ p_rpos \in Nat /\ p_wpos \in Nat /\ p_rpos <= p_wpos
      /\ p_wpos <= p_rpos + BufSize /\ BufSize \in Nat \ {0}
      /\ \A i \in Nat : p_rpos <= i /\ i < p_wpos => buf[i % BufSize] = i + 1
      /\ rcvd = [i \in 1 .. p_rpos |-> i]
  BY DEF TypeOK, BufferOK
<1>1. \A i \in 1 .. k : b[i] = p_rpos + i
  <2>1. ASSUME NEW i \in 1 .. k PROVE b[i] = p_rpos + i
    <3>1. p_rpos + i - 1 \in Nat /\ p_rpos <= p_rpos + i - 1 /\ p_rpos + i - 1 < p_wpos
      BY <1>0
    <3>2. buf[(p_rpos + i - 1) % BufSize] = (p_rpos + i - 1) + 1
      BY <1>0, <3>1
    <3>q. QED
      BY <1>0, <3>2
  <2>q. QED
    BY <2>1
<1>3. rcvd' = rcvd \o b /\ b = [i \in 1 .. k |-> b[i]]
  OBVIOUS
<1> HIDE DEF b
<1>2. b \in Seq(Nat) /\ Len(b) = k
  <2>1. \A i \in 1 .. k : b[i] \in Nat
    BY <1>0, <1>1
  <2>2. b \in [1 .. k -> Nat]
    BY <1>3, <2>1
  <2>q. QED
    BY <2>2
<1>4. rcvd \in Seq(Nat) /\ Len(rcvd) = p_rpos
  BY <1>0, Stream
<1>5. /\ rcvd \o b \in Seq(Nat) /\ Len(rcvd \o b) = p_rpos + k
      /\ \A i \in 1 .. (p_rpos + k) :
            (rcvd \o b)[i] = IF i <= p_rpos THEN rcvd[i] ELSE b[i - p_rpos]
  BY <1>2, <1>4, ConcatProperties, ZenonT(30)
<1>6. ASSUME NEW i \in 1 .. (p_rpos + k) PROVE (rcvd \o b)[i] = i
  <2>1. CASE i <= p_rpos
    BY <1>0, <1>5, <2>1
  <2>2. CASE ~(i <= p_rpos)
    <3>1. i - p_rpos \in 1 .. k /\ p_rpos + (i - p_rpos) = i
      BY <1>0, <2>2
    <3>q. QED
      BY <1>1, <1>5, <2>2, <3>1
  <2>q. QED
    BY <2>1, <2>2
<1>7. rcvd \o b = [i \in 1 .. (p_rpos + k) |-> i]
  <2>1. DOMAIN (rcvd \o b) = 1 .. (p_rpos + k)
    BY <1>5, LenProperties
  <2>2. rcvd \o b = [i \in 1 .. (p_rpos + k) |-> (rcvd \o b)[i]]
    BY <1>5, <2>1, LenProperties
  <2>q. QED
    BY <1>6, <2>2
<1>8. \A i \in Nat : p_rpos' <= i /\ i < p_wpos' => buf'[i % BufSize] = i + 1
  <2>1. \A i \in Nat : p_rpos + k <= i => p_rpos <= i
    BY <1>0
  <2>q. QED
    BY <1>0, <2>1
<1>9. p_rpos' <= p_wpos' /\ p_wpos' <= p_rpos' + BufSize /\ p_rpos' \in Nat
  BY <1>0
<1>10. rcvd' = [i \in 1 .. p_rpos' |-> i]
  BY <1>3, <1>7
<1>q. QED
  BY <1>8, <1>9, <1>10 DEF BufferOK

\* k bytes are written.
LEMMA WriteOK ==
    ASSUME TypeOK, BufferOK, NEW k \in Nat, k <= Room,
           buf' = [i \in DOMAIN buf |->
                    LET new == {j \in 0 .. k - 1 : (p_wpos + j) % BufSize = i}
                    IN IF new = {} THEN buf[i] ELSE p_wpos + Max(new) + 1],
           p_wpos' = p_wpos + k, p_rpos' = p_rpos, rcvd' = rcvd
    PROVE  /\ BufferOK' /\ p_wpos' \in Nat
           /\ buf' \in [0 .. BufSize - 1 -> Nat]
<1> DEFINE new(i) == {j \in 0 .. k - 1 : (p_wpos + j) % BufSize = i}
<1>0. /\ p_rpos \in Nat /\ p_wpos \in Nat /\ p_rpos <= p_wpos
      /\ p_wpos + k <= p_rpos + BufSize /\ BufSize \in Nat \ {0} /\ k <= BufSize
      /\ \A i \in Nat : p_rpos <= i /\ i < p_wpos => buf[i % BufSize] = i + 1
      /\ rcvd = [i \in 1 .. p_rpos |-> i]
      /\ buf \in [0 .. BufSize - 1 -> Nat]
  BY DEF TypeOK, BufferOK, Room
<1>1. \A i \in 0 .. BufSize - 1 :
        buf'[i] = IF new(i) = {} THEN buf[i] ELSE p_wpos + Max(new(i)) + 1
  BY <1>0
<1>2. buf' = [i \in 0 .. BufSize - 1 |-> buf'[i]]
  BY <1>0
<1> HIDE DEF new
<1>3. ASSUME NEW j \in 0 .. k - 1
      PROVE  /\ (p_wpos + j) % BufSize \in 0 .. BufSize - 1
             /\ buf'[(p_wpos + j) % BufSize] = p_wpos + j + 1
  <2> DEFINE i == (p_wpos + j) % BufSize
  <2>1. i \in 0 .. BufSize - 1
    BY <1>0, PlaceType
  <2>2. j \in new(i)
    BY DEF new
  <2>3. ASSUME NEW l \in new(i) PROVE l = j
    <3>1. l \in 0 .. k - 1 /\ (p_wpos + l) % BufSize = (p_wpos + j) % BufSize
      BY DEF new
    <3>2. /\ p_wpos + l \in Nat /\ p_wpos + j \in Nat
          /\ (p_wpos + l <= p_wpos + j /\ p_wpos + j < (p_wpos + l) + BufSize)
             \/ (p_wpos + j <= p_wpos + l /\ p_wpos + l < (p_wpos + j) + BufSize)
      BY <1>0, <3>1
    <3>3. p_wpos + l = p_wpos + j
      BY <1>0, <3>1, <3>2, PlacesDiffer
    <3>q. QED
      BY <1>0, <3>1, <3>3
  <2>4. new(i) = {j}
    BY <2>2, <2>3
  <2>5. Max({j}) = j
    BY DEF Max
  <2>q. QED
    BY <1>1, <2>1, <2>4, <2>5
<1>4. ASSUME NEW i \in 0 .. BufSize - 1 PROVE buf'[i] \in Nat
  <2>1. CASE new(i) = {}
    BY <1>0, <1>1, <2>1
  <2>2. CASE new(i) # {}
    <3>1. PICK j \in 0 .. k - 1 : (p_wpos + j) % BufSize = i
      BY <2>2 DEF new
    <3>2. buf'[i] = p_wpos + j + 1
      BY <1>3, <3>1
    <3>3. p_wpos + j + 1 \in Nat
      BY <1>0
    <3>q. QED
      BY <3>2, <3>3, Zenon
  <2>q. QED
    BY <2>1, <2>2
<1>5. ASSUME NEW i \in Nat, p_rpos <= i, i < p_wpos + k PROVE buf'[i % BufSize] = i + 1
  <2>1. CASE i >= p_wpos
    <3>1. i - p_wpos \in 0 .. k - 1 /\ p_wpos + (i - p_wpos) = i
      BY <1>0, <1>5, <2>1
    <3>q. QED
      BY <1>3, <3>1
  <2>2. CASE i < p_wpos
    <3>1. new(i % BufSize) = {}
      <4>1. ASSUME NEW j \in new(i % BufSize) PROVE FALSE
        <5>1. j \in 0 .. k - 1 /\ (p_wpos + j) % BufSize = i % BufSize
          BY DEF new
        <5>2. p_wpos + j \in Nat /\ i <= p_wpos + j /\ p_wpos + j < i + BufSize
          BY <1>0, <1>5, <2>2, <5>1
        <5>3. i = p_wpos + j
          BY <1>0, <5>1, <5>2, PlacesDiffer
        <5>q. QED
          BY <1>0, <2>2, <5>1, <5>3
      <4>q. QED
        BY <4>1
    <3>2. i % BufSize \in 0 .. BufSize - 1
      BY <1>0, PlaceType
    <3>q. QED
      BY <1>0, <1>1, <1>5, <2>2, <3>1, <3>2
  <2>3. i >= p_wpos \/ i < p_wpos
    BY <1>0
  <2>q. QED
    BY <2>1, <2>2, <2>3, Zenon
<1>6. buf' \in [0 .. BufSize - 1 -> Nat]
  BY <1>2, <1>4
<1>7. /\ p_rpos' <= p_wpos' /\ p_wpos' <= p_rpos' + BufSize /\ p_wpos' \in Nat
      /\ rcvd' = [i \in 1 .. p_rpos' |-> i]
  BY <1>0
<1>8. \A i \in Nat : p_rpos' <= i /\ i < p_wpos' => buf'[i % BufSize] = i + 1
  BY <1>5
<1>q. QED
  BY <1>6, <1>7, <1>8 DEF BufferOK
-----------------------------------------------------------------------------
(* Files and inodes.  A step that closes or releases files of a table works *)
(* out the table m and then frees the files that are gone.                  *)

Cleaned(m) == [d \in Fd |-> IF Gone(m[d]) THEN NoFile ELSE m[d]]
GoneAt(m, e) == {d \in Fd : Gone(m[d]) /\ m[d].node = e}

\* m is the table t with other counts, and some of its files closed.
SameFiles(m, t) ==
    /\ m \in [Fd -> Entry]
    /\ \A d \in Fd : /\ m[d].status = "NONE" <=> file[t][d].status = "NONE"
                     /\ m[d].node = file[t][d].node

LEMMA CleanedFacts ==
    ASSUME NEW m \in [Fd -> Entry]
    PROVE  /\ Cleaned(m) \in [Fd -> Entry]
           /\ \A d \in Fd : Gone(m[d]) => Cleaned(m)[d] = NoFile
           /\ \A d \in Fd : ~Gone(m[d]) => Cleaned(m)[d] = m[d]
           /\ NoFile \in Entry /\ NoFile.status = "NONE" /\ NoFile.count = 0
<1>1. NoFile \in Entry /\ NoFile.status = "NONE" /\ NoFile.count = 0
  BY DEF NoFile, Entry, End
<1> HIDE DEF Entry, NoFile
<1>q. QED
  BY <1>1 DEF Cleaned

\* The inode loses the references of the files that are gone.
LEMMA RefsChange ==
    ASSUME TypeOK, NEW t \in Table, NEW m, SameFiles(m, t),
           file' = [file EXCEPT ![t] = Cleaned(m)], NEW e \in End,
           NEW n \in Nat, n = Cardinality(Refs(e))
    PROVE  /\ Cardinality(Refs(e)') \in Nat
           /\ Cardinality(GoneAt(m, e)) \in Nat
           /\ Cardinality(Refs(e)') = n - Cardinality(GoneAt(m, e))
<1>0. file \in [Table -> [Fd -> Entry]] /\ m \in [Fd -> Entry]
  BY DEF TypeOK, SameFiles
<1>1. /\ file'[t] = Cleaned(m)
      /\ \A u \in Table : u # t => file'[u] = file[u]
  BY <1>0
<1>2. /\ \A d \in Fd : Gone(m[d]) => file'[t][d].status = "NONE"
      /\ \A d \in Fd : ~Gone(m[d]) => file'[t][d] = m[d]
  BY <1>0, <1>1, CleanedFacts
<1>3. \A d \in Fd : Gone(m[d]) => file[t][d].status # "NONE" /\ file[t][d].node = m[d].node
  BY DEF SameFiles, Gone
<1>4. Refs(e)' = Refs(e) \ ({t} \X GoneAt(m, e))
  <2>1. ASSUME NEW u \in Table, NEW d \in Fd
        PROVE  <<u, d>> \in Refs(e)' <=> <<u, d>> \in Refs(e) \ ({t} \X GoneAt(m, e))
    <3>1. CASE u # t
      BY <1>1, <3>1 DEF Refs
    <3>2. CASE u = t /\ Gone(m[d])
      BY <1>2, <1>3, <3>2 DEF Refs, GoneAt
    <3>3. CASE u = t /\ ~Gone(m[d])
      <4>1. /\ file'[t][d] = m[d] /\ m[d].node = file[t][d].node
            /\ m[d].status = "NONE" <=> file[t][d].status = "NONE"
        BY <1>2, <3>3 DEF SameFiles
      <4>2. <<t, d>> \notin {t} \X GoneAt(m, e)
        BY <3>3 DEF GoneAt
      <4>q. QED
        BY <3>3, <4>1, <4>2 DEF Refs
    <3>q. QED
      BY <3>1, <3>2, <3>3
  <2>2. Refs(e)' \subseteq Table \X Fd /\ Refs(e) \subseteq Table \X Fd
    BY DEF Refs
  <2>3. ASSUME NEW x \in Table \X Fd
        PROVE  x \in Refs(e)' <=> x \in Refs(e) \ ({t} \X GoneAt(m, e))
    <3>1. PICK u \in Table, d \in Fd : x = <<u, d>>
      OBVIOUS
    <3>q. QED
      BY <2>1, <3>1, Zenon
  <2>q. QED
    BY <2>2, <2>3, Zenon
<1>5. {t} \X GoneAt(m, e) \subseteq Refs(e)
  BY <1>3 DEF Refs, GoneAt
<1>6. IsFiniteSet(Refs(e)) /\ IsFiniteSet(GoneAt(m, e))
  <2>1. GoneAt(m, e) \in SUBSET Fd
    BY DEF GoneAt
  <2>q. QED
    BY <2>1, RefsFinite, FdFinite, FS_Subset
<1>7. /\ Cardinality(Refs(e)') = Cardinality(Refs(e)) - Cardinality({t} \X GoneAt(m, e))
      /\ IsFiniteSet(Refs(e)')
  <2> DEFINE P == {t} \X GoneAt(m, e)
  <2>1. Refs(e)' = Refs(e) \ P /\ P \subseteq Refs(e)
    BY <1>4, <1>5
  <2> HIDE DEF P
  <2>2. Refs(e) \cap P = P
    BY <2>1
  <2>3. /\ Cardinality(Refs(e) \ P) = Cardinality(Refs(e)) - Cardinality(Refs(e) \cap P)
        /\ IsFiniteSet(Refs(e) \ P)
    BY <1>6, FS_Difference
  <2>4. /\ Cardinality(Refs(e)') = Cardinality(Refs(e)) - Cardinality(P)
        /\ IsFiniteSet(Refs(e)')
    BY <2>1, <2>2, <2>3, Zenon
  <2>q. QED
    BY <2>4 DEF P
<1>8. /\ Cardinality({t} \X GoneAt(m, e)) = Cardinality(GoneAt(m, e))
      /\ Cardinality(GoneAt(m, e)) \in Nat
  BY <1>6, Column, FS_CardinalityType
<1>9. Cardinality(Refs(e)') \in Nat
  BY <1>7, FS_CardinalityType
<1>q. QED
  BY <1>7, <1>8, <1>9

\* What vfs_close keeps
LEMMA VfsCloseOK ==
    ASSUME TypeOK, InodesOK, NEW t \in Table, NEW m, SameFiles(m, t),
           file' = [file EXCEPT ![t] = Cleaned(m)], NEW w, vfs_close(m, w)
    PROVE  /\ InodesOK'
           /\ open' \in [End -> Nat] /\ ref' \in [End -> Nat] /\ ref_count' \in Nat
           /\ isclosed' \in BOOLEAN
           /\ \/ isclosed' = isclosed /\ pc' = w
              \/ isclosed' = TRUE /\ pc' = pipe_state_close(w)
<1> DEFINE n(e) == Cardinality(GoneAt(m, e))
           last == {e \in End : n(e) > 0 /\ open[e] = n(e)}
<1>0. /\ open \in [End -> Nat] /\ ref = open /\ isclosed \in BOOLEAN
      /\ \A e \in End : open[e] = Cardinality(Refs(e))
      /\ ref_count = Cardinality({e \in End : ref[e] > 0})
      /\ isclosed = FALSE => \A e \in End : open[e] > 0
  BY DEF TypeOK, InodesOK
<1>1. /\ open' = [e \in End |-> open[e] - n(e)]
      /\ ref' = [e \in End |-> ref[e] - n(e)]
      /\ isclosed' = (isclosed \/ last # {})
      /\ pc' = IF last # {} THEN pipe_state_close(w) ELSE w
      /\ ref_count' = ref_count - Cardinality(last)
  BY <1>0 DEF vfs_close, GoneAt
<1>2. \A e \in End : /\ n(e) \in Nat /\ open[e] \in Nat /\ open[e] - n(e) \in Nat
                     /\ Cardinality(Refs(e)') = open[e] - n(e)
  BY <1>0, RefsChange
<1>3. /\ \A e \in End : open'[e] = open[e] - n(e) /\ ref'[e] = open'[e]
      /\ \A e \in End : open'[e] = Cardinality(Refs(e)')
      /\ open' \in [End -> Nat] /\ ref' \in [End -> Nat]
  BY <1>0, <1>1, <1>2
<1> HIDE DEF n
<1>4. {e \in End : ref'[e] > 0} = {e \in End : ref[e] > 0} \ last
  BY <1>0, <1>2, <1>3
<1>5. last \subseteq {e \in End : ref[e] > 0}
  BY <1>0
<1>6. IsFiniteSet({e \in End : ref[e] > 0}) /\ IsFiniteSet({e \in End : ref'[e] > 0})
  BY FdFinite, FS_Subset
<1>7. ref_count' = Cardinality({e \in End : ref'[e] > 0}) /\ ref_count' \in Nat
  <2>1. {e \in End : ref[e] > 0} \cap last = last
    BY <1>5
  <2> HIDE DEF last
  <2>2. Cardinality({e \in End : ref'[e] > 0}) = ref_count - Cardinality(last)
    BY <1>0, <1>4, <1>6, <2>1, FS_Difference
  <2>3. Cardinality({e \in End : ref'[e] > 0}) \in Nat
    BY <1>6, FS_CardinalityType
  <2>q. QED
    BY <1>1, <2>2, <2>3
<1>8. isclosed' \in BOOLEAN /\ (isclosed' = FALSE => isclosed = FALSE /\ last = {})
  BY <1>0, <1>1, Zenon
<1>9. isclosed' = FALSE => \A e \in End : open'[e] > 0
  BY <1>0, <1>2, <1>3, <1>8
<1>10. InodesOK'
  <2>1. \A e \in End : open'[e] = Cardinality(Refs(e)') /\ ref'[e] = open'[e]
    BY <1>3
  <2>2. ref_count' = Cardinality({e \in End : ref'[e] > 0})
    BY <1>7
  <2>q. QED
    BY <1>9, <2>1, <2>2 DEF InodesOK
<1>11. \/ isclosed' = isclosed /\ pc' = w
       \/ isclosed' = TRUE /\ pc' = pipe_state_close(w)
  <2> HIDE DEF last
  <2>1. CASE last = {}
    BY <1>0, <1>1, <2>1, Zenon
  <2>2. CASE last # {}
    BY <1>1, <2>2, Zenon
  <2>q. QED
    BY <2>1, <2>2
<1>q. QED
  BY <1>3, <1>7, <1>8, <1>10, <1>11

\* p acts on the files of its table t, which become m; the counts of m are right.
TableStep(p, t, m) ==
    /\ SameFiles(m, t) /\ file' = [file EXCEPT ![t] = Cleaned(m)]
    /\ fs_struct[p] = t /\ fs_struct'[p] \in {t, NoTable}
    /\ \A q \in Proc : q # p => /\ fs_struct'[q] = fs_struct[q] /\ call'[q] = call[q]
                                /\ InRound(q)' <=> InRound(q)
    /\ pc'[p] \in {"asleep", "interrupted", "woken"} =>
            /\ fs_struct'[p] = t /\ call'[p].fd \in Fd
            /\ m[call'[p].fd].status # "NONE" /\ m[call'[p].fd].node = call'[p].end
    /\ \A d \in Fd : m[d].count = Cardinality(Users(t, d)')
                                    + (IF m[d].status = "OPENED" THEN 1 ELSE 0)
    /\ \/ \E q \in Proc : fs_struct'[q] = t
       \/ \A d \in Fd : m[d].status = "NONE" \/ Gone(m[d])

LEMMA FilesChange ==
    ASSUME TypeOK, CallsOK, FilesOK, NEW t \in Table, NEW m, NEW p \in Proc,
           TableStep(p, t, m)
    PROVE  FilesOK'
<1> USE DEF TableStep
<1>0. /\ file \in [Table -> [Fd -> Entry]] /\ m \in [Fd -> Entry] /\ t # NoTable
      /\ \A q \in Proc : call[q].fd \in Fd /\ (fs_struct[q] \in Table \/ fs_struct[q] = NoTable)
  BY DEF TypeOK, SameFiles, Call
<1>1. /\ file'[t] = Cleaned(m)
      /\ \A u \in Table : u # t => file'[u] = file[u]
  BY <1>0
<1>2. /\ \A d \in Fd : Gone(m[d]) => file'[t][d].status = "NONE" /\ file'[t][d].count = 0
      /\ \A d \in Fd : ~Gone(m[d]) => file'[t][d] = m[d]
  BY <1>0, <1>1, CleanedFacts
<1>3. ASSUME NEW u \in Table, u # t, NEW d \in Fd PROVE Users(u, d)' = Users(u, d)
  <2>1. ASSUME NEW q \in Proc PROVE q \in Users(u, d)' <=> q \in Users(u, d)
    <3>1. CASE q = p
      BY <1>0, <1>3, <3>1 DEF Users
    <3>2. CASE q # p
      BY <3>2 DEF Users
    <3>q. QED
      BY <3>1, <3>2
  <2>2. Users(u, d)' \subseteq Proc /\ Users(u, d) \subseteq Proc
    BY DEF Users
  <2>q. QED
    BY <2>1, <2>2
<1>4. \A d \in Fd : Users(t, d)' \in SUBSET Proc /\ Cardinality(Users(t, d)') \in Nat
  <2>1. \A d \in Fd : Users(t, d)' \in SUBSET Proc
    BY DEF Users
  <2>q. QED
    BY <2>1, Count
<1>5. ASSUME NEW u \in Table, NEW d \in Fd
      PROVE  /\ file'[u][d].count = Cardinality(Users(u, d)')
                                    + (IF file'[u][d].status = "OPENED" THEN 1 ELSE 0)
             /\ file'[u][d].status = "CLOSED" => file'[u][d].count # 0
             /\ file'[u][d].status # "NONE" => \E q \in Proc : fs_struct'[q] = u
  <2>1. CASE u # t
    <3>1. \A q \in Proc : fs_struct[q] = u => fs_struct'[q] = u
      BY <2>1
    <3>2. Users(u, d)' = Users(u, d) /\ file'[u] = file[u]
      BY <1>1, <1>3, <2>1
    <3>3. /\ file[u][d].count = Cardinality(Users(u, d))
                                    + (IF file[u][d].status = "OPENED" THEN 1 ELSE 0)
          /\ file[u][d].status = "CLOSED" => file[u][d].count # 0
          /\ file[u][d].status # "NONE" => \E q \in Proc : fs_struct[q] = u
      BY DEF FilesOK
    <3>4. Cardinality(Users(u, d)') = Cardinality(Users(u, d))
      BY <3>2, Zenon
    <3>q. QED
      BY <3>1, <3>2, <3>3, <3>4
  <2>2. CASE u = t /\ Gone(m[d])
    <3>1. /\ m[d].status = "CLOSED" /\ m[d].count = 0
          /\ file'[t][d].status = "NONE" /\ file'[t][d].count = 0
      BY <1>2, <2>2 DEF Gone
    <3>2. m[d].count = Cardinality(Users(t, d)')
      BY <1>4, <3>1
    <3>q. QED
      BY <2>2, <3>1, <3>2
  <2>3. CASE u = t /\ ~Gone(m[d])
    <3>1. file'[u][d] = m[d]
      BY <1>2, <2>3
    <3>2. m[d].status = "CLOSED" => m[d].count # 0
      BY <2>3 DEF Gone
    <3>3. m[d].status # "NONE" => \E q \in Proc : fs_struct'[q] = t
      BY <2>3
    <3>q. QED
      BY <2>3, <3>1, <3>2, <3>3
  <2>q. QED
    BY <2>1, <2>2, <2>3
<1>6. ASSUME NEW q \in Proc, InRound(q)'
      PROVE  /\ file'[fs_struct'[q]][call'[q].fd].status # "NONE"
             /\ file'[fs_struct'[q]][call'[q].fd].node = call'[q].end
  <2>1. CASE fs_struct'[q] = t
    <3>1. /\ call'[q].fd \in Fd /\ m[call'[q].fd].status # "NONE"
          /\ m[call'[q].fd].node = call'[q].end
      <4>1. CASE q = p
        BY <1>6, <4>1 DEF InRound
      <4>2. CASE q # p
        <5>1. InRound(q) /\ fs_struct[q] = t /\ call'[q] = call[q]
          BY <1>6, <2>1, <4>2
        <5>2. /\ file[t][call[q].fd].status # "NONE" /\ call[q].fd \in Fd
              /\ file[t][call[q].fd].node = call[q].end
          BY <1>0, <5>1 DEF FilesOK, Files
        <5>q. QED
          BY <5>1, <5>2 DEF SameFiles
      <4>q. QED
        BY <4>1, <4>2
    <3>2. PICK d \in Fd : d = call'[q].fd
      BY <3>1
    <3>3. q \in Users(t, d)'
      BY <1>6, <2>1, <3>2 DEF Users
    <3>4. Cardinality(Users(t, d)') # 0
      BY <1>4, <3>3, Count
    <3>5. m[d].count # 0
      BY <1>4, <3>4
    <3>6. file'[t][d] = m[d]
      BY <1>2, <3>5 DEF Gone
    <3>q. QED
      BY <2>1, <3>1, <3>2, <3>6
  <2>2. CASE fs_struct'[q] # t
    <3>1. q # p
      BY <1>6, <2>2 DEF InRound
    <3>2. InRound(q) /\ fs_struct'[q] = fs_struct[q] /\ call'[q] = call[q]
      BY <1>6, <3>1
    <3>3. fs_struct[q] \in Table /\ fs_struct[q] # t
      BY <1>0, <2>2, <3>2 DEF InRound, CallsOK
    <3>q. QED
      BY <1>1, <3>2, <3>3 DEF FilesOK, Files
  <2>q. QED
    BY <2>1, <2>2
<1>7. \A q \in Proc : InRound(q)' => /\ (Files(q)[call[q].fd].status # "NONE")'
                                     /\ (Files(q)[call[q].fd].node = call[q].end)'
  BY <1>6 DEF Files
<1>q. QED
  BY <1>5, <1>7 DEF FilesOK
-----------------------------------------------------------------------------
(* Sleeping and waking                                                      *)

Where == {"user", "loop", "asleep", "interrupted", "woken"}
Parked == {"asleep", "interrupted", "woken"}

\* While p acts, the others stay where they are or are woken.
OthersWoken(p, w) ==
    /\ w \in [Proc -> Where]
    /\ \A q \in Proc : q # p =>
        w[q] = pc[q] \/ (pc[q] \in {"asleep", "interrupted"} /\ w[q] = "woken")

\* Those of the others who sleep on have a reason.
OthersRightlyAsleep(p, w, r, n) ==
    \A q \in Proc : q # p /\ w[q] = "asleep" =>
        IF call[q].end = "r" THEN r = n ELSE n - r >= BufSize

LEMMA WakeupFacts ==
    ASSUME NEW w \in [Proc -> Where], NEW e
    PROVE  /\ pipe_state_wakeup(w, e) \in [Proc -> Where]
           /\ \A q \in Proc : \/ /\ pipe_state_wakeup(w, e)[q] = w[q]
                                 /\ w[q] \in {"asleep", "interrupted"} => call[q].end # e
                              \/ /\ w[q] \in {"asleep", "interrupted"} /\ call[q].end = e
                                 /\ pipe_state_wakeup(w, e)[q] = "woken"
BY DEF pipe_state_wakeup, Queue, Where

LEMMA CloseFacts ==
    ASSUME NEW w \in [Proc -> Where]
    PROVE  /\ pipe_state_close(w) \in [Proc -> Where]
           /\ \A q \in Proc :
                \/ /\ pipe_state_close(w)[q] = w[q]
                   /\ w[q] \in {"asleep", "interrupted"} => call[q].end \notin End
                \/ w[q] \in {"asleep", "interrupted"} /\ pipe_state_close(w)[q] = "woken"
<1> DEFINE a == pipe_state_wakeup(w, "r")
           b == pipe_state_wakeup(a, "w")
<1>1. /\ a \in [Proc -> Where]
      /\ \A q \in Proc : \/ /\ a[q] = w[q]
                            /\ w[q] \in {"asleep", "interrupted"} => call[q].end # "r"
                         \/ /\ w[q] \in {"asleep", "interrupted"} /\ call[q].end = "r"
                            /\ a[q] = "woken"
  BY WakeupFacts
<1> HIDE DEF a
<1>2. /\ b \in [Proc -> Where]
      /\ \A q \in Proc : \/ /\ b[q] = a[q]
                            /\ a[q] \in {"asleep", "interrupted"} => call[q].end # "w"
                         \/ /\ a[q] \in {"asleep", "interrupted"} /\ call[q].end = "w"
                            /\ b[q] = "woken"
  BY <1>1, WakeupFacts
<1> HIDE DEF b
<1>3. pipe_state_close(w) = b
  BY DEF pipe_state_close, a, b
<1>q. QED
  BY <1>1, <1>2, <1>3 DEF End

\* The counts of m are right for when p is not in the pipe; with a descriptor,
\* for when p is in the pipe through it.
CountedWithout(p, t, m) ==
    /\ SameFiles(m, t)
    /\ \A d \in Fd : m[d].count = Cardinality(Users(t, d) \ {p})
                                    + (IF m[d].status = "OPENED" THEN 1 ELSE 0)

CountedWith(p, t, m, fd) ==
    /\ SameFiles(m, t) /\ fd \in Fd /\ m[fd].status # "NONE"
    /\ \A d \in Fd : ~Gone(m[d])
    /\ \A d \in Fd : m[d].count = Cardinality(Users(t, d) \ {p})
                                    + (IF m[d].status = "OPENED" THEN 1 ELSE 0)
                                    + (IF d = fd THEN 1 ELSE 0)

\* A step of p that leaves the others to w and a good buffer
Acts(p, w) ==
    /\ OthersWoken(p, w) /\ OthersRightlyAsleep(p, w, p_rpos', p_wpos')
    /\ call' \in [Proc -> Call] /\ \A q \in Proc : q # p => call'[q] = call[q]
    /\ BufferOK' /\ p_rpos' \in Nat /\ p_wpos' \in Nat
    /\ buf' \in [0 .. BufSize - 1 -> Nat]

\* p's step ends with its files as in m, of which some may be gone.
Ends(p, t, m, w) ==
    /\ file' = [file EXCEPT ![t] = Cleaned(m)] /\ vfs_close(m, w)
    /\ w[p] \in {"user", "loop"}
    /\ w[p] = "loop" => /\ fs_struct'[p] = t /\ call'[p].end \in End
                        /\ call'[p].len > 0 /\ call'[p].ret = 0
    /\ fs_struct' \in [Proc -> Table \cup {NoTable}] /\ fs_struct'[p] \in {t, NoTable}
    /\ \A q \in Proc : q # p => fs_struct'[q] = fs_struct[q]
    /\ \/ \E q \in Proc : fs_struct'[q] = t
       \/ \A d \in Fd : m[d].status = "NONE" \/ Gone(m[d])
    /\ exiting' \in [Proc -> BOOLEAN]

LEMMA EndsOK ==
    ASSUME Inv, NEW p \in Proc, NEW t \in Table, fs_struct[p] = t, NEW m, NEW w,
           CountedWithout(p, t, m), Acts(p, w), Ends(p, t, m, w)
    PROVE  Inv'
<1> USE DEF CountedWithout, Acts, Ends
<1>0. /\ TypeOK /\ CallsOK /\ FilesOK /\ InodesOK
      /\ \A q \in Proc : pc[q] = "asleep" => isclosed = FALSE
      /\ isclosed \in BOOLEAN /\ w \in [Proc -> Where] /\ t # NoTable
  <2>1. isclosed \in BOOLEAN /\ TypeOK /\ NobodySleepsInVain /\ CallsOK /\ FilesOK /\ InodesOK
    BY DEF Inv, TypeOK
  <2>2. \A q \in Proc : pc[q] = "asleep" => isclosed = FALSE
    BY <2>1, Zenon DEF NobodySleepsInVain
  <2>q. QED
    BY <2>1, <2>2 DEF OthersWoken
<1>1. /\ InodesOK'
      /\ open' \in [End -> Nat] /\ ref' \in [End -> Nat] /\ ref_count' \in Nat
      /\ isclosed' \in BOOLEAN
      /\ \/ isclosed' = isclosed /\ pc' = w
         \/ isclosed' = TRUE /\ pc' = pipe_state_close(w)
  BY <1>0, VfsCloseOK
<1>2. /\ pc' \in [Proc -> Where] /\ pc'[p] = w[p]
      /\ \A q \in Proc : q # p =>
            pc'[q] = pc[q] \/ (pc[q] \in {"asleep", "interrupted"} /\ pc'[q] = "woken")
      /\ \A q \in Proc : q # p /\ pc'[q] = "asleep" => w[q] = "asleep" /\ isclosed' = FALSE
  <2>1. CASE isclosed' = isclosed /\ pc' = w
    BY <1>0, <2>1 DEF OthersWoken, Where
  <2>2. CASE isclosed' = TRUE /\ pc' = pipe_state_close(w)
    <3>1. /\ pc' \in [Proc -> Where]
          /\ \A q \in Proc :
                \/ /\ pc'[q] = w[q]
                   /\ w[q] \in {"asleep", "interrupted"} => call[q].end \notin End
                \/ w[q] \in {"asleep", "interrupted"} /\ pc'[q] = "woken"
      BY <1>0, <2>2, CloseFacts
    <3>2. \A q \in Proc : q # p /\ w[q] \in {"asleep", "interrupted"} => call[q].end \in End
      BY <1>0 DEF OthersWoken, CallsOK, Where
    <3>q. QED
      BY <1>0, <3>1, <3>2 DEF OthersWoken, Where
  <2>q. QED
    BY <1>1, <2>1, <2>2
<1>3. /\ \A q \in Proc : q # p => (InRound(q)' <=> InRound(q))
      /\ pc'[p] \notin Parked
  BY <1>2 DEF InRound, Where, Parked
<1>4. FilesOK'
  <2>1. ASSUME NEW d \in Fd PROVE Users(t, d)' = Users(t, d) \ {p}
    <3>1. ASSUME NEW q \in Proc PROVE q \in Users(t, d)' <=> q \in Users(t, d) \ {p}
      <4>1. CASE q = p
        BY <1>3, <4>1 DEF Users, InRound, Parked
      <4>2. CASE q # p
        BY <1>3, <4>2 DEF Users
      <4>q. QED
        BY <4>1, <4>2
    <3>2. Users(t, d)' \subseteq Proc /\ Users(t, d) \subseteq Proc
      BY DEF Users
    <3>q. QED
      BY <3>1, <3>2
  <2>2. \A d \in Fd : m[d].count = Cardinality(Users(t, d)')
                                        + (IF m[d].status = "OPENED" THEN 1 ELSE 0)
    BY <2>1, Zenon
  <2>3. pc'[p] \notin {"asleep", "interrupted", "woken"}
    BY <1>3 DEF Parked
  <2>4. \A q \in Proc : q # p => /\ fs_struct'[q] = fs_struct[q] /\ call'[q] = call[q]
                                 /\ InRound(q)' <=> InRound(q)
    BY <1>3
  <2>5. TableStep(p, t, m)
    BY <2>2, <2>3, <2>4 DEF TableStep
  <2>q. QED
    BY <1>0, <2>5, FilesChange
<1>5. CallsOK'
  <2> SUFFICES ASSUME NEW q \in Proc, pc'[q] # "user"
               PROVE  /\ fs_struct'[q] # NoTable
                      /\ call'[q].end \in End /\ call'[q].len > 0
                      /\ call'[q].ret < call'[q].len /\ call'[q].ret < IobufSize
                      /\ call'[q].end = "r" \/ pc'[q] = "loop" => call'[q].ret = 0
    BY DEF CallsOK
  <2>1. CASE q = p
    <3>1. /\ fs_struct'[p] = t /\ call'[p].end \in End
          /\ call'[p].len > 0 /\ call'[p].ret = 0
      BY <1>2, <2>1
    <3>2. call'[p].len \in Nat
      BY DEF Call
    <3>q. QED
      BY <1>0, <2>1, <3>1, <3>2
  <2>2. CASE q # p
    <3>1. pc[q] # "user" /\ (pc'[q] = "loop" => pc[q] = "loop")
      BY <1>2, <2>2
    <3>q. QED
      BY <1>0, <2>2, <3>1 DEF CallsOK
  <2>q. QED
    BY <2>1, <2>2
<1>6. TypeOK'
  <2>1. file' \in [Table -> [Fd -> Entry]]
    <3>1. file \in [Table -> [Fd -> Entry]] /\ Cleaned(m) \in [Fd -> Entry]
      BY <1>0, CleanedFacts DEF TypeOK, SameFiles
    <3>q. QED
      BY <3>1
  <2>q. QED
    BY <1>1, <1>2, <2>1 DEF TypeOK, Where
<1>7. NobodySleepsInVain'
  <2> SUFFICES ASSUME NEW q \in Proc, pc'[q] = "asleep"
               PROVE  /\ isclosed' = FALSE
                      /\ IF call'[q].end = "r" THEN p_rpos' = p_wpos'
                         ELSE p_wpos' - p_rpos' >= BufSize
    BY DEF NobodySleepsInVain, is_empty, is_full
  <2>1. q # p
    BY <1>3 DEF Parked
  <2>2. w[q] = "asleep" /\ isclosed' = FALSE /\ call'[q] = call[q]
    BY <1>2, <2>1
  <2>q. QED
    BY <2>1, <2>2 DEF OthersRightlyAsleep
<1>q. QED
  BY <1>1, <1>4, <1>5, <1>6, <1>7 DEF Inv

LEMMA OthersFinite ==
    ASSUME NEW p, NEW t, NEW d
    PROVE  /\ Users(t, d) \ {p} \in SUBSET Proc /\ IsFiniteSet(Users(t, d) \ {p})
           /\ Cardinality(Users(t, d) \ {p}) \in Nat
<1>1. Users(t, d) \ {p} \in SUBSET Proc
  BY DEF Users
<1>q. QED
  BY <1>1, Count

\* A file that is closed
LEMMA ClosedFacts ==
    ASSUME NEW f \in Entry, f.status = "OPENED" => f.count > 0
    PROVE  /\ Closed(f) \in Entry /\ Closed(f).node = f.node
           /\ Closed(f).status = "NONE" <=> f.status = "NONE"
           /\ Closed(f).status # "OPENED"
           /\ Closed(f).count = IF f.status = "OPENED" THEN f.count - 1 ELSE f.count
<1>1. CASE f.status = "OPENED"
  <2>1. f.count - 1 \in Nat /\ f.node \in End
    BY <1>1 DEF Entry
  <2>2. Closed(f) = [status |-> "CLOSED", node |-> f.node, count |-> f.count - 1]
    BY <1>1 DEF Closed, Entry
  <2>3. /\ Closed(f).status = "CLOSED" /\ Closed(f).node = f.node
        /\ Closed(f).count = f.count - 1
    BY <2>2
  <2>4. Closed(f) \in Entry
    BY <2>1, <2>2 DEF Entry
  <2>q. QED
    BY <1>1, <2>3, <2>4
<1>2. CASE f.status # "OPENED"
  BY <1>2 DEF Closed
<1>q. QED
  BY <1>1, <1>2

LEMMA LeaveOK ==
    ASSUME Inv, NEW p \in Proc, NEW t \in Table, fs_struct[p] = t, NEW exits \in BOOLEAN,
           NEW m, CountedWithout(p, t, m), NEW w, Leave(p, exits, m, w), w[p] = "user",
           Acts(p, w)
    PROVE  Inv'
<1> DEFINE lastUser == exits /\ \A q \in Proc \ {p} : fs_struct[q] # t
           m2 == IF lastUser THEN [d \in Fd |-> Closed(m[d])] ELSE m
<1>0. /\ TypeOK /\ m \in [Fd -> Entry] /\ t # NoTable
      /\ \A d \in Fd : Cardinality(Users(t, d) \ {p}) \in Nat
  BY OthersFinite DEF Inv, CountedWithout, SameFiles
<1>1. /\ file' = [file EXCEPT ![t] = Cleaned(m2)]
      /\ fs_struct' = [fs_struct EXCEPT ![p] = IF exits THEN NoTable ELSE t]
      /\ exiting' = [exiting EXCEPT ![p] = FALSE]
      /\ vfs_close(m2, w)
  BY DEF Leave, Cleaned
<1>2. /\ fs_struct' \in [Proc -> Table \cup {NoTable}]
      /\ fs_struct'[p] = IF exits THEN NoTable ELSE t
      /\ \A q \in Proc : q # p => fs_struct'[q] = fs_struct[q]
      /\ exiting' \in [Proc -> BOOLEAN]
  BY <1>0, <1>1 DEF TypeOK
<1>4. /\ SameFiles(m2, t)
      /\ \A d \in Fd : m2[d].count = Cardinality(Users(t, d) \ {p})
                                        + (IF m2[d].status = "OPENED" THEN 1 ELSE 0)
      /\ \/ \E q \in Proc : fs_struct'[q] = t
         \/ \A d \in Fd : m2[d].status = "NONE" \/ Gone(m2[d])
  <2>1. CASE ~lastUser
    <3>1. m2 = m
      BY <2>1
    <3>2. \E q \in Proc : fs_struct'[q] = t
      <4>1. CASE exits
        BY <1>2, <2>1, <4>1
      <4>2. CASE ~exits
        BY <1>2, <4>2
      <4>q. QED
        BY <4>1, <4>2
    <3>q. QED
      BY <3>1, <3>2 DEF CountedWithout
  <2>2. CASE lastUser
    <3>1. m2 = [d \in Fd |-> Closed(m[d])]
      BY <2>2
    <3>2. \A d \in Fd : m[d] \in Entry /\ (m[d].status = "OPENED" => m[d].count > 0)
      <4>1. ASSUME NEW d \in Fd PROVE m[d] \in Entry /\ (m[d].status = "OPENED" => m[d].count > 0)
        <5>1. m[d] \in Entry /\ Cardinality(Users(t, d) \ {p}) \in Nat
          BY <1>0
        <5>2. m[d].count = Cardinality(Users(t, d) \ {p})
                                        + (IF m[d].status = "OPENED" THEN 1 ELSE 0)
          BY DEF CountedWithout
        <5>q. QED
          BY <5>1, <5>2
      <4>q. QED
        BY <4>1
    <3>3. \A d \in Fd : m2[d] = Closed(m[d])
      BY <3>1
    <3> HIDE DEF m2
    <3>4. \A d \in Fd : /\ m2[d] \in Entry /\ m2[d].node = m[d].node
                        /\ m2[d].status = "NONE" <=> m[d].status = "NONE"
                        /\ m2[d].status # "OPENED"
                        /\ m2[d].count = IF m[d].status = "OPENED" THEN m[d].count - 1
                                         ELSE m[d].count
      BY <3>2, <3>3, ClosedFacts
    <3>5. \A d \in Fd : Users(t, d) \ {p} = {}
      BY <2>2 DEF Users
    <3>6. \A d \in Fd : Cardinality(Users(t, d) \ {p}) = 0
      BY <3>5, FS_EmptySet, Zenon
    <3>7. \A d \in Fd : m2[d].count = 0
      <4>1. ASSUME NEW d \in Fd PROVE m2[d].count = 0
        <5>1. m[d].count = Cardinality(Users(t, d) \ {p})
                                        + (IF m[d].status = "OPENED" THEN 1 ELSE 0)
          BY DEF CountedWithout
        <5>2. m[d].count = IF m[d].status = "OPENED" THEN 1 ELSE 0
          BY <3>6, <5>1
        <5>q. QED
          BY <3>4, <5>2
      <4>q. QED
        BY <4>1
    <3>8. SameFiles(m2, t)
      <4>1. m2 \in [Fd -> Entry]
        BY <3>1, <3>3, <3>4
      <4>q. QED
        BY <3>4, <4>1 DEF CountedWithout, SameFiles
    <3>9. \A d \in Fd : m2[d].status = "NONE" \/ Gone(m2[d])
      BY <3>4, <3>7 DEF Gone, Entry
    <3>10. \A d \in Fd : m2[d].count = Cardinality(Users(t, d) \ {p})
                                        + (IF m2[d].status = "OPENED" THEN 1 ELSE 0)
      BY <3>4, <3>6, <3>7
    <3>q. QED
      BY <3>8, <3>9, <3>10
  <2>q. QED
    BY <2>1, <2>2
<1> HIDE DEF m2
<1>5. CountedWithout(p, t, m2)
  BY <1>4 DEF CountedWithout
<1>6. Ends(p, t, m2, w)
  BY <1>1, <1>2, <1>4 DEF Ends
<1>q. QED
  BY <1>5, <1>6, EndsOK

\* A round of a call by p ends, which has transferred n bytes.
LEMMA RoundEndsOK ==
    ASSUME Inv, NEW p \in Proc, NEW t \in Table, fs_struct[p] = t,
           NEW c \in Call, c.end \in End, NEW n \in Nat, n <= c.len,
           NEW m, CountedWith(p, t, m, c.fd), NEW w, RoundEnds(p, c, m, n, w), Acts(p, w)
    PROVE  Inv'
<1> DEFINE m2 == [m EXCEPT ![c.fd].count = @ - 1]
           out == n = 0 \/ n = c.len
<1>0. /\ m \in [Fd -> Entry] /\ c.fd \in Fd /\ c.len \in Nat /\ TypeOK
      /\ w \in [Proc -> Where]
  BY DEF CountedWith, SameFiles, Call, Inv, Acts, OthersWoken
<1>1. CountedWithout(p, t, m2)
  <2>1. /\ m[c.fd].count - 1 \in Nat
        /\ m[c.fd].count = Cardinality(Users(t, c.fd) \ {p})
                                    + (IF m[c.fd].status = "OPENED" THEN 1 ELSE 0) + 1
    <3>1. Cardinality(Users(t, c.fd) \ {p}) \in Nat
      BY OthersFinite
    <3>2. m[c.fd].count = Cardinality(Users(t, c.fd) \ {p})
                                    + (IF m[c.fd].status = "OPENED" THEN 1 ELSE 0) + 1
      BY <1>0 DEF CountedWith
    <3>q. QED
      BY <3>1, <3>2
  <2>2. /\ m2 \in [Fd -> Entry]
        /\ \A d \in Fd : m2[d].status = m[d].status /\ m2[d].node = m[d].node
        /\ \A d \in Fd : d # c.fd => m2[d].count = m[d].count
        /\ m2[c.fd].count = m[c.fd].count - 1
    BY <1>0, <2>1 DEF Entry
  <2> HIDE DEF m2
  <2>3. SameFiles(m2, t)
    BY <2>2 DEF CountedWith, SameFiles
  <2>4. ASSUME NEW d \in Fd
        PROVE  m2[d].count = Cardinality(Users(t, d) \ {p})
                                    + (IF m2[d].status = "OPENED" THEN 1 ELSE 0)
    <3>1. Cardinality(Users(t, d) \ {p}) \in Nat
      BY OthersFinite
    <3>2. m[d].count = Cardinality(Users(t, d) \ {p})
                                    + (IF m[d].status = "OPENED" THEN 1 ELSE 0)
                                    + (IF d = c.fd THEN 1 ELSE 0)
      BY DEF CountedWith
    <3>3. CASE d = c.fd
      BY <2>2, <3>1, <3>2, <3>3
    <3>4. CASE d # c.fd
      BY <2>2, <3>1, <3>2, <3>4
    <3>q. QED
      BY <3>3, <3>4
  <2>q. QED
    BY <2>3, <2>4 DEF CountedWithout
<1>2. CASE out
  <2> DEFINE v == [w EXCEPT ![p] = "user"]
  <2>1. Leave(p, exiting[p], m2, v)
    BY <1>2 DEF RoundEnds, BackToUser
  <2>2. /\ v \in [Proc -> Where] /\ v[p] = "user"
        /\ \A q \in Proc : q # p => v[q] = w[q]
    BY <1>0 DEF Where
  <2> HIDE DEF v, m2
  <2>3. Acts(p, v)
    BY <2>2 DEF Acts, OthersWoken, OthersRightlyAsleep
  <2>4. exiting[p] \in BOOLEAN
    BY <1>0 DEF TypeOK
  <2>q. QED
    BY <1>1, <2>1, <2>2, <2>3, <2>4, LeaveOK
<1>3. CASE ~out
  <2> DEFINE v == [w EXCEPT ![p] = "loop"]
  <2>1. /\ vfs_close(m2, v)
        /\ file' = [file EXCEPT ![t] = Cleaned(m2)]
        /\ fs_struct' = fs_struct /\ exiting' = exiting
        /\ call' = [call EXCEPT ![p] = [c EXCEPT !.len = @ - n, !.ret = 0]]
    BY <1>3 DEF RoundEnds, Cleaned
  <2>2. /\ v \in [Proc -> Where] /\ v[p] = "loop"
        /\ \A q \in Proc : q # p => v[q] = w[q]
    BY <1>0 DEF Where
  <2>3. call'[p].end \in End /\ call'[p].len > 0 /\ call'[p].ret = 0
    <3>1. call'[p] = [c EXCEPT !.len = @ - n, !.ret = 0]
      BY <1>0, <2>1 DEF TypeOK
    <3>q. QED
      BY <1>0, <1>3, <3>1 DEF Call
  <2> HIDE DEF v, m2
  <2>4. Acts(p, v)
    BY <2>2 DEF Acts, OthersWoken, OthersRightlyAsleep
  <2>5. /\ fs_struct' \in [Proc -> Table \cup {NoTable}] /\ exiting' \in [Proc -> BOOLEAN]
        /\ fs_struct'[p] = t
        /\ \A q \in Proc : q # p => fs_struct'[q] = fs_struct[q]
    BY <1>0, <2>1 DEF TypeOK
  <2>6. Ends(p, t, m2, v)
    BY <2>1, <2>2, <2>3, <2>5 DEF Ends
  <2>q. QED
    BY <1>1, <2>4, <2>6, EndsOK
<1>q. QED
  BY <1>2, <1>3
\* A call of p goes to sleep.
LEMMA WaitOK ==
    ASSUME Inv, NEW p \in Proc, NEW t \in Table, fs_struct[p] = t,
           NEW c \in Call, c.end \in End, c.len > 0, c.ret < c.len, c.ret < IobufSize,
           c.end = "r" => c.ret = 0,
           NEW m, CountedWith(p, t, m, c.fd), m[c.fd].node = c.end,
           NEW w, pipe_state_wait(p, c, m, w), Acts(p, w), isclosed = FALSE,
           IF c.end = "r" THEN p_rpos' = p_wpos' ELSE p_wpos' - p_rpos' >= BufSize
    PROVE  Inv'
<1>0. /\ m \in [Fd -> Entry] /\ c.fd \in Fd /\ c.len \in Nat /\ c.ret \in Nat
      /\ w \in [Proc -> Where] /\ t # NoTable /\ SameFiles(m, t)
      /\ \A d \in Fd : ~Gone(m[d])
      /\ TypeOK /\ CallsOK /\ FilesOK /\ InodesOK
  BY DEF CountedWith, SameFiles, Call, Inv, Acts, OthersWoken
<1>1. /\ pc' = [w EXCEPT ![p] = "asleep"]
      /\ call' = [call EXCEPT ![p] = c]
      /\ file' = [file EXCEPT ![t] = m]
      /\ fs_struct' = fs_struct /\ open' = open /\ ref' = ref /\ isclosed' = isclosed
      /\ ref_count' = ref_count /\ exiting' = exiting
  BY DEF pipe_state_wait
<1>2. Cleaned(m) = m
  <2>1. \A d \in Fd : Cleaned(m)[d] = m[d] /\ Cleaned(m) \in [Fd -> Entry]
    BY <1>0, CleanedFacts
  <2>2. Cleaned(m) = [d \in Fd |-> Cleaned(m)[d]] /\ m = [d \in Fd |-> m[d]]
    BY <1>0 DEF Cleaned
  <2>q. QED
    BY <2>1, <2>2
<1>3. file' = [file EXCEPT ![t] = Cleaned(m)]
  BY <1>1, <1>2, Zenon
<1>4. /\ pc' \in [Proc -> Where] /\ pc'[p] = "asleep" /\ call'[p] = c
      /\ call' \in [Proc -> Call]
      /\ \A q \in Proc : q # p =>
            /\ call'[q] = call[q] /\ pc'[q] = w[q]
            /\ pc'[q] = pc[q] \/ (pc[q] \in {"asleep", "interrupted"} /\ pc'[q] = "woken")
  <2>1. \A q \in Proc : q # p =>
            w[q] = pc[q] \/ (pc[q] \in {"asleep", "interrupted"} /\ w[q] = "woken")
    BY DEF Acts, OthersWoken
  <2>2. /\ pc' \in [Proc -> Where] /\ pc'[p] = "asleep"
        /\ \A q \in Proc : q # p => pc'[q] = w[q]
    BY <1>0, <1>1 DEF Where
  <2>3. /\ call'[p] = c /\ call' \in [Proc -> Call]
        /\ \A q \in Proc : q # p => call'[q] = call[q]
    BY <1>0, <1>1 DEF TypeOK
  <2>q. QED
    BY <2>1, <2>2, <2>3
<1>5. \A q \in Proc : q # p => (InRound(q)' <=> InRound(q))
  BY <1>4 DEF InRound
<1>6. FilesOK'
  <2>1. ASSUME NEW d \in Fd
        PROVE  Users(t, d)' = (Users(t, d) \ {p}) \cup (IF d = c.fd THEN {p} ELSE {})
    <3>1. ASSUME NEW q \in Proc
          PROVE  q \in Users(t, d)' <=>
                    q \in (Users(t, d) \ {p}) \cup (IF d = c.fd THEN {p} ELSE {})
      <4>1. CASE q = p
        BY <1>1, <1>4, <4>1 DEF Users, InRound
      <4>2. CASE q # p
        BY <1>1, <1>4, <1>5, <4>2 DEF Users
      <4>q. QED
        BY <4>1, <4>2
    <3>2. Users(t, d)' \subseteq Proc /\ Users(t, d) \subseteq Proc
      BY DEF Users
    <3>q. QED
      BY <3>1, <3>2
  <2>2. ASSUME NEW d \in Fd
        PROVE  Cardinality(Users(t, d)') = Cardinality(Users(t, d) \ {p})
                                            + (IF d = c.fd THEN 1 ELSE 0)
    <3>0. IsFiniteSet(Users(t, d) \ {p}) /\ Cardinality(Users(t, d) \ {p}) \in Nat
      BY OthersFinite
    <3>1. CASE d = c.fd
      <4>1. Users(t, d)' = (Users(t, d) \ {p}) \cup {p}
        BY <2>1, <3>1
      <4>2. Cardinality((Users(t, d) \ {p}) \cup {p}) = Cardinality(Users(t, d) \ {p}) + 1
        BY <3>0, FS_AddElement
      <4>q. QED
        BY <3>1, <4>1, <4>2
    <3>2. CASE d # c.fd
      <4>1. Users(t, d)' = Users(t, d) \ {p}
        BY <2>1, <3>2
      <4>2. Cardinality(Users(t, d)') = Cardinality(Users(t, d) \ {p})
        BY <4>1, Zenon
      <4>q. QED
        BY <3>0, <3>2, <4>2
    <3>q. QED
      BY <3>1, <3>2
  <2>3. \A d \in Fd : m[d].count = Cardinality(Users(t, d)')
                                        + (IF m[d].status = "OPENED" THEN 1 ELSE 0)
    <3> SUFFICES ASSUME NEW d \in Fd
                 PROVE  m[d].count = Cardinality(Users(t, d)')
                                        + (IF m[d].status = "OPENED" THEN 1 ELSE 0)
      OBVIOUS
    <3>1. m[d].count = Cardinality(Users(t, d) \ {p})
                                    + (IF m[d].status = "OPENED" THEN 1 ELSE 0)
                                    + (IF d = c.fd THEN 1 ELSE 0)
      BY DEF CountedWith
    <3>2. Cardinality(Users(t, d) \ {p}) \in Nat
      BY OthersFinite
    <3>q. QED
      BY <2>2, <3>1, <3>2
  <2>4. /\ call'[p].fd \in Fd /\ m[call'[p].fd].status # "NONE"
        /\ m[call'[p].fd].node = call'[p].end /\ fs_struct'[p] = t
    BY <1>0, <1>1, <1>4 DEF CountedWith
  <2>5. \A q \in Proc : q # p => /\ fs_struct'[q] = fs_struct[q] /\ call'[q] = call[q]
                                 /\ InRound(q)' <=> InRound(q)
    BY <1>1, <1>4, <1>5
  <2>6. TableStep(p, t, m)
    BY <1>0, <1>3, <2>3, <2>4, <2>5 DEF TableStep
  <2>q. QED
    BY <1>0, <2>6, FilesChange
<1>7. InodesOK'
  <2>1. ASSUME NEW e \in End PROVE Cardinality(Refs(e)') = Cardinality(Refs(e))
    <3>1. GoneAt(m, e) = {}
      BY <1>0 DEF GoneAt
    <3>2. Cardinality(GoneAt(m, e)) = 0
      BY <3>1, FS_EmptySet, Zenon
    <3>3. PICK n \in Nat : n = Cardinality(Refs(e))
      BY RefsFinite
    <3>4. Cardinality(Refs(e)') = n - Cardinality(GoneAt(m, e))
      BY <1>0, <1>3, <3>3, RefsChange
    <3>q. QED
      BY <3>2, <3>3, <3>4
  <2>2. \A e \in End : open'[e] = Cardinality(Refs(e)') /\ ref'[e] = open'[e]
    BY <1>0, <1>1, <2>1 DEF InodesOK
  <2>3. /\ ref_count' = Cardinality({e \in End : ref'[e] > 0})
        /\ isclosed' = FALSE => \A e \in End : open'[e] > 0
    BY <1>0, <1>1, Zenon DEF InodesOK
  <2>q. QED
    BY <2>2, <2>3 DEF InodesOK
<1>8. CallsOK'
  <2> SUFFICES ASSUME NEW q \in Proc, pc'[q] # "user"
               PROVE  /\ fs_struct'[q] # NoTable
                      /\ call'[q].end \in End /\ call'[q].len > 0
                      /\ call'[q].ret < call'[q].len /\ call'[q].ret < IobufSize
                      /\ call'[q].end = "r" \/ pc'[q] = "loop" => call'[q].ret = 0
    BY DEF CallsOK
  <2>1. CASE q = p
    BY <1>0, <1>1, <1>4, <2>1
  <2>2. CASE q # p
    <3>1. pc[q] # "user" /\ (pc'[q] = "loop" => pc[q] = "loop")
      BY <1>4, <2>2
    <3>q. QED
      BY <1>0, <1>1, <1>4, <2>2, <3>1 DEF CallsOK
  <2>q. QED
    BY <2>1, <2>2
<1>9. TypeOK' /\ BufferOK'
  <2>1. file' \in [Table -> [Fd -> Entry]]
    BY <1>0, <1>1 DEF TypeOK
  <2>2. /\ BufferOK' /\ p_rpos' \in Nat /\ p_wpos' \in Nat
        /\ buf' \in [0 .. BufSize - 1 -> Nat]
    BY DEF Acts
  <2>q. QED
    BY <1>0, <1>1, <1>4, <2>1, <2>2 DEF TypeOK, Where
<1>10. NobodySleepsInVain'
  <2> SUFFICES ASSUME NEW q \in Proc, pc'[q] = "asleep"
               PROVE  /\ isclosed' = FALSE
                      /\ IF call'[q].end = "r" THEN p_rpos' = p_wpos'
                         ELSE p_wpos' - p_rpos' >= BufSize
    BY DEF NobodySleepsInVain, is_empty, is_full
  <2>1. CASE q = p
    BY <1>1, <1>4, <2>1
  <2>2. CASE q # p
    <3>1. w[q] = "asleep" /\ call'[q] = call[q]
      BY <1>4, <2>2
    <3>q. QED
      BY <1>1, <2>2, <3>1 DEF Acts, OthersRightlyAsleep
  <2>q. QED
    BY <2>1, <2>2
<1>q. QED
  BY <1>6, <1>7, <1>8, <1>9, <1>10 DEF Inv

\* A call that enters the pipe has marked its file ...
LEMMA AcquireOK ==
    ASSUME Inv, NEW p \in Proc, NEW t \in Table, fs_struct[p] = t, pc[p] \notin Parked,
           NEW d \in Fd, NEW e, Usable(p, d, e)
    PROVE  /\ CountedWith(p, t, filemap_acquire(p, d), d)
           /\ filemap_acquire(p, d)[d].node = e
<1> DEFINE m == filemap_acquire(p, d)
<1>0. /\ file[t] \in [Fd -> Entry] /\ file[t][d].status = "OPENED" /\ file[t][d].node = e
      /\ file[t][d].count \in Nat
      /\ FilesOK
  BY DEF Inv, TypeOK, Usable, Files, Entry
<1>1. m = [file[t] EXCEPT ![d].count = @ + 1]
  BY DEF filemap_acquire, Files
<1>2. /\ m \in [Fd -> Entry]
      /\ \A x \in Fd : m[x].status = file[t][x].status /\ m[x].node = file[t][x].node
      /\ \A x \in Fd : m[x].count = file[t][x].count + (IF x = d THEN 1 ELSE 0)
  BY <1>0, <1>1 DEF Entry
<1> HIDE DEF m
<1>3. \A x \in Fd : Users(t, x) \ {p} = Users(t, x)
  BY DEF Users, InRound, Parked
<1>4. ASSUME NEW x \in Fd
      PROVE  /\ m[x].count = Cardinality(Users(t, x) \ {p})
                                    + (IF m[x].status = "OPENED" THEN 1 ELSE 0)
                                    + (IF x = d THEN 1 ELSE 0)
             /\ ~Gone(m[x])
  <2>1. Cardinality(Users(t, x) \ {p}) = Cardinality(Users(t, x))
    BY <1>3, Zenon
  <2>2. /\ file[t][x].count = Cardinality(Users(t, x))
                                    + (IF file[t][x].status = "OPENED" THEN 1 ELSE 0)
        /\ file[t][x].status = "CLOSED" => file[t][x].count # 0
    BY <1>0 DEF FilesOK
  <2>3. Cardinality(Users(t, x)) \in Nat
    BY UsersFinite
  <2>4. m[x].count = Cardinality(Users(t, x) \ {p})
                                    + (IF m[x].status = "OPENED" THEN 1 ELSE 0)
                                    + (IF x = d THEN 1 ELSE 0)
    BY <1>2, <2>1, <2>2, <2>3
  <2>5. ~Gone(m[x])
    BY <1>2, <2>2, <2>3 DEF Gone
  <2>q. QED
    BY <2>4, <2>5
<1>5. SameFiles(m, t)
  BY <1>2 DEF SameFiles
<1>6. m[d].status # "NONE" /\ m[d].node = e
  BY <1>0, <1>2
<1>7. CountedWith(p, t, m, d)
  BY <1>4, <1>5, <1>6 DEF CountedWith
<1>q. QED
  BY <1>6, <1>7 DEF m

\* ... and one that is in it holds it.
LEMMA HeldOK ==
    ASSUME Inv, NEW p \in Proc, NEW t \in Table, fs_struct[p] = t, pc[p] \in Parked
    PROVE  /\ CountedWith(p, t, Files(p), call[p].fd)
           /\ Files(p)[call[p].fd].node = call[p].end
<1>0. /\ file[t] \in [Fd -> Entry] /\ call[p].fd \in Fd /\ FilesOK /\ Files(p) = file[t]
  BY DEF Inv, TypeOK, Files, Call
<1>1. file[t][call[p].fd].status # "NONE" /\ file[t][call[p].fd].node = call[p].end
  BY <1>0 DEF FilesOK, InRound, Parked
<1>2. ASSUME NEW d \in Fd
      PROVE  /\ file[t][d].count = Cardinality(Users(t, d) \ {p})
                                    + (IF file[t][d].status = "OPENED" THEN 1 ELSE 0)
                                    + (IF d = call[p].fd THEN 1 ELSE 0)
             /\ ~Gone(file[t][d])
  <2>1. /\ file[t][d].count = Cardinality(Users(t, d))
                                    + (IF file[t][d].status = "OPENED" THEN 1 ELSE 0)
        /\ file[t][d].status = "CLOSED" => file[t][d].count # 0
    BY <1>0 DEF FilesOK
  <2>2. IsFiniteSet(Users(t, d) \ {p}) /\ Cardinality(Users(t, d) \ {p}) \in Nat
    BY OthersFinite
  <2>3. Cardinality(Users(t, d)) = Cardinality(Users(t, d) \ {p})
                                    + (IF d = call[p].fd THEN 1 ELSE 0)
    <3>1. CASE d = call[p].fd
      <4>1. Users(t, d) = (Users(t, d) \ {p}) \cup {p}
        BY <3>1 DEF Users, InRound, Parked
      <4>2. Cardinality((Users(t, d) \ {p}) \cup {p}) = Cardinality(Users(t, d) \ {p}) + 1
        BY <2>2, FS_AddElement
      <4>3. Cardinality(Users(t, d)) = Cardinality((Users(t, d) \ {p}) \cup {p})
        BY <4>1, Zenon
      <4>q. QED
        BY <3>1, <4>2, <4>3
    <3>2. CASE d # call[p].fd
      <4>1. Users(t, d) = Users(t, d) \ {p}
        BY <3>2 DEF Users
      <4>2. Cardinality(Users(t, d)) = Cardinality(Users(t, d) \ {p})
        BY <4>1, Zenon
      <4>q. QED
        BY <2>2, <3>2, <4>2
    <3>q. QED
      BY <3>1, <3>2
  <2>q. QED
    BY <2>1, <2>2, <2>3 DEF Gone
<1>3. SameFiles(file[t], t)
  BY <1>0 DEF SameFiles
<1>q. QED
  BY <1>0, <1>1, <1>2, <1>3 DEF CountedWith
-----------------------------------------------------------------------------
(* The calls                                                                *)

\* A call that has something left to transfer
GoodCall(c) ==
    /\ c \in Call /\ c.end \in End /\ c.len > 0
    /\ c.ret < c.len /\ c.ret < IobufSize
    /\ c.end = "r" => c.ret = 0

LEMMA WantFacts ==
    ASSUME NEW c, GoodCall(c)
    PROVE  /\ Want(c) \in Nat /\ Want(c) >= 1
           /\ c.len \in Nat /\ c.ret \in Nat /\ c.ret + Want(c) <= c.len
           /\ c.ret + Want(c) <= IobufSize
<1>1. c.len \in Nat /\ c.ret \in Nat /\ c.ret < c.len /\ c.ret < IobufSize /\ IobufSize \in Nat
  BY DEF GoodCall, Call
<1> DEFINE a == Min({IobufSize, c.len})
<1>2. a \in {IobufSize, c.len} /\ a <= IobufSize /\ a <= c.len /\ a \in Int
  <2>1. IobufSize \in Int /\ c.len \in Int
    BY <1>1
  <2>q. QED
    BY <2>1, MinOfAnyTwo, Zenon
<1>3. Want(c) = a - c.ret
  BY DEF Want
<1> HIDE DEF a
<1>q. QED
  BY <1>1, <1>2, <1>3

\* Who sleeps before a pass of p, and who after its wakeups
LEMMA Sleepers ==
    ASSUME Inv
    PROVE  /\ pc \in [Proc -> Where]
           /\ \A p \in Proc : OthersWoken(p, pc)
           /\ \A p \in Proc, e \in End : OthersWoken(p, pipe_state_wakeup(pc, e))
           /\ \A q \in Proc : pc[q] = "asleep" =>
                /\ isclosed = FALSE /\ call[q].end \in End
                /\ IF call[q].end = "r" THEN p_rpos = p_wpos ELSE p_wpos - p_rpos >= BufSize
           /\ \A q \in Proc, e \in End : pipe_state_wakeup(pc, e)[q] = "asleep" =>
                pc[q] = "asleep" /\ call[q].end # e
<1>1. pc \in [Proc -> Where]
  BY DEF Inv, TypeOK, Where
<1>2. \A e \in End : /\ pipe_state_wakeup(pc, e) \in [Proc -> Where]
           /\ \A q \in Proc : \/ /\ pipe_state_wakeup(pc, e)[q] = pc[q]
                                 /\ pc[q] \in {"asleep", "interrupted"} => call[q].end # e
                              \/ /\ pc[q] \in {"asleep", "interrupted"} /\ call[q].end = e
                                 /\ pipe_state_wakeup(pc, e)[q] = "woken"
  BY <1>1, WakeupFacts
<1>3. \A p \in Proc : OthersWoken(p, pc)
  BY <1>1 DEF OthersWoken
<1>4. \A p \in Proc, e \in End : OthersWoken(p, pipe_state_wakeup(pc, e))
  BY <1>2 DEF OthersWoken
<1>5. ASSUME NEW q \in Proc, pc[q] = "asleep"
      PROVE  /\ isclosed = FALSE /\ call[q].end \in End
             /\ IF call[q].end = "r" THEN p_rpos = p_wpos ELSE p_wpos - p_rpos >= BufSize
  <2>1. NobodySleepsInVain /\ CallsOK /\ isclosed \in BOOLEAN
    BY DEF Inv, TypeOK
  <2>2. ~isclosed /\ IF call[q].end = "r" THEN is_empty ELSE is_full
    BY <1>5, <2>1 DEF NobodySleepsInVain
  <2>q. QED
    BY <1>5, <2>1, <2>2 DEF CallsOK, is_empty, is_full
<1>6. ASSUME NEW q \in Proc, NEW e \in End, pipe_state_wakeup(pc, e)[q] = "asleep"
      PROVE  pc[q] = "asleep" /\ call[q].end # e
  BY <1>2, <1>6
<1>q. QED
  BY <1>1, <1>3, <1>4, <1>5, <1>6

LEMMA LessToDo ==
    ASSUME NEW c \in Call, NEW n \in Nat, n <= c.len
    PROVE  [c EXCEPT !.len = @ - n, !.ret = 0] \in Call
<1> DEFINE d == [c EXCEPT !.len = @ - n]
<1>1. d \in Call
  BY DEF Call
<1>2. [c EXCEPT !.len = @ - n, !.ret = 0] = [d EXCEPT !.ret = 0]
  OBVIOUS
<1> HIDE DEF d
<1>3. [d EXCEPT !.ret = 0] \in Call
  BY <1>1 DEF Call
<1>q. QED
  BY <1>2, <1>3

\* What the call of p becomes
LEMMA RoundCall ==
    ASSUME TypeOK, NEW p \in Proc, NEW c, GoodCall(c), NEW n \in Nat, n <= c.len,
           NEW m, NEW w, RoundEnds(p, c, m, n, w)
    PROVE  call' \in [Proc -> Call] /\ \A q \in Proc : q # p => call'[q] = call[q]
<1> DEFINE new == IF n = 0 \/ n = c.len THEN NoCall ELSE [c EXCEPT !.len = @ - n, !.ret = 0]
<1>1. call' = [call EXCEPT ![p] = new] /\ call \in [Proc -> Call]
  BY DEF RoundEnds, TypeOK
<1>2. NoCall \in Call
  BY DEF NoCall, Call, Fd
<1>3. [c EXCEPT !.len = @ - n, !.ret = 0] \in Call
  BY LessToDo DEF GoodCall
<1>4. new \in Call
  BY <1>2, <1>3
<1> HIDE DEF new
<1>q. QED
  BY <1>1, <1>4

LEMMA ReadPassOK ==
    ASSUME Inv, NEW p \in Proc, NEW t \in Table, fs_struct[p] = t,
           NEW c, GoodCall(c), c.end = "r",
           NEW m, CountedWith(p, t, m, c.fd), m[c.fd].node = c.end, pipe_state_read(p, c, m)
    PROVE  Inv'
<1>0. /\ TypeOK /\ BufferOK /\ p_rpos \in Nat /\ p_wpos \in Nat /\ p_rpos <= p_wpos
      /\ BufSize \in Nat \ {0} /\ isclosed \in BOOLEAN
      /\ buf \in [0 .. BufSize - 1 -> Nat] /\ call \in [Proc -> Call] /\ c \in Call
  BY DEF Inv, TypeOK, BufferOK, GoodCall
<1>1. PICK k : /\ k = Min({Want(c), p_wpos - p_rpos})
               /\ \/ is_empty /\ isclosed /\ RoundEnds(p, c, m, 0, pc)
                  \/ is_empty /\ ~isclosed /\ pipe_state_wait(p, c, m, pc)
                  \/ ~is_empty /\ RoundEnds(p, c, m, k, pipe_state_wakeup(pc, "w"))
               /\ rcvd' = rcvd \o [i \in 1 .. k |-> buf[(p_rpos + i - 1) % BufSize]]
               /\ p_rpos' = p_rpos + k /\ p_wpos' = p_wpos /\ buf' = buf
  BY DEF pipe_state_read
<1>2. /\ k \in Nat /\ k <= p_wpos - p_rpos /\ k <= c.len
      /\ is_empty => k = 0
      /\ c.len \in Nat
  <2>1. Want(c) \in Nat /\ Want(c) >= 1 /\ c.len \in Nat /\ Want(c) <= c.len
    BY WantFacts
  <2>2. /\ k \in {Want(c), p_wpos - p_rpos} /\ k <= Want(c) /\ k <= p_wpos - p_rpos
        /\ k \in Int
    <3>1. Want(c) \in Int /\ p_wpos - p_rpos \in Int
      BY <1>0, <2>1
    <3>2. k = Min({Want(c), p_wpos - p_rpos})
      BY <1>1
    <3>q. QED
      BY <3>1, <3>2, MinOfAnyTwo, Zenon
  <2>q. QED
    BY <1>0, <2>1, <2>2 DEF is_empty
<1>3. BufferOK' /\ p_rpos' \in Nat /\ p_wpos' \in Nat /\ buf' \in [0 .. BufSize - 1 -> Nat]
  BY <1>0, <1>1, <1>2, ReadOK
<1>4. CASE is_empty /\ isclosed /\ RoundEnds(p, c, m, 0, pc)
  <2>1. call' \in [Proc -> Call] /\ \A q \in Proc : q # p => call'[q] = call[q]
    BY <1>0, <1>2, <1>4, RoundCall
  <2>2. OthersRightlyAsleep(p, pc, p_rpos', p_wpos')
    BY <1>0, <1>4, Sleepers DEF OthersRightlyAsleep
  <2>3. Acts(p, pc)
    BY <1>3, <2>1, <2>2, Sleepers DEF Acts
  <2>q. QED
    BY <1>0, <1>2, <1>4, <2>3, RoundEndsOK DEF GoodCall
<1>5. CASE is_empty /\ ~isclosed /\ pipe_state_wait(p, c, m, pc)
  <2>1. call' \in [Proc -> Call] /\ \A q \in Proc : q # p => call'[q] = call[q]
    BY <1>0, <1>5 DEF pipe_state_wait
  <2>2. p_rpos' = p_rpos /\ p_rpos = p_wpos /\ p_wpos' = p_wpos
    BY <1>0, <1>1, <1>2, <1>5 DEF is_empty
  <2>3. OthersRightlyAsleep(p, pc, p_rpos', p_wpos')
    BY <2>2, Sleepers DEF OthersRightlyAsleep
  <2>4. Acts(p, pc)
    BY <1>3, <2>1, <2>3, Sleepers DEF Acts
  <2>q. QED
    BY <1>0, <1>5, <2>2, <2>4, WaitOK DEF GoodCall
<1>6. CASE ~is_empty /\ RoundEnds(p, c, m, k, pipe_state_wakeup(pc, "w"))
  <2> DEFINE w == pipe_state_wakeup(pc, "w")
  <2>1. call' \in [Proc -> Call] /\ \A q \in Proc : q # p => call'[q] = call[q]
    BY <1>0, <1>2, <1>6, RoundCall
  <2>2. \A q \in Proc : w[q] # "asleep"
    BY <1>6, Sleepers DEF End, is_empty
  <2>3. OthersWoken(p, w)
    BY Sleepers DEF End
  <2>4. RoundEnds(p, c, m, k, w)
    BY <1>6
  <2> HIDE DEF w
  <2>5. OthersRightlyAsleep(p, w, p_rpos', p_wpos')
    BY <2>2 DEF OthersRightlyAsleep
  <2>6. Acts(p, w)
    BY <1>3, <2>1, <2>3, <2>5 DEF Acts
  <2>q. QED
    BY <1>0, <1>2, <2>4, <2>6, RoundEndsOK DEF GoodCall
<1>q. QED
  BY <1>1, <1>4, <1>5, <1>6

LEMMA WritePassOK ==
    ASSUME Inv, NEW p \in Proc, NEW t \in Table, fs_struct[p] = t,
           NEW c, GoodCall(c), c.end = "w",
           NEW m, CountedWith(p, t, m, c.fd), m[c.fd].node = c.end, pipe_state_write(p, c, m)
    PROVE  Inv'
<1>0. /\ TypeOK /\ BufferOK /\ p_rpos \in Nat /\ p_wpos \in Nat /\ p_rpos <= p_wpos
      /\ p_wpos <= p_rpos + BufSize
      /\ BufSize \in Nat \ {0} /\ isclosed \in BOOLEAN
      /\ buf \in [0 .. BufSize - 1 -> Nat] /\ call \in [Proc -> Call] /\ c \in Call
  BY DEF Inv, TypeOK, BufferOK, GoodCall
<1>w. /\ Want(c) \in Nat /\ Want(c) >= 1 /\ c.len \in Nat /\ c.ret + Want(c) <= c.len
      /\ c.ret \in Nat /\ c.ret < c.len /\ c.ret + Want(c) <= IobufSize
  BY WantFacts DEF GoodCall
<1> DEFINE w == pipe_state_wakeup(pc, "r")
<1>1. PICK k : /\ k = IF isclosed THEN 0 ELSE Min({Want(c), Room})
               /\ \/ isclosed /\ RoundEnds(p, c, m, c.ret, pc)
                  \/ /\ ~isclosed /\ k < Want(c)
                     /\ pipe_state_wait(p, [c EXCEPT !.ret = @ + k], m, w)
                  \/ /\ ~isclosed /\ k = Want(c)
                     /\ RoundEnds(p, c, m, [c EXCEPT !.ret = @ + k].ret, w)
               /\ p_wpos' = p_wpos + k
               /\ buf' = [i \in DOMAIN buf |->
                    LET new == {j \in 0 .. k - 1 : (p_wpos + j) % BufSize = i}
                    IN IF new = {} THEN buf[i] ELSE p_wpos + Max(new) + 1]
               /\ p_rpos' = p_rpos /\ rcvd' = rcvd
  BY DEF pipe_state_write
<1>2. /\ Room \in Nat /\ k \in Nat /\ k <= Room
      /\ ~isclosed => k <= Want(c) /\ (k = Want(c) \/ k = Room)
  <2>1. Room \in Nat
    BY <1>0 DEF Room
  <2>2. CASE isclosed
    BY <1>1, <2>1, <2>2
  <2>3. CASE ~isclosed
    <3>1. k = Min({Want(c), Room})
      BY <1>1, <2>3
    <3>2. k \in {Want(c), Room} /\ k <= Want(c) /\ k <= Room
      <4>1. Want(c) \in Int /\ Room \in Int
        BY <1>w, <2>1
      <4>q. QED
        BY <3>1, <4>1, MinOfAnyTwo, Zenon
    <3>q. QED
      BY <1>w, <2>1, <3>2
  <2>q. QED
    BY <2>2, <2>3
<1>3. BufferOK' /\ p_rpos' \in Nat /\ p_wpos' \in Nat /\ buf' \in [0 .. BufSize - 1 -> Nat]
  <2>1. /\ BufferOK' /\ p_wpos' \in Nat /\ buf' \in [0 .. BufSize - 1 -> Nat]
    BY <1>0, <1>1, <1>2, WriteOK
  <2>q. QED
    BY <1>0, <1>1, <2>1, Zenon
<1>4. p_wpos' = p_wpos + k /\ p_rpos' = p_rpos
  BY <1>1
<1>5. CASE isclosed /\ RoundEnds(p, c, m, c.ret, pc)
  <2>1. call' \in [Proc -> Call] /\ \A q \in Proc : q # p => call'[q] = call[q]
    BY <1>0, <1>w, <1>5, RoundCall
  <2>2. OthersRightlyAsleep(p, pc, p_rpos', p_wpos')
    BY <1>0, <1>5, Sleepers DEF OthersRightlyAsleep
  <2>3. Acts(p, pc)
    BY <1>3, <2>1, <2>2, Sleepers DEF Acts
  <2>q. QED
    BY <1>0, <1>w, <1>5, <2>3, RoundEndsOK, SMTT(30) DEF GoodCall
<1>6. /\ OthersWoken(p, w)
      /\ \A q \in Proc : w[q] = "asleep" => /\ pc[q] = "asleep" /\ call[q].end # "r"
                                            /\ p_wpos - p_rpos >= BufSize
  BY Sleepers DEF End
<1> HIDE DEF w
<1>7. CASE ~isclosed /\ k < Want(c) /\ pipe_state_wait(p, [c EXCEPT !.ret = @ + k], m, w)
  <2> DEFINE c2 == [c EXCEPT !.ret = @ + k]
  <2>1. pipe_state_wait(p, c2, m, w)
    BY <1>7
  <2>2. /\ c2 \in Call /\ c2.end = "w" /\ c2.fd = c.fd /\ c2.len = c.len
        /\ c2.ret = c.ret + k
    <3>1. c = [end |-> "w", fd |-> c.fd, len |-> c.len, ret |-> c.ret]
      BY <1>0 DEF Call
    <3>2. c2 = [end |-> "w", fd |-> c.fd, len |-> c.len, ret |-> c.ret + k]
      BY <3>1
    <3>3. c.ret + k \in Nat /\ c.len \in Nat /\ c.fd \in Fd
      BY <1>0, <1>w, <1>2 DEF Call
    <3> HIDE DEF c2
    <3>q. QED
      BY <3>2, <3>3 DEF Call
  <2> HIDE DEF c2
  <2>3. c2.end \in End /\ c2.len > 0 /\ c2.ret < c2.len /\ c2.ret < IobufSize
    BY <1>w, <1>2, <1>7, <2>2 DEF End
  <2>4. call' \in [Proc -> Call] /\ \A q \in Proc : q # p => call'[q] = call[q]
    BY <1>0, <2>1, <2>2 DEF pipe_state_wait
  <2>5. p_wpos' - p_rpos' >= BufSize
    BY <1>0, <1>2, <1>4, <1>7 DEF Room
  <2>6. OthersRightlyAsleep(p, w, p_rpos', p_wpos')
    BY <1>6, <2>5 DEF OthersRightlyAsleep
  <2>7. Acts(p, w)
    BY <1>3, <1>6, <2>4, <2>6 DEF Acts
  <2>8. CountedWith(p, t, m, c2.fd) /\ m[c2.fd].node = c2.end /\ isclosed = FALSE
    BY <1>0, <1>7, <2>2
  <2>9. c2.end # "r"
    BY <2>2
  <2>q. QED
    BY <2>1, <2>2, <2>3, <2>5, <2>7, <2>8, <2>9, WaitOK
<1>8. CASE ~isclosed /\ k = Want(c) /\ RoundEnds(p, c, m, [c EXCEPT !.ret = @ + k].ret, w)
  <2>1. [c EXCEPT !.ret = @ + k].ret = c.ret + k
    BY <1>0 DEF Call
  <2>2. PICK n \in Nat : n = c.ret + k
    BY <1>w, <1>2
  <2>3. RoundEnds(p, c, m, n, w) /\ n <= c.len
    BY <1>w, <1>8, <2>1, <2>2
  <2>4. call' \in [Proc -> Call] /\ \A q \in Proc : q # p => call'[q] = call[q]
    BY <1>0, <2>3, RoundCall
  <2>5. \A q \in Proc : w[q] # "asleep"
    BY <1>0, <1>w, <1>2, <1>6, <1>8, SMTT(30) DEF Room
  <2>6. OthersRightlyAsleep(p, w, p_rpos', p_wpos')
    BY <2>5 DEF OthersRightlyAsleep
  <2>7. Acts(p, w)
    BY <1>3, <1>6, <2>4, <2>6 DEF Acts
  <2>q. QED
    BY <1>0, <2>3, <2>7, RoundEndsOK DEF GoodCall
<1>q. QED
  BY <1>1, <1>5, <1>7, <1>8
LEMMA PassOK ==
    ASSUME Inv, NEW p \in Proc, NEW t \in Table, fs_struct[p] = t, NEW c, GoodCall(c),
           NEW m, CountedWith(p, t, m, c.fd), m[c.fd].node = c.end, Pass(p, c, m)
    PROVE  Inv'
<1>1. CASE c.end = "r"
  <2>1. pipe_state_read(p, c, m)
    BY <1>1 DEF Pass
  <2>q. QED
    BY <1>1, <2>1, ReadPassOK
<1>2. CASE c.end = "w"
  <2>1. pipe_state_write(p, c, m)
    BY <1>2 DEF Pass
  <2>q. QED
    BY <1>2, <2>1, WritePassOK
<1>q. QED
  BY <1>1, <1>2 DEF GoodCall, End

LEMMA InTable ==
    ASSUME Inv, NEW p \in Proc, fs_struct[p] # NoTable
    PROVE  fs_struct[p] \in Table
BY DEF Inv, TypeOK

\* Some files of a process that is not in the pipe are closed.
LEMMA ClosingOK ==
    ASSUME Inv, NEW p \in Proc, NEW t \in Table, fs_struct[p] = t, pc[p] \notin Parked,
           NEW D, NEW m, m = [d \in Fd |-> IF d \in D THEN Closed(file[t][d]) ELSE file[t][d]]
    PROVE  CountedWithout(p, t, m)
<1>0. file[t] \in [Fd -> Entry] /\ FilesOK /\ \A d \in Fd : file[t][d] \in Entry
  BY DEF Inv, TypeOK
<1>1. \A d \in Fd : m[d] = IF d \in D THEN Closed(file[t][d]) ELSE file[t][d]
  OBVIOUS
<1>2. ASSUME NEW d \in Fd
      PROVE  /\ m[d] \in Entry
             /\ m[d].status = "NONE" <=> file[t][d].status = "NONE"
             /\ m[d].node = file[t][d].node
             /\ m[d].count = Cardinality(Users(t, d) \ {p})
                                    + (IF m[d].status = "OPENED" THEN 1 ELSE 0)
  <2>1. Users(t, d) \ {p} = Users(t, d)
    BY DEF Users, InRound, Parked
  <2>2. Cardinality(Users(t, d) \ {p}) = Cardinality(Users(t, d))
    BY <2>1, Zenon
  <2>3. file[t][d].count = Cardinality(Users(t, d))
                                    + (IF file[t][d].status = "OPENED" THEN 1 ELSE 0)
    BY <1>0 DEF FilesOK
  <2>4. Cardinality(Users(t, d)) \in Nat
    BY UsersFinite
  <2>5. CASE d \in D
    <3>1. file[t][d] \in Entry /\ (file[t][d].status = "OPENED" => file[t][d].count > 0)
      BY <1>0, <2>3, <2>4
    <3>2. m[d] = Closed(file[t][d])
      BY <1>1, <2>5
    <3>3. /\ m[d] \in Entry /\ m[d].node = file[t][d].node
          /\ m[d].status = "NONE" <=> file[t][d].status = "NONE"
          /\ m[d].status # "OPENED"
          /\ m[d].count = IF file[t][d].status = "OPENED" THEN file[t][d].count - 1
                          ELSE file[t][d].count
      BY <3>1, <3>2, ClosedFacts
    <3>q. QED
      BY <2>2, <2>3, <2>4, <3>3
  <2>6. CASE d \notin D
    <3>1. m[d] = file[t][d]
      BY <1>1, <2>6
    <3>q. QED
      BY <1>0, <2>2, <2>3, <3>1
  <2>q. QED
    BY <2>5, <2>6
<1>3. m \in [Fd -> Entry]
  BY <1>2
<1>q. QED
  BY <1>2, <1>3 DEF CountedWithout, SameFiles

\* A step of p that closes files and leaves the pipe alone
LEMMA QuietLeaveOK ==
    ASSUME Inv, NEW p \in Proc, NEW t \in Table, fs_struct[p] = t, pc[p] \notin Parked,
           NEW D, NEW m, m = [d \in Fd |-> IF d \in D THEN Closed(file[t][d]) ELSE file[t][d]],
           NEW exits \in BOOLEAN, NEW w, Leave(p, exits, m, w),
           w \in [Proc -> Where], w[p] = "user", \A q \in Proc : q # p => w[q] = pc[q],
           call' \in [Proc -> Call], \A q \in Proc : q # p => call'[q] = call[q],
           UNCHANGED <<p_rpos, p_wpos, buf, rcvd>>
    PROVE  Inv'
<1>1. CountedWithout(p, t, m)
  BY ClosingOK
<1>2. /\ p_rpos' \in Nat /\ p_wpos' \in Nat /\ buf' \in [0 .. BufSize - 1 -> Nat]
      /\ BufferOK'
  BY DEF Inv, TypeOK, BufferOK
<1>3. OthersWoken(p, w)
  BY DEF OthersWoken
<1>4. OthersRightlyAsleep(p, w, p_rpos', p_wpos')
  BY Sleepers DEF OthersRightlyAsleep
<1>5. Acts(p, w)
  BY <1>2, <1>3, <1>4 DEF Acts
<1>q. QED
  BY <1>1, <1>5, LeaveOK

LEMMA FileCloseOK ==
    ASSUME Inv, NEW p \in Proc, NEW d \in Fd, file_close(p, d)
    PROVE  Inv'
<1> DEFINE t == fs_struct[p]
           D == {d}
           m == [x \in Fd |-> IF x \in D THEN Closed(file[t][x]) ELSE file[t][x]]
<1>1. /\ t \in Table /\ pc[p] = "user" /\ exiting[p] \in BOOLEAN
      /\ file[t] \in [Fd -> Entry] /\ call \in [Proc -> Call] /\ pc \in [Proc -> Where]
      /\ UNCHANGED <<p_rpos, p_wpos, buf, call, rcvd>>
  BY InTable DEF file_close, Running, Inv, TypeOK, Where
<1>2. [Files(p) EXCEPT ![d] = Closed(@)] = m
  BY <1>1 DEF Files
<1>3. Leave(p, exiting[p], m, pc)
  BY <1>2 DEF file_close, BackToUser
<1> HIDE DEF m, D
<1>4. pc[p] \notin Parked
  BY <1>1 DEF Parked
<1>q. QED
  BY <1>1, <1>3, <1>4, QuietLeaveOK, SMTT(30) DEF m

LEMMA FsCloseallOK ==
    ASSUME Inv, NEW p \in Proc, fs_closeall(p)
    PROVE  Inv'
<1> DEFINE t == fs_struct[p]
           D == {d \in Fd : d >= FirstExec}
           m == [x \in Fd |-> IF x \in D THEN Closed(file[t][x]) ELSE file[t][x]]
<1>1. /\ t \in Table /\ pc[p] = "user" /\ exiting[p] \in BOOLEAN
      /\ call \in [Proc -> Call] /\ pc \in [Proc -> Where]
      /\ UNCHANGED <<p_rpos, p_wpos, buf, call, rcvd>>
  BY InTable DEF fs_closeall, Running, Inv, TypeOK, Where
<1>2. [d \in Fd |-> IF d >= FirstExec THEN Closed(Files(p)[d]) ELSE Files(p)[d]] = m
  BY DEF Files
<1>3. Leave(p, exiting[p], m, pc)
  BY <1>2 DEF fs_closeall, BackToUser
<1> HIDE DEF m, D
<1>4. pc[p] \notin Parked
  BY <1>1 DEF Parked
<1>q. QED
  BY <1>1, <1>3, <1>4, QuietLeaveOK DEF m

LEMMA DoExitOK ==
    ASSUME Inv, NEW p \in Proc, do_exit(p)
    PROVE  Inv'
<1> DEFINE t == fs_struct[p]
           D == {}
           m == [x \in Fd |-> IF x \in D THEN Closed(file[t][x]) ELSE file[t][x]]
<1>1. /\ t \in Table /\ pc[p] = "user" /\ file[t] \in [Fd -> Entry]
      /\ call \in [Proc -> Call] /\ pc \in [Proc -> Where]
      /\ UNCHANGED <<p_rpos, p_wpos, buf, call, rcvd>>
  BY InTable DEF do_exit, Running, Inv, TypeOK, Where
<1>2. Files(p) = m
  BY <1>1 DEF Files
<1>3. Leave(p, TRUE, m, pc)
  BY <1>2 DEF do_exit
<1> HIDE DEF m, D
<1>4. pc[p] \notin Parked
  BY <1>1 DEF Parked
<1>q. QED
  BY <1>1, <1>3, <1>4, QuietLeaveOK DEF m

LEMMA SysfileOK ==
    ASSUME Inv, NEW p \in Proc, NEW e \in End, NEW d \in Fd, NEW len \in ReqLen,
           sysfile(p, e, d, len)
    PROVE  Inv'
<1> DEFINE c == [end |-> e, fd |-> d, len |-> len, ret |-> 0]
<1>1. /\ fs_struct[p] \in Table /\ pc[p] \notin Parked
      /\ Usable(p, d, e) /\ Pass(p, c, filemap_acquire(p, d))
  BY InTable DEF sysfile, Running, Parked
<1>2. len \in Nat \ {0} /\ IobufSize \in Nat \ {0}
  OBVIOUS
<1>3. GoodCall(c) /\ c.fd = d /\ c.end = e
  BY <1>2 DEF GoodCall, Call, End
<1> HIDE DEF c
<1>4. /\ CountedWith(p, fs_struct[p], filemap_acquire(p, d), c.fd)
      /\ filemap_acquire(p, d)[c.fd].node = c.end
  BY <1>1, <1>3, AcquireOK
<1>q. QED
  BY <1>1, <1>3, <1>4, PassOK

\* The call in progress
LEMMA CallInProgress ==
    ASSUME Inv, NEW p \in Proc, pc[p] # "user"
    PROVE  GoodCall(call[p]) /\ fs_struct[p] \in Table /\ call[p].fd \in Fd
<1>1. call[p] \in Call /\ CallsOK /\ (fs_struct[p] \in Table \/ fs_struct[p] = NoTable)
  BY DEF Inv, TypeOK
<1>q. QED
  BY <1>1 DEF GoodCall, CallsOK, Call

LEMMA NextRoundOK ==
    ASSUME Inv, NEW p \in Proc, NextRound(p)
    PROVE  Inv'
<1> DEFINE c == call[p]
           t == fs_struct[p]
<1>1. pc[p] = "loop" /\ GoodCall(c) /\ t \in Table /\ c.fd \in Fd /\ pc[p] \notin Parked
  BY CallInProgress DEF NextRound, Parked
<1>2. CASE Usable(p, c.fd, c.end) /\ Pass(p, c, filemap_acquire(p, c.fd))
  BY <1>1, <1>2, AcquireOK, PassOK
<1>3. CASE /\ BackToUser(p, Files(p), [pc EXCEPT ![p] = "user"])
           /\ call' = [call EXCEPT ![p] = NoCall]
           /\ UNCHANGED <<p_rpos, p_wpos, buf, rcvd>>
  <2> DEFINE D == {}
             m == [x \in Fd |-> IF x \in D THEN Closed(file[t][x]) ELSE file[t][x]]
             w == [pc EXCEPT ![p] = "user"]
  <2>1. /\ file[t] \in [Fd -> Entry] /\ exiting[p] \in BOOLEAN
        /\ call \in [Proc -> Call] /\ pc \in [Proc -> Where]
    BY <1>1 DEF Inv, TypeOK, Where
  <2>2. Files(p) = m
    BY <2>1 DEF Files
  <2>3. Leave(p, exiting[p], m, w)
    BY <1>3, <2>2 DEF BackToUser
  <2>4. NoCall \in Call
    BY DEF NoCall, Call, Fd
  <2>5. call' \in [Proc -> Call] /\ \A q \in Proc : q # p => call'[q] = call[q]
    BY <1>3, <2>1, <2>4
  <2>6. w \in [Proc -> Where] /\ w[p] = "user" /\ \A q \in Proc : q # p => w[q] = pc[q]
    BY <2>1 DEF Where
  <2> HIDE DEF m, w, D
  <2>q. QED
    <3>1. UNCHANGED <<p_rpos, p_wpos, buf, rcvd>>
      BY <1>3
    <3>2. m = [x \in Fd |-> IF x \in D THEN Closed(file[t][x]) ELSE file[t][x]]
      BY DEF m
    <3>3. t \in Table /\ fs_struct[p] = t /\ pc[p] \notin Parked /\ exiting[p] \in BOOLEAN
      BY <1>1, <2>1
    <3> HIDE DEF t
    <3>q. QED
      BY <2>3, <2>5, <2>6, <3>1, <3>2, <3>3, QuietLeaveOK
<1>q. QED
  BY <1>2, <1>3 DEF NextRound

LEMMA WaitReturnsOK ==
    ASSUME Inv, NEW p \in Proc, WaitReturns(p)
    PROVE  Inv'
<1> DEFINE c == call[p]
           t == fs_struct[p]
<1>1. pc[p] \in Parked /\ GoodCall(c) /\ t \in Table /\ c.fd \in Fd
  BY CallInProgress DEF WaitReturns, Parked
<1>2. CountedWith(p, t, Files(p), c.fd) /\ Files(p)[c.fd].node = c.end
  BY <1>1, HeldOK
<1>3. CASE Pass(p, c, Files(p))
  BY <1>1, <1>2, <1>3, PassOK
<1>4. CASE /\ RoundEnds(p, c, Files(p), c.ret, pc)
           /\ UNCHANGED <<p_rpos, p_wpos, buf, rcvd>>
  <2>1. c \in Call /\ c.end \in End /\ c.ret \in Nat /\ c.len \in Nat /\ c.ret <= c.len
    BY <1>1 DEF GoodCall, Call
  <2>2. /\ p_rpos' \in Nat /\ p_wpos' \in Nat /\ buf' \in [0 .. BufSize - 1 -> Nat]
        /\ BufferOK' /\ TypeOK
    BY <1>4 DEF Inv, TypeOK, BufferOK
  <2>3. call' \in [Proc -> Call] /\ \A q \in Proc : q # p => call'[q] = call[q]
    BY <1>1, <1>4, <2>1, <2>2, RoundCall
  <2>4. OthersRightlyAsleep(p, pc, p_rpos', p_wpos')
    BY <1>4, Sleepers DEF OthersRightlyAsleep
  <2>5. Acts(p, pc)
    BY <2>2, <2>3, <2>4, Sleepers DEF Acts
  <2>q. QED
    BY <1>1, <1>2, <1>4, <2>1, <2>5, RoundEndsOK
<1>q. QED
  BY <1>3, <1>4 DEF WaitReturns
-----------------------------------------------------------------------------
(* Steps that open files: those of A in the table t, of the inodes in g.    *)
(* A process may also be given a table, or be interrupted in its sleep.     *)

Adds(t, A, g) ==
    /\ t \in Table /\ A \in SUBSET Fd /\ g \in [Fd -> End]
    /\ file' \in [Table -> [Fd -> Entry]]
    /\ \A u \in Table : u # t => file'[u] = file[u]
    /\ \A d \in A : file[t][d].status = "NONE" /\ file'[t][d] = NewFile(g[d])
    /\ \A d \in Fd \ A : \/ file'[t][d] = file[t][d]
                         \/ file[t][d].status = "NONE" /\ file'[t][d] = NoFile
    /\ fs_struct' \in [Proc -> Table \cup {NoTable}]
    /\ \A q \in Proc : fs_struct[q] # NoTable => fs_struct'[q] = fs_struct[q]
    /\ A # {} => \E q \in Proc : fs_struct'[q] = t
    /\ call' = call /\ pc' \in [Proc -> Where] /\ exiting' \in [Proc -> BOOLEAN]
    /\ \A q \in Proc : pc'[q] = pc[q] \/ (pc[q] = "asleep" /\ pc'[q] = "interrupted")

LEMMA NewFileFacts ==
    /\ \A e \in End : /\ NewFile(e) \in Entry /\ NewFile(e).status = "OPENED"
                      /\ NewFile(e).node = e /\ NewFile(e).count = 1
    /\ NoFile \in Entry /\ NoFile.status = "NONE" /\ NoFile.count = 0
BY DEF NewFile, NoFile, Entry, End

LEMMA AddFilesOK ==
    ASSUME Inv, NEW t, NEW A, NEW g, Adds(t, A, g)
    PROVE  FilesOK' /\ CallsOK'
<1> USE DEF Adds
<1>0. /\ FilesOK /\ CallsOK /\ pc \in [Proc -> Where] /\ call \in [Proc -> Call]
      /\ \A q \in Proc : call[q].fd \in Fd
      /\ \A q \in Proc : fs_struct[q] \in Table \/ fs_struct[q] = NoTable
      /\ NoTable \notin Table
  BY DEF Inv, TypeOK, Where, Call
<1>1. /\ \A d \in A : /\ file'[t][d].status = "OPENED" /\ file'[t][d].node = g[d]
                      /\ file'[t][d].count = 1
      /\ NoFile.status = "NONE" /\ NoFile.count = 0
  BY NewFileFacts
<1>2. ASSUME NEW q \in Proc
      PROVE  /\ InRound(q)' <=> InRound(q)
             /\ InRound(q) => fs_struct'[q] = fs_struct[q] /\ fs_struct[q] \in Table
  <2>1. InRound(q)' <=> InRound(q)
    BY DEF InRound
  <2>2. InRound(q) => fs_struct[q] # NoTable
    BY <1>0 DEF InRound, CallsOK
  <2>q. QED
    BY <1>0, <2>1, <2>2
<1>3. ASSUME NEW u \in Table, NEW d \in Fd PROVE Users(u, d)' = Users(u, d)
  BY <1>2 DEF Users
<1>4. ASSUME NEW d \in Fd, file[t][d].status = "NONE"
      PROVE  Users(t, d) = {} /\ Cardinality(Users(t, d)) = 0
  <2>1. Users(t, d) = {}
    BY <1>0, <1>4 DEF Users, FilesOK, Files
  <2>q. QED
    BY <2>1, FS_EmptySet, Zenon
<1>5. ASSUME NEW u \in Table, NEW d \in Fd
      PROVE  /\ file'[u][d].count = Cardinality(Users(u, d)')
                                    + (IF file'[u][d].status = "OPENED" THEN 1 ELSE 0)
             /\ file'[u][d].status = "CLOSED" => file'[u][d].count # 0
             /\ file'[u][d].status # "NONE" => \E q \in Proc : fs_struct'[q] = u
  <2>1. Cardinality(Users(u, d)') = Cardinality(Users(u, d)) /\ Cardinality(Users(u, d)) \in Nat
    BY <1>3, UsersFinite, Zenon
  <2>2. CASE file'[u][d] = file[u][d]
    <3>1. /\ file[u][d].count = Cardinality(Users(u, d))
                                    + (IF file[u][d].status = "OPENED" THEN 1 ELSE 0)
          /\ file[u][d].status = "CLOSED" => file[u][d].count # 0
          /\ file[u][d].status # "NONE" => \E q \in Proc : fs_struct[q] = u
      BY <1>0 DEF FilesOK
    <3>2. \A q \in Proc : fs_struct[q] = u => fs_struct'[q] = u
      BY <1>0
    <3>q. QED
      BY <2>1, <2>2, <3>1, <3>2
  <2>3. CASE u = t /\ d \in A
    <3>1. file[t][d].status = "NONE"
      BY <2>3
    <3>2. Cardinality(Users(u, d)') = 0
      BY <1>4, <2>1, <2>3, <3>1
    <3>3. \E q \in Proc : fs_struct'[q] = u
      BY <2>3
    <3>q. QED
      BY <1>1, <2>3, <3>2, <3>3
  <2>4. CASE u = t /\ file[t][d].status = "NONE" /\ file'[t][d] = NoFile
    <3>1. Cardinality(Users(u, d)') = 0
      BY <1>4, <2>1, <2>4
    <3>q. QED
      BY <1>1, <2>4, <3>1
  <2>q. QED
    BY <2>2, <2>3, <2>4
<1>6. ASSUME NEW q \in Proc, InRound(q)'
      PROVE  /\ file'[fs_struct'[q]][call'[q].fd].status # "NONE"
             /\ file'[fs_struct'[q]][call'[q].fd].node = call'[q].end
  <2>1. InRound(q) /\ fs_struct'[q] = fs_struct[q] /\ fs_struct[q] \in Table /\ call'[q] = call[q]
    BY <1>2, <1>6
  <2>2. /\ file[fs_struct[q]][call[q].fd].status # "NONE" /\ call[q].fd \in Fd
        /\ file[fs_struct[q]][call[q].fd].node = call[q].end
    BY <1>0, <2>1 DEF FilesOK, Files
  <2>3. file'[fs_struct[q]][call[q].fd] = file[fs_struct[q]][call[q].fd]
    <3>1. CASE fs_struct[q] # t
      BY <2>1, <3>1
    <3>2. CASE fs_struct[q] = t
      BY <2>2, <3>2
    <3>q. QED
      BY <3>1, <3>2
  <2>q. QED
    BY <2>1, <2>2, <2>3
<1>7. \A q \in Proc : InRound(q)' => /\ (Files(q)[call[q].fd].status # "NONE")'
                                     /\ (Files(q)[call[q].fd].node = call[q].end)'
  BY <1>6 DEF Files
<1>8. FilesOK'
  BY <1>5, <1>7 DEF FilesOK
<1>9. CallsOK'
  BY <1>0 DEF CallsOK
<1>q. QED
  BY <1>8, <1>9

\* The inodes get a reference for each of the files.
LEMMA AddRefs ==
    ASSUME Inv, NEW t, NEW A, NEW g, Adds(t, A, g), NEW e \in End
    PROVE  /\ Cardinality({d \in A : g[d] = e}) \in Nat
           /\ Cardinality(Refs(e)') = Cardinality(Refs(e)) + Cardinality({d \in A : g[d] = e})
<1> USE DEF Adds
<1> DEFINE D == {d \in A : g[d] = e}
<1>1. \A d \in A : /\ file'[t][d].status = "OPENED" /\ file'[t][d].node = g[d]
                   /\ file[t][d].status = "NONE"
  BY NewFileFacts
<1>2. D \subseteq Fd /\ D \subseteq A
  OBVIOUS
<1>3. Refs(e)' = Refs(e) \cup ({t} \X D)
  <2>1. ASSUME NEW u \in Table, NEW d \in Fd
        PROVE  <<u, d>> \in Refs(e)' <=> <<u, d>> \in Refs(e) \cup ({t} \X D)
    <3>1. CASE u # t
      BY <3>1 DEF Refs
    <3>2. CASE u = t /\ d \in A
      BY <1>1, <3>2 DEF Refs
    <3>3. CASE u = t /\ d \notin A
      <4>1. file'[t][d] = file[t][d] \/ (file[t][d].status = "NONE" /\ file'[t][d].status = "NONE")
        BY <3>3, NewFileFacts
      <4>q. QED
        BY <1>2, <3>3, <4>1 DEF Refs
    <3>q. QED
      BY <3>1, <3>2, <3>3
  <2>2. /\ Refs(e)' \subseteq Table \X Fd
        /\ Refs(e) \cup ({t} \X D) \subseteq Table \X Fd
    BY <1>2 DEF Refs
  <2> HIDE DEF D
  <2>3. ASSUME NEW x \in Table \X Fd
        PROVE  x \in Refs(e)' <=> x \in Refs(e) \cup ({t} \X D)
    <3>1. PICK u \in Table, d \in Fd : x = <<u, d>>
      OBVIOUS
    <3>q. QED
      BY <2>1, <3>1, Zenon
  <2>q. QED
    BY <2>2, <2>3, Zenon
<1>4. Refs(e) \cap ({t} \X D) = {}
  BY <1>1 DEF Refs
<1> HIDE DEF D
<1>5. IsFiniteSet(D) /\ IsFiniteSet(Refs(e)) /\ Cardinality(D) \in Nat
  BY <1>2, FdFinite, RefsFinite, FS_Subset, FS_CardinalityType
<1>6. IsFiniteSet({t} \X D) /\ Cardinality({t} \X D) = Cardinality(D)
  BY <1>5, Column, ZenonT(30)
<1>7. Cardinality(Refs(e)') = Cardinality(Refs(e)) + Cardinality(D)
  <2> DEFINE P == {t} \X D
  <2> HIDE DEF P
  <2>1. /\ IsFiniteSet(P) /\ Cardinality(P) = Cardinality(D) /\ Refs(e)' = Refs(e) \cup P
        /\ Refs(e) \cap P = {}
    BY <1>3, <1>4, <1>6 DEF P
  <2>2. Cardinality(Refs(e) \cup P)
            = Cardinality(Refs(e)) + Cardinality(P) - Cardinality(Refs(e) \cap P)
    BY <1>5, <2>1, FS_Union
  <2>3. Cardinality(Refs(e) \cap P) = 0
    BY <2>1, FS_EmptySet, Zenon
  <2>4. Cardinality(Refs(e)) \in Nat
    BY RefsFinite
  <2>5. Cardinality(Refs(e)') = Cardinality(Refs(e) \cup P)
    BY <2>1, Zenon
  <2>q. QED
    BY <1>5, <2>1, <2>2, <2>3, <2>4, <2>5
<1>q. QED
  BY <1>5, <1>7 DEF D

\* A step that opens further files of inodes that have some
LEMMA AddedOK ==
    ASSUME Inv, NEW t, NEW A, NEW g, Adds(t, A, g),
           open' \in [End -> Nat], ref' = open',
           \A e \in End : open'[e] = open[e] + Cardinality({d \in A : g[d] = e}),
           \A d \in A : open[g[d]] > 0,
           UNCHANGED <<p_rpos, p_wpos, buf, isclosed, ref_count, rcvd>>
    PROVE  Inv'
<1>0. /\ TypeOK /\ InodesOK /\ open \in [End -> Nat] /\ ref \in [End -> Nat]
  BY DEF Inv, TypeOK
<1>1. FilesOK' /\ CallsOK'
  BY AddFilesOK
<1>2. \A e \in End : /\ open'[e] = Cardinality(Refs(e)') /\ ref'[e] = open'[e]
                     /\ open'[e] > 0 <=> open[e] > 0
  <2> SUFFICES ASSUME NEW e \in End
               PROVE  /\ open'[e] = Cardinality(Refs(e)') /\ ref'[e] = open'[e]
                      /\ open'[e] > 0 <=> open[e] > 0
    OBVIOUS
  <2> DEFINE D == {d \in A : g[d] = e}
  <2>1. /\ Cardinality(D) \in Nat
        /\ Cardinality(Refs(e)') = Cardinality(Refs(e)) + Cardinality(D)
    BY AddRefs
  <2>2. open[e] = Cardinality(Refs(e)) /\ open[e] \in Nat
    BY <1>0 DEF InodesOK
  <2>3. D # {} => open[e] > 0
    OBVIOUS
  <2>4. open'[e] = open[e] + Cardinality(D)
    OBVIOUS
  <2> HIDE DEF D
  <2>5. D = {} => Cardinality(D) = 0
    BY FS_EmptySet, Zenon
  <2>q. QED
    BY <2>1, <2>2, <2>3, <2>4, <2>5
<1>3. InodesOK'
  <2>1. {e \in End : ref'[e] > 0} = {e \in End : ref[e] > 0}
    BY <1>0, <1>2 DEF InodesOK
  <2>2. ref_count' = Cardinality({e \in End : ref'[e] > 0})
    <3>1. ref_count = Cardinality({e \in End : ref[e] > 0}) /\ ref_count' = ref_count
      BY <1>0 DEF InodesOK
    <3>q. QED
      BY <2>1, <3>1, Zenon
  <2>3. isclosed' = FALSE => \A e \in End : open'[e] > 0
    BY <1>0, <1>2 DEF InodesOK
  <2>q. QED
    BY <1>2, <2>2, <2>3 DEF InodesOK
<1>4. TypeOK'
  BY <1>0 DEF Adds, TypeOK, Where
<1>5. BufferOK' /\ NobodySleepsInVain'
  <2>1. BufferOK'
    BY DEF Inv, BufferOK
  <2>2. NobodySleepsInVain'
    BY DEF Inv, Adds, NobodySleepsInVain, is_empty, is_full
  <2>q. QED
    BY <2>1, <2>2
<1>q. QED
  BY <1>1, <1>3, <1>4, <1>5 DEF Inv
\* A file refers to an inode that is referred to.
LEMMA RefsPositive ==
    ASSUME Inv, NEW t \in Table, NEW d \in Fd, file[t][d].status # "NONE"
    PROVE  file[t][d].node \in End /\ open[file[t][d].node] > 0
<1>1. file[t][d] \in Entry /\ InodesOK
  BY DEF Inv, TypeOK
<1>2. PICK e \in End : e = file[t][d].node
  BY <1>1 DEF Entry
<1>3. <<t, d>> \in Refs(e)
  BY <1>2 DEF Refs
<1>4. Refs(e) # {} /\ IsFiniteSet(Refs(e)) /\ Cardinality(Refs(e)) \in Nat
  BY <1>3, RefsFinite
<1>5. Cardinality(Refs(e)) # 0
  BY <1>4, FS_EmptySet
<1>6. open[e] = Cardinality(Refs(e))
  BY <1>1 DEF InodesOK
<1>7. open[e] > 0
  BY <1>4, <1>5, <1>6
<1>q. QED
  BY <1>2, <1>7

LEMMA FileDupOK ==
    ASSUME Inv, NEW p \in Proc, NEW d1 \in Fd, NEW d2 \in Fd, file_dup(p, d1, d2)
    PROVE  Inv'
<1>0. /\ fs_struct[p] \in Table /\ file \in [Table -> [Fd -> Entry]]
      /\ open \in [End -> Nat] /\ ref = open
      /\ fs_struct \in [Proc -> Table \cup {NoTable}] /\ pc \in [Proc -> Where]
      /\ exiting \in [Proc -> BOOLEAN]
  BY InTable DEF file_dup, Running, Inv, TypeOK, Where, InodesOK
<1>1. PICK t \in Table : t = fs_struct[p]
  BY <1>0
<1>2. /\ file[t][d1].status = "OPENED" /\ file[t][d2].status = "NONE"
  BY <1>1 DEF file_dup, Files, Free
<1>3. PICK e \in End : e = file[t][d1].node /\ open[e] > 0
  BY <1>2, RefsPositive
<1>4. /\ file' = [file EXCEPT ![t][d2] = NewFile(e)]
      /\ open' = [open EXCEPT ![e] = @ + 1] /\ ref' = [ref EXCEPT ![e] = @ + 1]
      /\ UNCHANGED <<fs_struct, p_rpos, p_wpos, buf, isclosed, ref_count, pc, call, exiting, rcvd>>
  BY <1>1, <1>3 DEF file_dup, Files, pipeVars
<1> DEFINE A == {d2}
           g == [d \in Fd |-> e]
<1>5. NewFile(e) \in Entry
  BY NewFileFacts
<1>6. /\ file' \in [Table -> [Fd -> Entry]] /\ file'[t][d2] = NewFile(e)
      /\ \A u \in Table : u # t => file'[u] = file[u]
      /\ \A d \in Fd : d # d2 => file'[t][d] = file[t][d]
  BY <1>0, <1>4, <1>5
<1>7. Adds(t, A, g)
  BY <1>0, <1>1, <1>2, <1>4, <1>6 DEF Adds
<1>8. /\ open' \in [End -> Nat] /\ ref' = open'
      /\ open'[e] = open[e] + 1 /\ \A x \in End : x # e => open'[x] = open[x]
  BY <1>0, <1>4
<1>9. ASSUME NEW x \in End PROVE open'[x] = open[x] + Cardinality({d \in A : g[d] = x})
  <2>1. CASE x = e
    <3>1. {d \in A : g[d] = x} = {d2}
      BY <2>1
    <3>2. Cardinality({d \in A : g[d] = x}) = 1
      BY <3>1, FS_Singleton, Zenon
    <3>q. QED
      BY <1>8, <2>1, <3>2
  <2>2. CASE x # e
    <3>1. {d \in A : g[d] = x} = {}
      BY <2>2
    <3>2. Cardinality({d \in A : g[d] = x}) = 0
      BY <3>1, FS_EmptySet, Zenon
    <3>3. open[x] \in Nat
      BY <1>0
    <3>q. QED
      BY <1>8, <2>2, <3>2, <3>3
  <2>q. QED
    BY <2>1, <2>2
<1>10. \A d \in A : open[g[d]] > 0
  BY <1>3
<1> HIDE DEF A, g
<1>q. QED
  BY <1>4, <1>7, <1>8, <1>9, <1>10, AddedOK

\* A step that opens nothing
LEMMA NothingAdded ==
    ASSUME Inv, NEW t \in Table, file' = file, open' = open, ref' = ref,
           fs_struct' \in [Proc -> Table \cup {NoTable}],
           \A q \in Proc : fs_struct[q] # NoTable => fs_struct'[q] = fs_struct[q],
           call' = call, pc' \in [Proc -> Where], exiting' \in [Proc -> BOOLEAN],
           \A q \in Proc : pc'[q] = pc[q] \/ (pc[q] = "asleep" /\ pc'[q] = "interrupted"),
           UNCHANGED <<p_rpos, p_wpos, buf, isclosed, ref_count, rcvd>>
    PROVE  Inv'
<1> DEFINE A == {}
           g == [d \in Fd |-> "r"]
<1>0. /\ file \in [Table -> [Fd -> Entry]] /\ open \in [End -> Nat] /\ ref = open
  BY DEF Inv, TypeOK, InodesOK
<1>1. Adds(t, A, g)
  BY <1>0 DEF Adds, End
<1>2. \A e \in End : open'[e] = open[e] + Cardinality({d \in A : g[d] = e})
  <2>1. \A e \in End : {d \in A : g[d] = e} = {}
    OBVIOUS
  <2>2. \A e \in End : Cardinality({d \in A : g[d] = e}) = 0
    BY <2>1, FS_EmptySet, Zenon
  <2>q. QED
    BY <1>0, <2>2
<1>3. \A d \in A : open[g[d]] > 0
  OBVIOUS
<1>4. open' \in [End -> Nat] /\ ref' = open'
  BY <1>0
<1> HIDE DEF A, g
<1>q. QED
  BY <1>1, <1>2, <1>3, <1>4, AddedOK

LEMMA CopyFsSharedOK ==
    ASSUME Inv, NEW p \in Proc, NEW q \in Proc, copy_fs_shared(p, q)
    PROVE  Inv'
<1>0. /\ fs_struct[p] \in Table /\ fs_struct \in [Proc -> Table \cup {NoTable}]
      /\ pc \in [Proc -> Where] /\ exiting \in [Proc -> BOOLEAN]
  BY InTable DEF copy_fs_shared, Running, Inv, TypeOK, Where
<1>1. /\ fs_struct[q] = NoTable /\ fs_struct' = [fs_struct EXCEPT ![q] = fs_struct[p]]
      /\ UNCHANGED <<file, open, ref, p_rpos, p_wpos, buf, isclosed, ref_count, pc, call,
                     exiting, rcvd>>
  BY DEF copy_fs_shared, pipeVars
<1>2. /\ fs_struct' \in [Proc -> Table \cup {NoTable}]
      /\ \A x \in Proc : fs_struct[x] # NoTable => fs_struct'[x] = fs_struct[x]
  BY <1>0, <1>1
<1>q. QED
  BY <1>0, <1>1, <1>2, NothingAdded

LEMMA DoKillOK ==
    ASSUME Inv, NEW p \in Proc, do_kill(p)
    PROVE  Inv'
<1>0. /\ fs_struct[p] \in Table /\ fs_struct \in [Proc -> Table \cup {NoTable}]
      /\ pc \in [Proc -> Where] /\ exiting \in [Proc -> BOOLEAN]
  BY CallInProgress DEF do_kill, Inv, TypeOK, Where
<1>1. /\ exiting' = [exiting EXCEPT ![p] = TRUE]
      /\ pc' = [pc EXCEPT ![p] = IF @ = "asleep" THEN "interrupted" ELSE @]
      /\ UNCHANGED <<file, fs_struct, open, ref, p_rpos, p_wpos, buf, isclosed, ref_count,
                     call, rcvd>>
  BY DEF do_kill, fileVars, pipeVars
<1>2. /\ pc' \in [Proc -> Where] /\ exiting' \in [Proc -> BOOLEAN]
      /\ \A q \in Proc : pc'[q] = pc[q] \/ (pc[q] = "asleep" /\ pc'[q] = "interrupted")
  BY <1>0, <1>1 DEF Where
<1>q. QED
  BY <1>0, <1>1, <1>2, NothingAdded

\* dup_fs: a file of the new table for each open file of the old one
LEMMA CopyFsOK ==
    ASSUME Inv, NEW p \in Proc, NEW q \in Proc, NEW t \in Table, copy_fs(p, q, t)
    PROVE  Inv'
<1>0. /\ fs_struct[p] \in Table /\ file \in [Table -> [Fd -> Entry]]
      /\ open \in [End -> Nat] /\ ref = open
      /\ fs_struct \in [Proc -> Table \cup {NoTable}] /\ pc \in [Proc -> Where]
      /\ exiting \in [Proc -> BOOLEAN] /\ FilesOK
  BY InTable DEF copy_fs, Running, Inv, TypeOK, Where, InodesOK
<1>1. PICK u \in Table : u = fs_struct[p]
  BY <1>0
<1> DEFINE A == {d \in Fd : file[u][d].status = "OPENED"}
           g == [d \in Fd |-> file[u][d].node]
<1>2. /\ file' = [file EXCEPT ![t] = [d \in Fd |-> IF d \in A THEN NewFile(file[u][d].node)
                                                   ELSE NoFile]]
      /\ open' = [e \in End |-> open[e] + Cardinality({d \in A : file[u][d].node = e})]
      /\ ref' = [e \in End |-> ref[e] + Cardinality({d \in A : file[u][d].node = e})]
  BY <1>1 DEF copy_fs, Files
<1>3. /\ fs_struct[q] = NoTable /\ \A o \in Proc : fs_struct[o] # t
      /\ fs_struct' = [fs_struct EXCEPT ![q] = t]
      /\ UNCHANGED <<p_rpos, p_wpos, buf, isclosed, ref_count, pc, call, exiting, rcvd>>
  BY DEF copy_fs, pipeVars
<1>4. \A d \in Fd : file[t][d].status = "NONE"
  BY <1>0, <1>3 DEF FilesOK
<1>5. /\ A \in SUBSET Fd /\ g \in [Fd -> End] /\ \A d \in Fd : g[d] = file[u][d].node
      /\ \A d \in A : open[g[d]] > 0
  <2>1. \A d \in Fd : file[u][d].node \in End
    BY <1>0 DEF Entry
  <2>2. \A d \in A : open[file[u][d].node] > 0
    BY RefsPositive
  <2>q. QED
    BY <2>1, <2>2
<1>6. \A e \in End : {d \in A : file[u][d].node = e} = {d \in A : g[d] = e}
  OBVIOUS
<1> HIDE DEF g, A
<1>7. /\ file' \in [Table -> [Fd -> Entry]]
      /\ \A x \in Table : x # t => file'[x] = file[x]
      /\ \A d \in A : file'[t][d] = NewFile(g[d])
      /\ \A d \in Fd \ A : file'[t][d] = NoFile
  <2> DEFINE m == [d \in Fd |-> IF d \in A THEN NewFile(file[u][d].node) ELSE NoFile]
  <2>1. \A d \in Fd : m[d] = IF d \in A THEN NewFile(g[d]) ELSE NoFile
    BY <1>5
  <2>2. m \in [Fd -> Entry]
    BY <1>5, NewFileFacts
  <2>3. file' = [file EXCEPT ![t] = m]
    BY <1>2
  <2> HIDE DEF m
  <2>4. /\ file' \in [Table -> [Fd -> Entry]] /\ file'[t] = m
        /\ \A x \in Table : x # t => file'[x] = file[x]
    BY <1>0, <2>2, <2>3
  <2>q. QED
    BY <1>5, <2>1, <2>4
<1>8. /\ fs_struct' \in [Proc -> Table \cup {NoTable}] /\ fs_struct'[q] = t
      /\ \A x \in Proc : fs_struct[x] # NoTable => fs_struct'[x] = fs_struct[x]
  BY <1>0, <1>3
<1>9. Adds(t, A, g)
  BY <1>0, <1>3, <1>4, <1>5, <1>7, <1>8 DEF Adds
<1> DEFINE n(e) == Cardinality({d \in A : g[d] = e})
<1>10. \A e \in End : n(e) \in Nat /\ Cardinality({d \in A : file[u][d].node = e}) = n(e)
  <2>1. ASSUME NEW e \in End PROVE n(e) \in Nat
    BY <1>9, AddRefs
  <2>2. \A e \in End : Cardinality({d \in A : file[u][d].node = e}) = n(e)
    BY <1>6, Zenon
  <2>q. QED
    BY <2>1, <2>2, Zenon
<1>11. /\ open' \in [End -> Nat] /\ ref' = open'
       /\ \A e \in End : open'[e] = open[e] + n(e)
  <2> DEFINE k(e) == Cardinality({d \in A : file[u][d].node = e})
  <2>1. open' = [e \in End |-> open[e] + k(e)] /\ ref' = [e \in End |-> open[e] + k(e)]
    BY <1>0, <1>2, Zenon
  <2>2. \A e \in End : k(e) = n(e) /\ n(e) \in Nat
    BY <1>10, Zenon
  <2> HIDE DEF k, n
  <2>q. QED
    BY <1>0, <2>1, <2>2
<1>q. QED
  BY <1>3, <1>5, <1>9, <1>11, AddedOK
LEMMA FilePipeOK ==
    ASSUME Inv, NEW p \in Proc, file_pipe(p)
    PROVE  Inv'
<1>0. /\ fs_struct[p] \in Table /\ file \in [Table -> [Fd -> Entry]] /\ ref_count = 0
      /\ open \in [End -> Nat] /\ ref \in [End -> Nat] /\ ref = open
      /\ fs_struct \in [Proc -> Table \cup {NoTable}] /\ pc \in [Proc -> Where]
      /\ exiting \in [Proc -> BOOLEAN] /\ InodesOK /\ isclosed \in BOOLEAN
      /\ buf \in [0 .. BufSize - 1 -> Nat] /\ call \in [Proc -> Call]
      /\ BufSize \in Nat \ {0} /\ End = {"r", "w"}
  <2>1. fs_struct[p] \in Table /\ ref_count = 0 /\ End = {"r", "w"}
    BY InTable DEF file_pipe, Running, End
  <2>2. /\ file \in [Table -> [Fd -> Entry]] /\ open \in [End -> Nat] /\ ref \in [End -> Nat]
        /\ fs_struct \in [Proc -> Table \cup {NoTable}] /\ pc \in [Proc -> Where]
        /\ exiting \in [Proc -> BOOLEAN] /\ InodesOK /\ isclosed \in BOOLEAN
        /\ buf \in [0 .. BufSize - 1 -> Nat] /\ call \in [Proc -> Call]
    BY DEF Inv, TypeOK, Where
  <2>3. ref = open
    BY <2>2 DEF InodesOK
  <2>q. QED
    BY <2>1, <2>2, <2>3
<1>1. PICK t \in Table : t = fs_struct[p]
  BY <1>0
<1> DEFINE S == Free(file[t])
<1>2. PICK r, w : /\ r = Min(S) /\ w = Min(S \ {r})
                  /\ file' = [file EXCEPT ![t][r] = NewFile("r"), ![t][w] = NewFile("w")]
  BY <1>1 DEF file_pipe, Files
<1>3. /\ open' = [e \in End |-> 1] /\ ref' = open'
      /\ p_rpos' = 0 /\ p_wpos' = 0 /\ isclosed' = FALSE /\ ref_count' = 2
      /\ buf' = [i \in DOMAIN buf |-> 0] /\ rcvd' = <<>>
      /\ UNCHANGED <<fs_struct, pc, call, exiting>>
      /\ Cardinality(S) >= 2
  BY <1>1 DEF file_pipe, Files
<1>4. S \in SUBSET Fd /\ S \in SUBSET Nat /\ IsFiniteSet(S)
  BY FdFinite, FS_Subset DEF Free
<1>5. r \in S /\ w \in S /\ w # r /\ r \in Fd /\ w \in Fd
  <2> HIDE DEF S
  <2>1. S # {}
    <3>1. S = {} => Cardinality(S) = 0
      BY FS_EmptySet, Zenon
    <3>q. QED
      BY <1>3, <3>1
  <2>2. r \in S
    BY <1>2, <1>4, <2>1, LeastIsIn
  <2>3. S \ {r} # {}
    <3>1. S \ {r} = {} => S = {r}
      BY <2>2
    <3>2. S = {r} => Cardinality(S) = 1
      BY FS_Singleton, Zenon
    <3>q. QED
      BY <1>3, <3>1, <3>2
  <2>4. S \ {r} \in SUBSET Nat
    BY <1>4
  <2>5. w \in S \ {r}
    BY <1>2, <2>3, <2>4, LeastIsIn
  <2>q. QED
    BY <1>4, <2>2, <2>5
<1>6. file[t][r].status = "NONE" /\ file[t][w].status = "NONE"
  BY <1>5 DEF Free
<1> HIDE DEF S
<1> DEFINE A == {r, w}
           g == [d \in Fd |-> IF d = r THEN "r" ELSE "w"]
<1>7. NewFile("r") \in Entry /\ NewFile("w") \in Entry
  BY <1>0, NewFileFacts
<1>8. /\ file' \in [Table -> [Fd -> Entry]]
      /\ file'[t][r] = NewFile("r") /\ file'[t][w] = NewFile("w")
      /\ \A u \in Table : u # t => file'[u] = file[u]
      /\ \A d \in Fd : d # r /\ d # w => file'[t][d] = file[t][d]
  <2> DEFINE f1 == [file EXCEPT ![t][r] = NewFile("r")]
  <2>1. /\ f1 \in [Table -> [Fd -> Entry]] /\ f1[t][r] = NewFile("r")
        /\ \A u \in Table : u # t => f1[u] = file[u]
        /\ \A d \in Fd : d # r => f1[t][d] = file[t][d]
    BY <1>0, <1>5, <1>7
  <2>2. file' = [f1 EXCEPT ![t][w] = NewFile("w")]
    BY <1>0, <1>2
  <2> HIDE DEF f1
  <2>q. QED
    BY <1>5, <1>7, <2>1, <2>2
<1>9. Adds(t, A, g)
  <2>1. \A d \in A : file[t][d].status = "NONE" /\ file'[t][d] = NewFile(g[d])
    BY <1>5, <1>6, <1>8
  <2>2. \A d \in Fd \ A : file'[t][d] = file[t][d]
    BY <1>8
  <2>3. A \in SUBSET Fd /\ g \in [Fd -> End]
    BY <1>0, <1>5
  <2> HIDE DEF A, g
  <2>q. QED
    BY <1>0, <1>1, <1>3, <1>8, <2>1, <2>2, <2>3 DEF Adds
<1>10. FilesOK' /\ CallsOK'
  BY <1>9, AddFilesOK
<1>11. \A e \in End : open[e] = 0 /\ Cardinality(Refs(e)) = 0
  <2> DEFINE R == {e \in End : ref[e] > 0}
  <2>1. Cardinality(R) = 0
    BY <1>0 DEF InodesOK
  <2>2. IsFiniteSet(R)
    BY FdFinite, FS_Subset
  <2>3. R = {}
    <3> HIDE DEF R
    <3>q. QED
      BY <2>1, <2>2, FS_EmptySet
  <2>q. QED
    BY <1>0, <2>3 DEF InodesOK
<1>12. isclosed = TRUE
  BY <1>0, <1>11 DEF InodesOK
<1>13. \A e \in End : Cardinality({d \in A : g[d] = e}) = 1
  <2>1. {d \in A : g[d] = "r"} = {r} /\ {d \in A : g[d] = "w"} = {w}
    BY <1>5
  <2>2. Cardinality({r}) = 1 /\ Cardinality({w}) = 1
    BY FS_Singleton
  <2>3. Cardinality({d \in A : g[d] = "r"}) = 1 /\ Cardinality({d \in A : g[d] = "w"}) = 1
    BY <2>1, <2>2, Zenon
  <2>q. QED
    BY <1>0, <2>3
<1> HIDE DEF A, g
<1>14. InodesOK'
  <2>1. ASSUME NEW e \in End
        PROVE  open'[e] = Cardinality(Refs(e)') /\ ref'[e] = open'[e] /\ open'[e] = 1
    <3>1. Cardinality(Refs(e)') = Cardinality(Refs(e)) + Cardinality({d \in A : g[d] = e})
      BY <1>9, AddRefs
    <3>2. open'[e] = 1 /\ ref'[e] = open'[e]
      BY <1>3
    <3>q. QED
      BY <1>11, <1>13, <3>1, <3>2
  <2>2. {e \in End : ref'[e] > 0} = {"r"} \cup {"w"}
    BY <1>0, <2>1
  <2>3. Cardinality({"r"} \cup {"w"}) = 2
    <3>1. IsFiniteSet({"r"}) /\ Cardinality({"r"}) = 1
      BY FS_Singleton
    <3>2. PICK R, x : R = {"r"} /\ x = "w"
      OBVIOUS
    <3>3. x \notin R /\ IsFiniteSet(R) /\ Cardinality(R) = 1
      BY <3>1, <3>2
    <3>4. Cardinality(R \cup {x}) = Cardinality(R) + 1
      <4> HIDE <3>2
      <4>q. QED
        BY <3>3, FS_AddElement
    <3>5. Cardinality(R \cup {x}) = 2
      BY <3>3, <3>4
    <3>q. QED
      BY <3>2, <3>5, Zenon
  <2>4. Cardinality({e \in End : ref'[e] > 0}) = 2
    BY <2>2, <2>3, Zenon
  <2>q. QED
    BY <1>3, <2>1, <2>4 DEF InodesOK
<1>15. TypeOK'
  <2>1. open' \in [End -> Nat] /\ ref' \in [End -> Nat]
    BY <1>3
  <2>2. buf' \in [0 .. BufSize - 1 -> Nat]
    BY <1>0, <1>3
  <2>3. /\ p_rpos' \in Nat /\ p_wpos' \in Nat /\ ref_count' \in Nat /\ isclosed' \in BOOLEAN
        /\ fs_struct' = fs_struct /\ pc' = pc /\ call' = call /\ exiting' = exiting
    BY <1>3
  <2>q. QED
    BY <1>0, <1>8, <2>1, <2>2, <2>3 DEF TypeOK, Where
<1>16. BufferOK'
  <2>1. rcvd' = [i \in 1 .. p_rpos' |-> i]
    <3>1. <<>> = [i \in 1 .. 0 |-> i]
      OBVIOUS
    <3>2. rcvd' = <<>> /\ p_rpos' = 0
      BY <1>3
    <3>q. QED
      BY <3>1, <3>2, Zenon
  <2>2. p_rpos' = 0 /\ p_wpos' = 0
    BY <1>3
  <2>q. QED
    BY <1>0, <2>1, <2>2 DEF BufferOK
<1>17. NobodySleepsInVain'
  <2>1. \A q \in Proc : pc'[q] # "asleep"
    BY <1>3, <1>12, Sleepers
  <2>q. QED
    BY <2>1 DEF NobodySleepsInVain
<1>q. QED
  BY <1>10, <1>14, <1>15, <1>16, <1>17 DEF Inv

LEMMA StutterOK ==
    ASSUME Inv, UNCHANGED vars
    PROVE  Inv'
<1> USE DEF vars, fileVars, pipeVars
<1>1. TypeOK' /\ CallsOK'
  BY DEF Inv, TypeOK, CallsOK
<1>2. FilesOK'
  BY DEF Inv, FilesOK, Users, InRound, Files
<1>3. InodesOK'
  BY DEF Inv, InodesOK, Refs
<1>4. BufferOK' /\ NobodySleepsInVain'
  BY DEF Inv, BufferOK, NobodySleepsInVain, is_empty, is_full
<1>q. QED
  BY <1>1, <1>2, <1>3, <1>4 DEF Inv

LEMMA Begins == Init => Inv
<1> SUFFICES ASSUME Init PROVE Inv
  OBVIOUS
<1>0. /\ file = [t \in Table |-> [d \in Fd |-> NoFile]]
      /\ open = [e \in End |-> 0] /\ ref = open
      /\ p_rpos = 0 /\ p_wpos = 0 /\ buf = [i \in 0 .. BufSize - 1 |-> 0]
      /\ isclosed = TRUE /\ ref_count = 0
      /\ pc = [p \in Proc |-> "user"] /\ call = [p \in Proc |-> NoCall]
      /\ exiting = [p \in Proc |-> FALSE] /\ rcvd = <<>>
  BY DEF Init
<1>1. PICK p \in Proc, t \in Table :
        fs_struct = [q \in Proc |-> IF q = p THEN t ELSE NoTable]
  BY DEF Init
<1>2. TypeOK
  <2>1. NoFile \in Entry /\ NoCall \in Call
    BY NewFileFacts DEF NoCall, Call, Fd
  <2>2. file \in [Table -> [Fd -> Entry]] /\ call \in [Proc -> Call]
    BY <1>0, <2>1
  <2>3. fs_struct \in [Proc -> Table \cup {NoTable}]
    BY <1>1
  <2>q. QED
    BY <1>0, <2>2, <2>3 DEF TypeOK
<1>3. \A q \in Proc : pc[q] = "user"
  BY <1>0
<1>4. CallsOK /\ NobodySleepsInVain
  BY <1>3 DEF CallsOK, NobodySleepsInVain
<1>5. \A u \in Table, d \in Fd : file[u][d].status = "NONE" /\ file[u][d].count = 0
  BY <1>0, NewFileFacts
<1>6. FilesOK
  <2>1. \A u, d : Users(u, d) = {}
    BY <1>3 DEF Users, InRound
  <2>2. \A u, d : Cardinality(Users(u, d)) = 0
    BY <2>1, FS_EmptySet, Zenon
  <2>q. QED
    BY <1>3, <1>5, <2>2 DEF FilesOK, InRound
<1>7. InodesOK
  <2>1. \A e : Refs(e) = {}
    BY <1>5 DEF Refs
  <2>2. \A e : Cardinality(Refs(e)) = 0
    BY <2>1, FS_EmptySet, Zenon
  <2>3. {e \in End : ref[e] > 0} = {}
    BY <1>0
  <2>4. Cardinality({e \in End : ref[e] > 0}) = 0
    BY <2>3, FS_EmptySet, Zenon
  <2>q. QED
    BY <1>0, <2>2, <2>4 DEF InodesOK
<1>8. BufferOK
  <2>1. <<>> = [i \in 1 .. 0 |-> i]
    OBVIOUS
  <2>2. rcvd = [i \in 1 .. p_rpos |-> i]
    BY <1>0, <2>1, Zenon
  <2>q. QED
    BY <1>0, <2>2 DEF BufferOK
<1>q. QED
  BY <1>2, <1>4, <1>6, <1>7, <1>8 DEF Inv

LEMMA StepOK == Inv /\ [Next]_vars => Inv'
<1> SUFFICES ASSUME Inv, [Next]_vars PROVE Inv'
  OBVIOUS
<1>1. CASE Next
  <2>1. PICK p \in Proc :
        \/ file_pipe(p) \/ fs_closeall(p)
        \/ \E d \in Fd : \/ file_close(p, d)
                         \/ \E d2 \in Fd : file_dup(p, d, d2)
                         \/ \E e \in End, len \in ReqLen : sysfile(p, e, d, len)
        \/ \E q \in Proc : copy_fs_shared(p, q) \/ \E t \in Table : copy_fs(p, q, t)
        \/ NextRound(p) \/ WaitReturns(p)
        \/ do_kill(p) \/ do_exit(p)
    BY <1>1 DEF Next
  <2>q. QED
    BY <2>1, FilePipeOK, FsCloseallOK, FileCloseOK, FileDupOK, SysfileOK, CopyFsSharedOK,
       CopyFsOK, NextRoundOK, WaitReturnsOK, DoKillOK, DoExitOK
<1>2. CASE UNCHANGED vars
  BY <1>2, StutterOK
<1>q. QED
  BY <1>1, <1>2

LEMMA Always == Spec => []Inv
BY Begins, StepOK, PTL DEF Spec

\* What a file, an inode or the pipe's state refers to is counted exactly, a
\* call that sleeps in the pipe keeps its file, and the last user of a table
\* leaves no file behind, whoever closes, forks, execs, exits or is killed.
THEOREM NothingFreedInUseHolds == Spec => []NothingFreedInUse
<1>1. Inv => NothingFreedInUse
  <2> SUFFICES ASSUME Inv PROVE NothingFreedInUse
    OBVIOUS
  <2>1. FilesOK /\ InodesOK
    BY DEF Inv
  <2> DEFINE F == {x \in Table \X Fd : file[x[1]][x[2]].status # "NONE"}
  <2>2. \A e \in End : Refs(e) = {x \in F : file[x[1]][x[2]].node = e}
    BY DEF Refs
  <2>3. \A e \in End : /\ open[e] = Cardinality({x \in F : file[x[1]][x[2]].node = e})
                       /\ ref[e] = Cardinality({x \in F : file[x[1]][x[2]].node = e})
    BY <2>1, <2>2, Zenon DEF InodesOK
  <2>4. ref_count = Cardinality({e \in End : ref[e] > 0})
    BY <2>1 DEF InodesOK
  <2>5. \A t \in Table, d \in Fd :
            file[t][d].count =
                Cardinality({p \in Proc : InRound(p) /\ fs_struct[p] = t /\ call[p].fd = d})
                    + (IF file[t][d].status = "OPENED" THEN 1 ELSE 0)
    BY <2>1, Zenon DEF FilesOK, Users
  <2>6. \A p \in Proc : InRound(p) => Files(p)[call[p].fd].status # "NONE"
                                       /\ Files(p)[call[p].fd].node = call[p].end
    BY <2>1 DEF FilesOK
  <2>7. \A x \in F : \E p \in Proc : fs_struct[p] = x[1]
    BY <2>1 DEF FilesOK
  <2>q. QED
    BY <2>3, <2>4, <2>5, <2>6, <2>7, Zenon DEF NothingFreedInUse
<1>q. QED
  BY <1>1, Always, PTL

\* A reader sleeps only while the pipe is empty, a writer only while it is
\* full, and nobody once an end has been closed: every step that changes this
\* wakes the sleepers it concerns.
THEOREM NobodySleepsInVainHolds == Spec => []NobodySleepsInVain
<1>1. Inv => NobodySleepsInVain
  BY DEF Inv
<1>q. QED
  BY <1>1, Always, PTL
-----------------------------------------------------------------------------
(* The pipe implements the bounded byte stream of module Channel.           *)

LEMMA StreamPrefix ==
    ASSUME NEW a \in Nat, NEW b \in Nat, a <= b
    PROVE  Ch!IsPrefix([i \in 1 .. a |-> i], [i \in 1 .. b |-> i])
<1> DEFINE s == [i \in 1 .. a |-> i]
           t == [i \in 1 .. b |-> i]
<1>1. s \in Seq(Nat) /\ t \in Seq(Nat) /\ Len(s) = a /\ Len(t) = b
  BY Stream
<1>2. /\ \A i \in 1 .. a : s[i] = i /\ t[i] = i
  OBVIOUS
<1> HIDE DEF s, t
<1>3. SubSeq(s, 1, a) = SubSeq(t, 1, a)
  <2>1. /\ SubSeq(s, 1, a) = [i \in 1 .. a |-> s[i]]
        /\ SubSeq(t, 1, a) = [i \in 1 .. a |-> t[i]]
    BY <1>1
  <2>2. [i \in 1 .. a |-> s[i]] = [i \in 1 .. a |-> t[i]]
    BY <1>2
  <2>q. QED
    BY <2>1, <2>2
<1>4. Ch!IsPrefix(s, t)
  BY <1>1, <1>3 DEF Ch!IsPrefix
<1>q. QED
  BY <1>4 DEF s, t

\* A step that hands out bytes, or none at all
LEMMA Gets ==
    ASSUME Inv, Inv', p_wpos' = p_wpos, p_rpos <= p_rpos', isclosed = TRUE => isclosed' = TRUE
    PROVE  Ch!Next
<1>1. /\ p_rpos \in Nat /\ p_wpos \in Nat /\ p_rpos' \in Nat /\ p_rpos' <= p_wpos
      /\ rcvd = [i \in 1 .. p_rpos |-> i] /\ rcvd' = [i \in 1 .. p_rpos' |-> i]
      /\ isclosed \in BOOLEAN /\ isclosed' \in BOOLEAN
  BY DEF Inv, TypeOK, BufferOK
<1>2. Ch!IsPrefix(rcvd, rcvd') /\ Ch!IsPrefix(rcvd', [i \in 1 .. p_wpos |-> i])
  BY <1>1, StreamPrefix
<1>3. [i \in 1 .. p_wpos |-> i]' = [i \in 1 .. p_wpos |-> i]
  OBVIOUS
<1>4. Ch!Get
  BY <1>2, <1>3, Zenon DEF Ch!Get
<1>5. isclosed' \in {isclosed, TRUE}
  BY <1>1
<1>q. QED
  BY <1>4, <1>5, Zenon DEF Ch!Next

\* A step that accepts bytes
LEMMA Puts ==
    ASSUME Inv, Inv', p_rpos' = p_rpos, p_wpos <= p_wpos', isclosed = FALSE
    PROVE  Ch!Next
<1>1. /\ p_rpos \in Nat /\ p_wpos \in Nat /\ p_wpos' \in Nat /\ p_wpos' <= p_rpos + BufSize
      /\ rcvd = [i \in 1 .. p_rpos |-> i] /\ rcvd' = [i \in 1 .. p_rpos |-> i]
      /\ isclosed' \in BOOLEAN /\ BufSize \in Nat
  BY DEF Inv, TypeOK, BufferOK
<1>2. Ch!IsPrefix([i \in 1 .. p_wpos |-> i], [i \in 1 .. p_wpos' |-> i])
  BY <1>1, StreamPrefix
<1>3. Len([i \in 1 .. p_wpos' |-> i]) - Len(rcvd) <= BufSize
  <2>1. Len([i \in 1 .. p_wpos' |-> i]) = p_wpos' /\ Len(rcvd) = p_rpos
    BY <1>1, Stream
  <2>q. QED
    BY <1>1, <2>1
<1>4. rcvd' = rcvd
  BY <1>1
<1>5. Ch!Put
  BY <1>2, <1>3, <1>4, Zenon DEF Ch!Put
<1>6. isclosed' \in {isclosed, TRUE}
  BY <1>1
<1>q. QED
  BY <1>5, <1>6, Zenon DEF Ch!Next
\* Until it is opened again, a closed pipe stays closed.
LEMMA StaysClosed ==
    /\ \A m, w : vfs_close(m, w) => (isclosed = TRUE => isclosed' = TRUE)
    /\ \A p, exits, m, w : Leave(p, exits, m, w) => (isclosed = TRUE => isclosed' = TRUE)
    /\ \A p, c, m, n, w : RoundEnds(p, c, m, n, w) => (isclosed = TRUE => isclosed' = TRUE)
<1>1. \A m, w : vfs_close(m, w) => (isclosed = TRUE => isclosed' = TRUE)
  BY Zenon DEF vfs_close
<1>2. \A p, exits, m, w : Leave(p, exits, m, w) => (isclosed = TRUE => isclosed' = TRUE)
  BY <1>1, Zenon DEF Leave
<1>3. ASSUME NEW p, NEW c, NEW m, NEW n, NEW w, RoundEnds(p, c, m, n, w)
      PROVE  isclosed = TRUE => isclosed' = TRUE
  <2>1. CASE n = 0 \/ n = c.len
    BY <1>2, <1>3, <2>1, Zenon DEF RoundEnds, BackToUser
  <2>2. CASE ~(n = 0 \/ n = c.len)
    BY <1>1, <1>3, <2>2, Zenon DEF RoundEnds
  <2>q. QED
    BY <2>1, <2>2
<1>q. QED
  BY <1>1, <1>2, <1>3

\* A pass hands out bytes, or accepts bytes of a pipe that is open.
LEMMA PassImplements ==
    ASSUME Inv, Inv', NEW p, NEW c, GoodCall(c), NEW m, Pass(p, c, m)
    PROVE  Ch!Next
<1>0. /\ isclosed \in BOOLEAN /\ p_rpos \in Nat /\ p_wpos \in Nat /\ p_rpos <= p_wpos
      /\ p_wpos <= p_rpos + BufSize /\ BufSize \in Nat /\ Want(c) \in Nat
  BY WantFacts DEF Inv, TypeOK, BufferOK
<1>1. CASE c.end = "r"
  <2>1. pipe_state_read(p, c, m)
    BY <1>1 DEF Pass
  <2>2. p_rpos' = p_rpos + Min({Want(c), p_wpos - p_rpos}) /\ p_wpos' = p_wpos
    BY <2>1, Zenon DEF pipe_state_read
  <2>3. Want(c) \in Int /\ p_wpos - p_rpos \in Int
    BY <1>0
  <2>4. PICK k : k = Min({Want(c), p_wpos - p_rpos})
    OBVIOUS
  <2>5. k \in {Want(c), p_wpos - p_rpos}
    BY <2>3, <2>4, MinOfAnyTwo, Zenon
  <2>6. p_rpos <= p_rpos'
    BY <1>0, <2>2, <2>4, <2>5
  <2>7. isclosed = TRUE => isclosed' = TRUE
    BY <2>1, StaysClosed, Zenon DEF pipe_state_read, pipe_state_wait
  <2>q. QED
    BY <2>2, <2>6, <2>7, Gets
<1>2. CASE c.end # "r"
  <2>1. pipe_state_write(p, c, m)
    BY <1>2 DEF Pass
  <2>2. PICK k : /\ k = IF isclosed THEN 0 ELSE Min({Want(c), Room})
                 /\ p_wpos' = p_wpos + k /\ p_rpos' = p_rpos
    BY <2>1, Zenon DEF pipe_state_write
  <2>3. CASE isclosed = TRUE
    <3>1. p_wpos' = p_wpos
      BY <1>0, <2>2, <2>3
    <3>2. isclosed' = TRUE
      BY <2>1, <2>3, StaysClosed, Zenon DEF pipe_state_write
    <3>3. p_rpos <= p_rpos'
      BY <1>0, <2>2
    <3>q. QED
      BY <3>1, <3>2, <3>3, Gets
  <2>4. CASE isclosed = FALSE
    <3>1. k = Min({Want(c), Room})
      BY <2>2, <2>4
    <3>2. Want(c) \in Int /\ Room \in Int /\ Room >= 0
      BY <1>0 DEF Room
    <3>3. k \in {Want(c), Room}
      BY <3>1, <3>2, MinOfAnyTwo, Zenon
    <3>4. p_wpos <= p_wpos' /\ p_rpos' = p_rpos
      BY <1>0, <2>2, <3>2, <3>3
    <3>q. QED
      BY <2>4, <3>4, Puts
  <2>q. QED
    BY <1>0, <2>3, <2>4
<1>q. QED
  BY <1>1, <1>2

LEMMA FilePipeImplements ==
    ASSUME Inv, NEW p \in Proc, file_pipe(p)
    PROVE  Ch!Open
<1>1. /\ ref_count = 0 /\ p_wpos' = 0 /\ rcvd' = <<>> /\ isclosed' = FALSE
  BY DEF file_pipe
<1>2. isclosed = TRUE
  <2> DEFINE R == {e \in End : ref[e] > 0}
  <2>0. InodesOK /\ isclosed \in BOOLEAN /\ ref \in [End -> Nat] /\ "r" \in End
    BY DEF Inv, TypeOK, End
  <2>1. Cardinality(R) = 0
    BY <1>1, <2>0 DEF InodesOK
  <2>2. IsFiniteSet(R)
    BY FdFinite, FS_Subset
  <2>3. R = {}
    <3> HIDE DEF R
    <3>q. QED
      BY <2>1, <2>2, FS_EmptySet
  <2>4. ~(open["r"] > 0)
    BY <2>0, <2>3 DEF InodesOK
  <2>q. QED
    BY <2>0, <2>4 DEF InodesOK
<1>3. [i \in 1 .. p_wpos |-> i]' = <<>>
  <2>1. [i \in 1 .. 0 |-> i] = <<>>
    OBVIOUS
  <2>q. QED
    BY <1>1, <2>1, Zenon
<1>q. QED
  BY <1>1, <1>2, <1>3, Zenon DEF Ch!Open

LEMMA StepImplements ==
    ASSUME Inv, Inv', Next
    PROVE  Ch!Next \/ UNCHANGED <<[i \in 1 .. p_wpos |-> i], rcvd, isclosed>>
<1>1. PICK p \in Proc :
        \/ file_pipe(p) \/ fs_closeall(p)
        \/ \E d \in Fd : \/ file_close(p, d)
                         \/ \E d2 \in Fd : file_dup(p, d, d2)
                         \/ \E e \in End, len \in ReqLen : sysfile(p, e, d, len)
        \/ \E q \in Proc : copy_fs_shared(p, q) \/ \E t \in Table : copy_fs(p, q, t)
        \/ NextRound(p) \/ WaitReturns(p)
        \/ do_kill(p) \/ do_exit(p)
  BY DEF Next
<1>2. CASE file_pipe(p)
  BY <1>2, FilePipeImplements DEF Ch!Next
\* The steps that end with Leave or RoundEnds and transfer nothing
<1>3. CASE \/ fs_closeall(p) \/ do_exit(p)
           \/ \E d \in Fd : file_close(p, d)
           \/ NextRound(p) /\ ~Usable(p, call[p].fd, call[p].end)
           \/ WaitReturns(p) /\ pc[p] = "interrupted"
  <2>1. p_rpos' = p_rpos /\ p_wpos' = p_wpos /\ (isclosed = TRUE => isclosed' = TRUE)
    <3>1. CASE fs_closeall(p)
      BY <3>1, StaysClosed, Zenon DEF fs_closeall, BackToUser
    <3>2. CASE do_exit(p)
      BY <3>2, StaysClosed, Zenon DEF do_exit
    <3>3. CASE \E d \in Fd : file_close(p, d)
      BY <3>3, StaysClosed, Zenon DEF file_close, BackToUser
    <3>4. CASE NextRound(p) /\ ~Usable(p, call[p].fd, call[p].end)
      BY <3>4, StaysClosed, Zenon DEF NextRound, BackToUser
    <3>5. CASE WaitReturns(p) /\ pc[p] = "interrupted"
      <4>1. /\ RoundEnds(p, call[p], Files(p), call[p].ret, pc)
            /\ UNCHANGED <<p_rpos, p_wpos, buf, rcvd>>
        BY <3>5 DEF WaitReturns
      <4>q. QED
        BY <4>1, StaysClosed, Zenon
    <3>q. QED
      BY <1>3, <3>1, <3>2, <3>3, <3>4, <3>5
  <2>2. p_rpos <= p_rpos'
    BY <2>1 DEF Inv, TypeOK
  <2>q. QED
    BY <2>1, <2>2, Gets
\* The steps with a pass of pipe_state_read or pipe_state_write
<1>4. CASE \E d \in Fd, e \in End, len \in ReqLen : sysfile(p, e, d, len)
  <2>1. PICK d \in Fd, e \in End, len \in ReqLen : sysfile(p, e, d, len)
    BY <1>4
  <2> DEFINE c == [end |-> e, fd |-> d, len |-> len, ret |-> 0]
  <2>2. len \in Nat \ {0} /\ IobufSize \in Nat \ {0}
    OBVIOUS
  <2>3. GoodCall(c) /\ Pass(p, c, filemap_acquire(p, d))
    <3>1. Pass(p, c, filemap_acquire(p, d))
      BY <2>1, Zenon DEF sysfile
    <3>2. GoodCall(c)
      BY <2>2 DEF GoodCall, Call, End
    <3>q. QED
      BY <3>1, <3>2
  <2> HIDE DEF c
  <2>q. QED
    BY <2>3, PassImplements
<1>5. CASE NextRound(p) /\ Usable(p, call[p].fd, call[p].end)
  <2>1. GoodCall(call[p]) /\ Pass(p, call[p], filemap_acquire(p, call[p].fd))
    BY <1>5, CallInProgress DEF NextRound
  <2>q. QED
    BY <2>1, PassImplements
<1>6. CASE WaitReturns(p) /\ pc[p] # "interrupted"
  <2>1. GoodCall(call[p]) /\ Pass(p, call[p], Files(p))
    BY <1>6, CallInProgress DEF WaitReturns
  <2>q. QED
    BY <2>1, PassImplements
\* The steps that leave the pipe as it is
<1>7. CASE \/ \E d, d2 \in Fd : file_dup(p, d, d2)
           \/ \E q \in Proc : copy_fs_shared(p, q) \/ \E t \in Table : copy_fs(p, q, t)
           \/ do_kill(p)
  <2>1. p_wpos' = p_wpos /\ rcvd' = rcvd /\ isclosed' = isclosed
    BY <1>7, Zenon DEF file_dup, copy_fs_shared, copy_fs, do_kill, pipeVars
  <2>2. [i \in 1 .. p_wpos |-> i]' = [i \in 1 .. p_wpos |-> i]
    BY <2>1, Zenon
  <2>q. QED
    BY <2>1, <2>2, Zenon
<1>q. QED
  BY <1>1, <1>2, <1>3, <1>4, <1>5, <1>6, <1>7, Zenon

\* The pipe implements the byte stream of module Channel: the bytes come out in
\* the order in which they went in, each once, never more than the buffer's size
\* are inside, and a closed pipe takes nothing more, with any number of readers
\* and writers, partial transfers and interrupted calls.
THEOREM ImplementsChannelHolds == Spec => ImplementsChannel
<1>1. Init => Ch!Init
  <2> SUFFICES ASSUME Init PROVE Ch!Init
    OBVIOUS
  <2>1. p_wpos = 0 /\ rcvd = <<>> /\ isclosed = TRUE
    BY DEF Init
  <2>2. [i \in 1 .. 0 |-> i] = <<>>
    OBVIOUS
  <2>q. QED
    BY <2>1, <2>2, Zenon DEF Ch!Init
<1>2. Inv /\ Inv' /\ [Next]_vars =>
        [Ch!Next]_<<[i \in 1 .. p_wpos |-> i], rcvd, isclosed>>
  <2> SUFFICES ASSUME Inv, Inv', [Next]_vars
               PROVE  Ch!Next \/ UNCHANGED <<[i \in 1 .. p_wpos |-> i], rcvd, isclosed>>
    OBVIOUS
  <2>1. CASE UNCHANGED vars
    <3>1. p_wpos' = p_wpos /\ rcvd' = rcvd /\ isclosed' = isclosed
      BY <2>1 DEF vars, pipeVars
    <3>2. [i \in 1 .. p_wpos |-> i]' = [i \in 1 .. p_wpos |-> i]
      BY <3>1, Zenon
    <3>q. QED
      BY <3>1, <3>2, Zenon
  <2>2. CASE Next
    BY <2>2, StepImplements
  <2>q. QED
    BY <2>1, <2>2
<1>q. QED
  BY <1>1, <1>2, Always, PTL DEF Spec, ImplementsChannel, Ch!Spec
=============================================================================
