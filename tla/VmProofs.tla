------------------------------ MODULE VmProofs ------------------------------
(***************************************************************************)
(* Frames and swap entries are counted, none is lost and none is freed     *)
(* while somebody refers to it, for any number of processes, address       *)
(* spaces, frames and swap entries; and what one address space writes no   *)
(* other one reads.                                                        *)
(*                                                                         *)
(* An operation on memory is a composition of small changes.  For each of  *)
(* them an effect predicate (Freed, Unmapped, Swapped...) says which parts *)
(* of the record it writes, an ...Effect lemma that the operator has this  *)
(* effect, and a ...Good lemma that the effect keeps Good; LocalGood does  *)
(* the counting for all of them.                                           *)
(*                                                                         *)
(* The second half is about contents, and shows that memory is private but *)
(* for pages whose dirty bit was dropped.  Reads says what an address      *)
(* space reads, a ...Data lemma what an effect does to that and to two     *)
(* claims: who may write to a page shares it with nobody (Exclusive), and  *)
(* a page that nothing calls dirty is on the disk as it is in memory, but  *)
(* for some (Clean).                                                       *)
(***************************************************************************)
EXTENDS Vm, QueueLemmas

USE VmAssumption

Pte == {Invalid} \cup {Present(f, w, d) : f \in Frame, w \in BOOLEAN, d \in BOOLEAN}
                 \cup {SwapEntry(e) : e \in Slot}

Page == [ref : Nat, index : Slot \cup {NoSlot}, dirty : BOOLEAN,
         list : {"none", "active", "inactive"}, data : 0 .. MaxData]

Mem == [pte : [Mm -> Pte], page : [Frame -> Page], free : SUBSET Frame,
        mem_map : [Slot -> Nat \cup {UNUSED}], disk : [Slot -> 0 .. MaxData]]

\* The address spaces whose entry in t maps the frame f or holds the entry e
Maps(t, f)  == {m \in Mm : t[m].kind = "present" /\ t[m].page = f}
Holds(t, e) == {m \in Mm : t[m].kind = "swap" /\ t[m].entry = e}

\* A frame between two steps of an operation: H are the frames that faults in
\* progress hold, and x, if it is one, the page that page_insert is about to
\* map and has already counted.
FrameOK(s, H, x, f) ==
    /\ s.page[f].ref = Cardinality(Maps(s.pte, f)) + (IF f = x THEN 1 ELSE 0)
    /\ f \in s.free \cup H => s.page[f].ref = 0 /\ s.page[f].index = NoSlot
    /\ f \in s.free => f \notin H
    /\ f \notin s.free => s.page[f].ref # 0 \/ s.page[f].index # NoSlot \/ f \in H
    /\ s.page[f].index = NoSlot <=> s.page[f].list = "none"

EntryOK(s, e) ==
    /\ s.mem_map[e] = UNUSED => Holds(s.pte, e) = {} /\ swap_hash_find(s, e) = {}
    /\ s.mem_map[e] # UNUSED => s.mem_map[e] = Cardinality(Holds(s.pte, e))
    /\ s.mem_map[e] = 0 => swap_hash_find(s, e) # {}

Good(s, H, x) ==
    /\ s \in Mem /\ H \subseteq Frame
    /\ \A f \in Frame : FrameOK(s, H, x, f)
    /\ \A e \in Slot : EntryOK(s, e)
    /\ \A f, g \in Frame :
        s.page[f].index # NoSlot /\ s.page[f].index = s.page[g].index => f = g

\* The frames that faults in progress hold for a copy
Held == {f \in Frame : \E p \in Proc : newpage[p] = f}

\* Where the processes are: a fault has the lock of its address space to
\* itself, and finds the entry as its last step has left it, but for kswapd.
ProcsOK ==
    /\ mm \in [Proc -> Mm \cup {NoMm}] /\ write \in [Proc -> BOOLEAN]
    /\ pc \in [Proc -> {"user", "retry", "lock", "first", "cow", "swapin"}]
    /\ newpage \in [Proc -> Frame \cup {NoFrame}] /\ locked \in [Mm -> BOOLEAN]
    /\ \A p \in Proc :
        /\ mm[p] = NoMm => pc[p] = "user"
        /\ newpage[p] # NoFrame <=> pc[p] = "swapin"
        /\ InAlloc(p) => locked[mm[p]]
    /\ \A p, q \in Proc :
        /\ newpage[p] = newpage[q] /\ newpage[p] # NoFrame => p = q
        /\ InAlloc(p) /\ InAlloc(q) /\ mm[p] = mm[q] => p = q
    /\ \A m \in Mm : locked[m] => \E p \in Proc : mm[p] = m /\ InAlloc(p)

EntriesOK ==
    /\ \A p \in Proc :
        /\ pc[p] = "first" => mem.pte[mm[p]].kind = "invalid"
        /\ pc[p] = "cow" => mem.pte[mm[p]].kind # "invalid"
        /\ pc[p] = "swapin" => mem.pte[mm[p]].kind = "swap"
    /\ \A m \in Mm : mem.pte[m].kind # "invalid" => \E p \in Proc : mm[p] = m

Inv == Good(mem, Held, NoFrame) /\ ProcsOK /\ EntriesOK

-----------------------------------------------------------------------------
(* Entries and counts                                                       *)

LEMMA PteFacts ==
    ASSUME NEW t \in Pte
    PROVE  /\ t.kind \in {"invalid", "present", "swap"}
           /\ t.kind = "invalid" => t = Invalid
           /\ t.kind = "present" => /\ t.page \in Frame /\ t.W \in BOOLEAN /\ t.D \in BOOLEAN
                                    /\ t = Present(t.page, t.W, t.D)
           /\ t.kind = "swap" => t.entry \in Slot /\ t = SwapEntry(t.entry)
<1>1. CASE t = Invalid
  BY <1>1 DEF Invalid
<1>2. CASE \E f \in Frame, w \in BOOLEAN, d \in BOOLEAN : t = Present(f, w, d)
  BY <1>2 DEF Present
<1>3. CASE \E e \in Slot : t = SwapEntry(e)
  BY <1>3 DEF SwapEntry
<1>q. QED
  BY <1>1, <1>2, <1>3 DEF Pte

LEMMA PteKinds ==
    /\ Invalid \in Pte /\ Invalid.kind = "invalid"
    /\ \A f \in Frame, w \in BOOLEAN, d \in BOOLEAN :
        /\ Present(f, w, d) \in Pte
        /\ Present(f, w, d).kind = "present" /\ Present(f, w, d).page = f
        /\ Present(f, w, d).W = w /\ Present(f, w, d).D = d
    /\ \A e \in Slot : /\ SwapEntry(e) \in Pte
                       /\ SwapEntry(e).kind = "swap" /\ SwapEntry(e).entry = e
<1>1. Invalid \in Pte /\ Invalid.kind = "invalid"
  BY DEF Pte, Invalid
<1>2. ASSUME NEW f \in Frame, NEW w \in BOOLEAN, NEW d \in BOOLEAN
      PROVE  /\ Present(f, w, d) \in Pte
             /\ Present(f, w, d).kind = "present" /\ Present(f, w, d).page = f
             /\ Present(f, w, d).W = w /\ Present(f, w, d).D = d
  <2>1. Present(f, w, d) \in {Present(g, v, b) : g \in Frame, v \in BOOLEAN, b \in BOOLEAN}
    OBVIOUS
  <2>2. Present(f, w, d) \in Pte
    BY <2>1 DEF Pte
  <2>q. QED
    BY <2>2 DEF Present
<1>3. ASSUME NEW e \in Slot
      PROVE  SwapEntry(e) \in Pte /\ SwapEntry(e).kind = "swap" /\ SwapEntry(e).entry = e
  <2>1. SwapEntry(e) \in {SwapEntry(i) : i \in Slot}
    OBVIOUS
  <2>2. SwapEntry(e) \in Pte
    BY <2>1 DEF Pte
  <2>q. QED
    BY <2>2 DEF SwapEntry
<1>q. QED
  BY <1>1, <1>2, <1>3

\* Two sets of address spaces that differ at most in m
LEMMA CountChange ==
    ASSUME NEW S \in SUBSET Mm, NEW T \in SUBSET Mm, NEW m,
           \A k \in Mm : k # m => (k \in T <=> k \in S)
    PROVE  /\ Cardinality(S) \in Nat /\ Cardinality(T) \in Nat
           /\ Cardinality(T) = Cardinality(S) + (IF m \in T THEN 1 ELSE 0)
                                              - (IF m \in S THEN 1 ELSE 0)
           /\ Cardinality(S) = 0 <=> S = {}
           /\ Cardinality(T) = 0 <=> T = {}
<1>1. /\ IsFiniteSet(S) /\ Cardinality(S) \in Nat /\ IsFiniteSet(T) /\ Cardinality(T) \in Nat
      /\ Cardinality(S) = 0 <=> S = {}
      /\ Cardinality(T) = 0 <=> T = {}
  BY Count
<1>2. CASE (m \in S <=> m \in T) \/ m \notin Mm
  <2>1. S = T
    BY <1>2
  <2>q. QED
    BY <1>1, <2>1
<1>3. CASE m \in Mm /\ m \in S /\ m \notin T
  <2>1. T = S \ {m}
    BY <1>3
  <2>2. Cardinality(S \ {m}) = Cardinality(S) - 1
    BY <1>3, Count
  <2>q. QED
    BY <1>1, <1>3, <2>1, <2>2
<1>4. CASE m \in Mm /\ m \notin S /\ m \in T
  <2>1. T = S \cup {m}
    BY <1>4
  <2>2. Cardinality(S \cup {m}) = Cardinality(S) + 1
    BY <1>4, Count
  <2>q. QED
    BY <1>1, <1>4, <2>1, <2>2
<1>q. QED
  BY <1>2, <1>3, <1>4

LEMMA MapsChange ==
    ASSUME NEW t, NEW u, NEW m, NEW f, \A k \in Mm : k # m => u[k] = t[k]
    PROVE  /\ Cardinality(Maps(t, f)) \in Nat /\ Cardinality(Maps(u, f)) \in Nat
           /\ Cardinality(Maps(u, f)) = Cardinality(Maps(t, f))
                + (IF m \in Maps(u, f) THEN 1 ELSE 0) - (IF m \in Maps(t, f) THEN 1 ELSE 0)
           /\ Cardinality(Maps(t, f)) = 0 <=> Maps(t, f) = {}
           /\ Cardinality(Maps(u, f)) = 0 <=> Maps(u, f) = {}
<1>1. /\ Maps(t, f) \in SUBSET Mm /\ Maps(u, f) \in SUBSET Mm
      /\ \A k \in Mm : k # m => (k \in Maps(u, f) <=> k \in Maps(t, f))
  BY DEF Maps
<1> DEFINE S == Maps(t, f)
           T == Maps(u, f)
<1> HIDE DEF S, T
<1>2. /\ Cardinality(S) \in Nat /\ Cardinality(T) \in Nat
      /\ Cardinality(T) = Cardinality(S) + (IF m \in T THEN 1 ELSE 0)
                                         - (IF m \in S THEN 1 ELSE 0)
      /\ Cardinality(S) = 0 <=> S = {}
      /\ Cardinality(T) = 0 <=> T = {}
  <2>1. S \in SUBSET Mm /\ T \in SUBSET Mm /\ \A k \in Mm : k # m => (k \in T <=> k \in S)
    BY <1>1 DEF S, T
  <2>q. QED
    BY <2>1, CountChange
<1>q. QED
  BY <1>2 DEF S, T

LEMMA HoldsChange ==
    ASSUME NEW t, NEW u, NEW m, NEW e, \A k \in Mm : k # m => u[k] = t[k]
    PROVE  /\ Cardinality(Holds(t, e)) \in Nat /\ Cardinality(Holds(u, e)) \in Nat
           /\ Cardinality(Holds(u, e)) = Cardinality(Holds(t, e))
                + (IF m \in Holds(u, e) THEN 1 ELSE 0) - (IF m \in Holds(t, e) THEN 1 ELSE 0)
           /\ Cardinality(Holds(t, e)) = 0 <=> Holds(t, e) = {}
           /\ Cardinality(Holds(u, e)) = 0 <=> Holds(u, e) = {}
<1>1. /\ Holds(t, e) \in SUBSET Mm /\ Holds(u, e) \in SUBSET Mm
      /\ \A k \in Mm : k # m => (k \in Holds(u, e) <=> k \in Holds(t, e))
  BY DEF Holds
<1> DEFINE S == Holds(t, e)
           T == Holds(u, e)
<1> HIDE DEF S, T
<1>2. /\ Cardinality(S) \in Nat /\ Cardinality(T) \in Nat
      /\ Cardinality(T) = Cardinality(S) + (IF m \in T THEN 1 ELSE 0)
                                         - (IF m \in S THEN 1 ELSE 0)
      /\ Cardinality(S) = 0 <=> S = {}
      /\ Cardinality(T) = 0 <=> T = {}
  <2>1. S \in SUBSET Mm /\ T \in SUBSET Mm /\ \A k \in Mm : k # m => (k \in T <=> k \in S)
    BY <1>1 DEF S, T
  <2>q. QED
    BY <2>1, CountChange
<1>q. QED
  BY <1>2 DEF S, T

\* The same, with names for the hypothesis and the conclusion
Elsewhere(t, u, m) == \A k \in Mm : k # m => u[k] = t[k]

MapsMove(t, u, m, f) ==
    /\ Cardinality(Maps(t, f)) \in Nat /\ Cardinality(Maps(u, f)) \in Nat
    /\ Cardinality(Maps(u, f)) = Cardinality(Maps(t, f))
         + (IF m \in Maps(u, f) THEN 1 ELSE 0) - (IF m \in Maps(t, f) THEN 1 ELSE 0)
    /\ Cardinality(Maps(t, f)) = 0 <=> Maps(t, f) = {}
    /\ Cardinality(Maps(u, f)) = 0 <=> Maps(u, f) = {}

HoldsMove(t, u, m, e) ==
    /\ Cardinality(Holds(t, e)) \in Nat /\ Cardinality(Holds(u, e)) \in Nat
    /\ Cardinality(Holds(u, e)) = Cardinality(Holds(t, e))
         + (IF m \in Holds(u, e) THEN 1 ELSE 0) - (IF m \in Holds(t, e) THEN 1 ELSE 0)
    /\ Cardinality(Holds(t, e)) = 0 <=> Holds(t, e) = {}
    /\ Cardinality(Holds(u, e)) = 0 <=> Holds(u, e) = {}

LEMMA MapsMoved ==
    ASSUME NEW t, NEW u, NEW m, NEW f, Elsewhere(t, u, m)
    PROVE  MapsMove(t, u, m, f)
<1>1. \A k \in Mm : k # m => u[k] = t[k]
  BY DEF Elsewhere
<1>2. /\ Cardinality(Maps(t, f)) \in Nat /\ Cardinality(Maps(u, f)) \in Nat
      /\ Cardinality(Maps(u, f)) = Cardinality(Maps(t, f))
           + (IF m \in Maps(u, f) THEN 1 ELSE 0) - (IF m \in Maps(t, f) THEN 1 ELSE 0)
      /\ Cardinality(Maps(t, f)) = 0 <=> Maps(t, f) = {}
      /\ Cardinality(Maps(u, f)) = 0 <=> Maps(u, f) = {}
  BY <1>1, MapsChange
<1>q. QED
  BY <1>2 DEF MapsMove

LEMMA HoldsMoved ==
    ASSUME NEW t, NEW u, NEW m, NEW e, Elsewhere(t, u, m)
    PROVE  HoldsMove(t, u, m, e)
<1>1. \A k \in Mm : k # m => u[k] = t[k]
  BY DEF Elsewhere
<1>2. /\ Cardinality(Holds(t, e)) \in Nat /\ Cardinality(Holds(u, e)) \in Nat
      /\ Cardinality(Holds(u, e)) = Cardinality(Holds(t, e))
           + (IF m \in Holds(u, e) THEN 1 ELSE 0) - (IF m \in Holds(t, e) THEN 1 ELSE 0)
      /\ Cardinality(Holds(t, e)) = 0 <=> Holds(t, e) = {}
      /\ Cardinality(Holds(u, e)) = 0 <=> Holds(u, e) = {}
  BY <1>1, HoldsChange
<1>q. QED
  BY <1>2 DEF HoldsMove

-----------------------------------------------------------------------------
(* Local changes                                                            *)

\* r is s but for the entry of m, the page f and the swap entry e; the entry
\* of m concerns no other page and no other swap entry, before and after.
Only(t, f, e) ==
    (t.kind = "present" => t.page = f) /\ (t.kind = "swap" => t.entry = e)

Local(s, r, m, f, e) ==
    /\ r \in Mem
    /\ \A k \in Mm : IF k = m THEN Only(s.pte[k], f, e) /\ Only(r.pte[k], f, e)
                     ELSE r.pte[k] = s.pte[k]
    /\ \A g \in Frame : IF g = f THEN \/ r.page[g].index = s.page[g].index
                                      \/ /\ r.page[g].index \in {e, NoSlot}
                                         /\ s.page[g].index \in {e, NoSlot}
                        ELSE r.page[g] = s.page[g] /\ (g \in r.free <=> g \in s.free)
    /\ \A i \in Slot : i # e => r.mem_map[i] = s.mem_map[i] /\ r.disk[i] = s.disk[i]

\* What such a change has to leave in order
LocalOK(s, r, H, G, x, y, f, e) ==
    /\ G \subseteq Frame
    /\ \A g \in Frame : g # f => (g \in G <=> g \in H) /\ (g = x <=> g = y)
    /\ f \in Frame => /\ FrameOK(r, G, y, f)
                      /\ r.page[f].index # NoSlot =>
                           \A g \in Frame : g # f => s.page[g].index # r.page[f].index
    /\ e \in Slot => EntryOK(r, e)

LEMMA LocalGood ==
    ASSUME NEW s, NEW r, NEW H, NEW G, NEW x, NEW y, NEW m, NEW f, NEW e,
           Good(s, H, x), Local(s, r, m, f, e), LocalOK(s, r, H, G, x, y, f, e)
    PROVE  Good(r, G, y)
<1>1. ASSUME NEW g \in Frame PROVE FrameOK(r, G, y, g)
  <2>1. CASE g = f
    BY <2>1 DEF LocalOK
  <2>2. CASE g # f
    <3>1. /\ r.page[g] = s.page[g] /\ (g \in r.free <=> g \in s.free)
          /\ (g \in G <=> g \in H) /\ (g = x <=> g = y)
      BY <2>2 DEF Local, LocalOK
    <3>2. \A k \in Mm : k # m => r.pte[k] = s.pte[k]
      BY DEF Local
    <3>3. Maps(r.pte, g) = Maps(s.pte, g)
      BY <2>2 DEF Local, Maps, Only
    <3>4. FrameOK(s, H, x, g)
      BY DEF Good
    <3>q. QED
      BY <3>1, <3>3, <3>4 DEF FrameOK
  <2>q. QED
    BY <2>1, <2>2
<1>2. ASSUME NEW i \in Slot PROVE EntryOK(r, i)
  <2>1. CASE i = e
    BY <2>1 DEF LocalOK
  <2>2. CASE i # e
    <3>1. r.mem_map[i] = s.mem_map[i]
      BY <2>2 DEF Local
    <3>2. Holds(r.pte, i) = Holds(s.pte, i)
      BY <2>2 DEF Local, Holds, Only
    <3>3. swap_hash_find(r, i) = swap_hash_find(s, i)
      BY <2>2 DEF Local, swap_hash_find
    <3>4. EntryOK(s, i)
      BY DEF Good
    <3>q. QED
      BY <3>1, <3>2, <3>3, <3>4 DEF EntryOK
  <2>q. QED
    BY <2>1, <2>2
<1>3. ASSUME NEW g \in Frame, NEW h \in Frame,
             r.page[g].index # NoSlot, r.page[g].index = r.page[h].index
      PROVE  g = h
  BY <1>3 DEF Local, LocalOK, Good
<1>q. QED
  BY <1>1, <1>2, <1>3 DEF Good, Local, LocalOK

-----------------------------------------------------------------------------
(* Freeing and taking frames                                                *)

LEMMA PageFacts ==
    ASSUME NEW s \in Mem, NEW f \in Frame
    PROVE  /\ s.page[f].ref \in Nat /\ s.page[f].index \in Slot \cup {NoSlot}
           /\ s.page[f].dirty \in BOOLEAN /\ s.page[f].list \in {"none", "active", "inactive"}
           /\ s.page[f].data \in 0 .. MaxData
BY DEF Mem, Page

LEMMA PageUpdates ==
    \A a \in Page :
        /\ \A v \in Nat : [a EXCEPT !.ref = v] \in Page
        /\ \A v \in Slot \cup {NoSlot} : [a EXCEPT !.index = v] \in Page
        /\ \A v \in BOOLEAN : [a EXCEPT !.dirty = v] \in Page
        /\ \A v \in {"none", "active", "inactive"} : [a EXCEPT !.list = v] \in Page
        /\ \A v \in 0 .. MaxData : [a EXCEPT !.data = v] \in Page
<1> SUFFICES ASSUME NEW a \in Page
             PROVE  /\ \A v \in Nat : [a EXCEPT !.ref = v] \in Page
                    /\ \A v \in Slot \cup {NoSlot} : [a EXCEPT !.index = v] \in Page
                    /\ \A v \in BOOLEAN : [a EXCEPT !.dirty = v] \in Page
                    /\ \A v \in {"none", "active", "inactive"} : [a EXCEPT !.list = v] \in Page
                    /\ \A v \in 0 .. MaxData : [a EXCEPT !.data = v] \in Page
  OBVIOUS
<1>1. \A v \in Nat : [a EXCEPT !.ref = v] \in Page
  BY DEF Page
<1>2. \A v \in Slot \cup {NoSlot} : [a EXCEPT !.index = v] \in Page
  BY DEF Page
<1>3. \A v \in BOOLEAN : [a EXCEPT !.dirty = v] \in Page
  BY DEF Page
<1>4. \A v \in {"none", "active", "inactive"} : [a EXCEPT !.list = v] \in Page
  BY DEF Page
<1>5. \A v \in 0 .. MaxData : [a EXCEPT !.data = v] \in Page
  BY DEF Page
<1>q. QED
  BY <1>1, <1>2, <1>3, <1>4, <1>5

\* One part of s is replaced.
PutPage(s, f, a)  == [s EXCEPT !.page[f] = a]
PutEntry(s, m, t) == [s EXCEPT !.pte[m] = t]
PutMap(s, e, n)   == [s EXCEPT !.mem_map[e] = n]
PutFree(s, F)     == [s EXCEPT !.free = F]

\* What changes then, and what does not
PagePut(s, r, f, a) ==
    /\ r \in Mem /\ r.pte = s.pte /\ r.mem_map = s.mem_map /\ r.disk = s.disk
    /\ r.free = s.free /\ r.page[f] = a
    /\ \A g \in Frame : g # f => r.page[g] = s.page[g]

EntryPut(s, r, m, t) ==
    /\ r \in Mem /\ r.page = s.page /\ r.mem_map = s.mem_map /\ r.disk = s.disk
    /\ r.free = s.free /\ r.pte[m] = t
    /\ \A k \in Mm : k # m => r.pte[k] = s.pte[k]

MapPut(s, r, e, n) ==
    /\ r \in Mem /\ r.page = s.page /\ r.pte = s.pte /\ r.disk = s.disk
    /\ r.free = s.free /\ r.mem_map[e] = n
    /\ \A i \in Slot : i # e => r.mem_map[i] = s.mem_map[i]

FreePut(s, r, F) ==
    /\ r \in Mem /\ r.page = s.page /\ r.pte = s.pte /\ r.disk = s.disk
    /\ r.mem_map = s.mem_map /\ r.free = F

LEMMA SetPage ==
    ASSUME NEW s \in Mem, NEW f \in Frame, NEW a \in Page
    PROVE  PagePut(s, PutPage(s, f, a), f, a)
BY DEF Mem, PutPage, PagePut

LEMMA SetEntry ==
    ASSUME NEW s \in Mem, NEW m \in Mm, NEW t \in Pte
    PROVE  EntryPut(s, PutEntry(s, m, t), m, t)
BY DEF Mem, PutEntry, EntryPut

LEMMA SetMap ==
    ASSUME NEW s \in Mem, NEW e \in Slot, NEW n \in Nat \cup {UNUSED}
    PROVE  MapPut(s, PutMap(s, e, n), e, n)
BY DEF Mem, PutMap, MapPut

LEMMA SetFree ==
    ASSUME NEW s \in Mem, NEW F \in SUBSET Frame
    PROVE  FreePut(s, PutFree(s, F), F)
BY DEF Mem, PutFree, FreePut

\* free_page
Freed(s, r, f) ==
    /\ r \in Mem /\ r.pte = s.pte /\ r.mem_map = s.mem_map /\ r.disk = s.disk
    /\ r.free = s.free \cup {f}
    /\ \A g \in Frame : g # f => r.page[g] = s.page[g]
    /\ r.page[f].ref = 0 /\ r.page[f].index = s.page[f].index
    /\ r.page[f].list = s.page[f].list

LEMMA FreeEffect ==
    ASSUME NEW s \in Mem, NEW f \in Frame
    PROVE  Freed(s, free_page(s, f), f)
<1>1. PICK a \in Page : a = s.page[f]
  BY DEF Mem
<1> DEFINE b == [[[a EXCEPT !.ref = 0] EXCEPT !.dirty = FALSE] EXCEPT !.data = 0]
           u == PutFree(s, s.free \cup {f})
           r == free_page(s, f)
<1>2. b \in Page /\ b.ref = 0 /\ b.index = a.index /\ b.list = a.list
  <2>1. 0 \in Nat /\ 0 \in 0 .. MaxData
    OBVIOUS
  <2>2. b \in Page
    BY <2>1, PageUpdates, Zenon
  <2>q. QED
    BY <2>2 DEF Page
<1>3. r = PutPage(u, f, b)
  <2>1. s.page[f] = a /\ s.page \in [Frame -> Page] /\ DOMAIN s.page = Frame
    BY <1>1 DEF Mem
  <2>2. r = [u EXCEPT !.page[f].ref = 0, !.page[f].dirty = FALSE, !.page[f].data = 0]
    BY DEF free_page, PutFree
  <2>3. u.page = s.page /\ u \in Mem
    BY SetFree DEF Mem, FreePut
  <2> HIDE DEF u, r
  <2>q. QED
    BY <2>1, <2>2, <2>3 DEF PutPage, Mem
<1> HIDE DEF b, u, r
<1>4. FreePut(s, u, s.free \cup {f})
  BY SetFree DEF u, Mem
<1>5. PagePut(u, r, f, b)
  BY <1>2, <1>3, <1>4, SetPage DEF FreePut
<1>6. Freed(s, r, f)
  BY <1>1, <1>2, <1>4, <1>5 DEF FreePut, PagePut, Freed
<1>q. QED
  BY <1>6 DEF r

\* What Good says of single frames and entries
LEMMA GoodFrame ==
    ASSUME NEW s, NEW H, NEW x, NEW f \in Frame, Good(s, H, x)
    PROVE  /\ s \in Mem /\ FrameOK(s, H, x, f) /\ H \subseteq Frame
           /\ Cardinality(Maps(s.pte, f)) \in Nat
           /\ Cardinality(Maps(s.pte, f)) = 0 <=> Maps(s.pte, f) = {}
BY MapsChange DEF Good

\* free_page of a page that a fault holds
LEMMA FreeGood ==
    ASSUME NEW s, NEW H, NEW x, NEW n \in H, NEW r, Good(s, H, x), r = free_page(s, n)
    PROVE  Good(r, H \ {n}, x)
<1>1. n \in Frame /\ s \in Mem /\ FrameOK(s, H, x, n) /\ H \subseteq Frame
  BY GoodFrame DEF Good
<1>2. Freed(s, r, n)
  BY <1>1, FreeEffect
<1>3. Local(s, r, NoMm, n, NoSlot)
  BY <1>1, <1>2 DEF Local, Freed
<1>4. FrameOK(r, H \ {n}, x, n)
  BY <1>1, <1>2 DEF FrameOK, Freed
<1>5. LocalOK(s, r, H, H \ {n}, x, x, n, NoSlot)
  BY <1>1, <1>2, <1>4 DEF LocalOK, FrameOK, Freed
<1>q. QED
  BY <1>3, <1>5, LocalGood

\* alloc_page
LEMMA TakenGood ==
    ASSUME NEW s, NEW H, NEW x, NEW n \in Frame, NEW r, Good(s, H, x),
           n \in s.free, r = Taken(s, n)
    PROVE  /\ Good(r, H \cup {n}, x) /\ n \notin r.free /\ n \notin H
           /\ r.page = s.page /\ r.pte = s.pte /\ r.disk = s.disk
           /\ r.mem_map = s.mem_map
<1>1. s \in Mem /\ FrameOK(s, H, x, n) /\ H \subseteq Frame
  BY GoodFrame
<1>2. s.free \ {n} \in SUBSET Frame /\ r = PutFree(s, s.free \ {n})
  BY <1>1 DEF Taken, Mem, PutFree
<1>3. FreePut(s, r, s.free \ {n})
  BY <1>1, <1>2, SetFree
<1>4. Local(s, r, NoMm, n, NoSlot)
  BY <1>1, <1>3 DEF Local, FreePut
<1>5. FrameOK(r, H \cup {n}, x, n)
  BY <1>1, <1>3 DEF FrameOK, FreePut
<1>6. LocalOK(s, r, H, H \cup {n}, x, x, n, NoSlot)
  BY <1>1, <1>3, <1>5 DEF LocalOK, FrameOK, FreePut
<1>7. Good(r, H \cup {n}, x)
  BY <1>4, <1>6, LocalGood
<1>q. QED
  BY <1>1, <1>3, <1>7 DEF FrameOK, FreePut

\* Nothing that Good speaks of changes in a page.
SameCounts(a, b) == b.ref = a.ref /\ b.index = a.index /\ b.list = a.list

LEMMA SamePageGood ==
    ASSUME NEW s, NEW H, NEW x, NEW n \in Frame, NEW a \in Page, NEW r,
           Good(s, H, x), SameCounts(s.page[n], a), PagePut(s, r, n, a)
    PROVE  Good(r, H, x)
<1>1. s \in Mem /\ FrameOK(s, H, x, n) /\ H \subseteq Frame
  BY GoodFrame
<1>5. Local(s, r, NoMm, n, NoSlot)
  BY <1>1 DEF Local, PagePut, SameCounts
<1>6. FrameOK(r, H, x, n)
  BY <1>1 DEF FrameOK, PagePut, SameCounts
<1>7. LocalOK(s, r, H, H, x, x, n, NoSlot)
  BY <1>1, <1>6 DEF LocalOK, Good, PagePut, SameCounts
<1>q. QED
  BY <1>5, <1>7, LocalGood

-----------------------------------------------------------------------------
(* page_remove_pte                                                          *)

\* The entry of m has mapped f and does no longer.
Unmapped(s, r, m, f) ==
    /\ r \in Mem /\ r.mem_map = s.mem_map /\ r.disk = s.disk
    /\ r.pte[m] = Invalid /\ \A k \in Mm : k # m => r.pte[k] = s.pte[k]
    /\ \A g \in Frame : g # f => r.page[g] = s.page[g]
    /\ r.page[f].ref = s.page[f].ref - 1
    /\ r.page[f].index = s.page[f].index /\ r.page[f].list = s.page[f].list
    /\ IF s.page[f].index = NoSlot /\ s.page[f].ref = 1
       THEN r.free = s.free \cup {f}
       ELSE /\ r.free = s.free /\ r.page[f].data = s.page[f].data
            /\ r.page[f].dirty = (s.page[f].dirty \/ (s.page[f].index # NoSlot /\ s.pte[m].D))

LEMMA UnmapEffect ==
    ASSUME NEW s \in Mem, NEW m \in Mm, NEW f \in Frame, s.pte[m].kind = "present",
           s.pte[m].page = f, s.page[f].ref # 0
    PROVE  Unmapped(s, page_remove_pte(s, m), m, f)
<1> DEFINE r == page_remove_pte(s, m)
           u == PutEntry(s, m, Invalid)
           D == s.pte[m].D
<1>0. /\ s.page[f] \in Page /\ s.pte[m] \in Pte /\ s.page[f].ref - 1 \in Nat /\ D \in BOOLEAN
      /\ s.page[f].ref \in Nat
  <2>1. s.page[f] \in Page /\ s.pte[m] \in Pte
    BY DEF Mem
  <2>2. s.page[f].ref \in Nat
    BY <2>1 DEF Page
  <2>q. QED
    BY <2>1, <2>2, PteFacts
<1>1. PICK a \in Page : a = s.page[f]
  BY <1>0
<1> DEFINE b == [a EXCEPT !.ref = a.ref - 1]
           v == PutPage(u, f, b)
<1>2. b \in Page /\ b.ref = a.ref - 1 /\ b.index = a.index /\ b.list = a.list
      /\ b.data = a.data /\ b.dirty = a.dirty
  <2>1. b \in Page
    BY <1>0, <1>1, PageUpdates, Zenon
  <2>q. QED
    BY <2>1 DEF Page
<1>3. EntryPut(s, u, m, Invalid)
  BY SetEntry, PteKinds
<1>r. /\ PageSwap(s, f) => r = [v EXCEPT !.page[f].dirty = v.page[f].dirty \/ D]
      /\ ~PageSwap(s, f) /\ v.page[f].ref = 0 => r = free_page(v, f)
      /\ ~PageSwap(s, f) /\ v.page[f].ref # 0 => r = v
  <2> DEFINE w == [u EXCEPT !.page[f].ref = u.page[f].ref - 1]
  <2>1. r = IF PageSwap(s, f) THEN [w EXCEPT !.page[f].dirty = w.page[f].dirty \/ D]
            ELSE IF w.page[f].ref = 0 THEN free_page(w, f) ELSE w
    BY DEF page_remove_pte, PutEntry
  <2> HIDE DEF r, u
  <2>2. w = v
    BY <1>1, <1>3 DEF PutPage, EntryPut, Mem
  <2>q. QED
    BY <2>1, <2>2, Zenon
<1>4. PagePut(u, v, f, b)
  <2> HIDE DEF b, u
  <2>q. QED
    BY <1>2, <1>3, SetPage DEF EntryPut
<1>5. CASE PageSwap(s, f)
  <2> DEFINE c == [b EXCEPT !.dirty = b.dirty \/ D]
  <2>1. c \in Page /\ c.ref = b.ref /\ c.index = b.index /\ c.list = b.list /\ c.data = b.data
        /\ c.dirty = (b.dirty \/ D)
    <3> HIDE DEF b, D
    <3>1. b.dirty \in BOOLEAN
      BY <1>2 DEF Page
    <3>2. c \in Page
      BY <1>0, <1>2, <3>1, PageUpdates, Zenon
    <3>q. QED
      BY <1>2 DEF Page
  <2> HIDE DEF r, u, v, b, D
  <2>2. r = PutPage(v, f, c)
    BY <1>4, <1>5, <1>r DEF PutPage, PagePut, Mem
  <2> HIDE DEF c
  <2>3. PagePut(v, r, f, c)
    BY <1>4, <2>1, <2>2, SetPage DEF PagePut
  <2>4. Unmapped(s, r, m, f)
    BY <1>1, <1>2, <1>3, <1>4, <1>5, <2>1, <2>3 DEF EntryPut, PagePut, Unmapped, PageSwap, D
  <2>q. QED
    BY <2>4 DEF r
<1>6. CASE ~PageSwap(s, f) /\ a.ref # 1
  <2> HIDE DEF r, u, v, b, D
  <2>1. r = v
    BY <1>0, <1>1, <1>2, <1>4, <1>6, <1>r DEF PagePut
  <2>2. Unmapped(s, r, m, f)
    BY <1>0, <1>1, <1>2, <1>3, <1>4, <1>6, <2>1 DEF EntryPut, PagePut, Unmapped, PageSwap, Page
  <2>q. QED
    BY <2>2 DEF r
<1>7. CASE ~PageSwap(s, f) /\ a.ref = 1
  <2> HIDE DEF r, u, v, b, D
  <2>1. r = free_page(v, f)
    BY <1>0, <1>1, <1>2, <1>4, <1>7, <1>r DEF PagePut
  <2>2. Freed(v, r, f)
    BY <1>4, <2>1, FreeEffect DEF PagePut
  <2>3. Unmapped(s, r, m, f)
    BY <1>1, <1>2, <1>3, <1>4, <1>7, <2>2 DEF EntryPut, PagePut, Freed, Unmapped, PageSwap
  <2>q. QED
    BY <2>3 DEF r
<1>q. QED
  BY <1>5, <1>6, <1>7

LEMMA UnmapGood ==
    ASSUME NEW s, NEW H, NEW x, NEW m \in Mm, NEW f \in Frame, NEW r, Good(s, H, x),
           s.pte[m].kind = "present", s.pte[m].page = f, f # x, Unmapped(s, r, m, f)
    PROVE  Good(r, H, x)
<1>1. s \in Mem /\ FrameOK(s, H, x, f) /\ H \subseteq Frame
  BY GoodFrame
<1>2. /\ Cardinality(Maps(s.pte, f)) \in Nat /\ Cardinality(Maps(r.pte, f)) \in Nat
      /\ Cardinality(Maps(r.pte, f)) = Cardinality(Maps(s.pte, f)) - 1
  <2>1. /\ Cardinality(Maps(s.pte, f)) \in Nat /\ Cardinality(Maps(r.pte, f)) \in Nat
        /\ Cardinality(Maps(r.pte, f)) = Cardinality(Maps(s.pte, f))
             + (IF m \in Maps(r.pte, f) THEN 1 ELSE 0) - (IF m \in Maps(s.pte, f) THEN 1 ELSE 0)
    <3>1. Elsewhere(s.pte, r.pte, m)
      BY DEF Elsewhere, Unmapped
    <3>2. MapsMove(s.pte, r.pte, m, f)
      BY <3>1, MapsMoved
    <3>q. QED
      BY <3>2 DEF MapsMove
  <2>2. m \in Maps(s.pte, f) /\ m \notin Maps(r.pte, f)
    BY PteKinds DEF Maps, Unmapped
  <2>q. QED
    BY <2>1, <2>2
<1>3. Local(s, r, m, f, NoSlot)
  BY <1>1, PteKinds DEF Local, Only, Unmapped
<1>4. FrameOK(r, H, x, f)
  <2>1. s.page[f].ref = Cardinality(Maps(s.pte, f))
    BY <1>1, <1>2 DEF FrameOK
  <2>2. r.page[f].ref = Cardinality(Maps(r.pte, f)) /\ s.page[f].ref # 0
    BY <1>2, <2>1 DEF Unmapped
  <2>3. f \notin s.free /\ f \notin H
    BY <1>1, <2>2 DEF FrameOK
  <2>4. CASE s.page[f].index = NoSlot /\ s.page[f].ref = 1
    BY <1>1, <1>2, <2>1, <2>2, <2>3, <2>4 DEF FrameOK, Unmapped
  <2>5. CASE ~(s.page[f].index = NoSlot /\ s.page[f].ref = 1)
    BY <1>1, <1>2, <2>1, <2>2, <2>3, <2>5 DEF FrameOK, Unmapped
  <2>q. QED
    BY <2>4, <2>5
<1>5. LocalOK(s, r, H, H, x, x, f, NoSlot)
  BY <1>1, <1>4 DEF LocalOK, Good, Unmapped
<1>q. QED
  BY <1>3, <1>5, LocalGood

LEMMA HashFacts ==
    ASSUME NEW s, NEW H, NEW x, NEW e \in Slot, Good(s, H, x), swap_hash_find(s, e) # {}
    PROVE  \E f \in Frame : /\ (CHOOSE g \in swap_hash_find(s, e) : TRUE) = f
                            /\ s.page[f].index = e
                            /\ \A g \in Frame : s.page[g].index = e => g = f
                            /\ swap_hash_find(s, e) = {f}
<1>1. PICK f : f = CHOOSE g \in swap_hash_find(s, e) : TRUE
  OBVIOUS
<1>2. f \in swap_hash_find(s, e)
  BY <1>1
<1>3. f \in Frame /\ s.page[f].index = e /\ e # NoSlot
  BY <1>2 DEF swap_hash_find
<1>4. \A g \in Frame : s.page[g].index = e => g = f
  BY <1>3 DEF Good
<1>5. swap_hash_find(s, e) = {f}
  BY <1>2, <1>4 DEF swap_hash_find
<1>q. QED
  BY <1>1, <1>3, <1>4, <1>5

\* swap_list_del, swap_page_del and free_page of one page
Dropped(s, r, f) ==
    /\ r \in Mem /\ r.pte = s.pte /\ r.mem_map = s.mem_map /\ r.disk = s.disk
    /\ r.free = s.free \cup {f}
    /\ \A g \in Frame : g # f => r.page[g] = s.page[g]
    /\ r.page[f].ref = 0 /\ r.page[f].index = NoSlot /\ r.page[f].list = "none"

\* swap_list_del and swap_page_del
Unlisted(s, r, f) ==
    /\ r \in Mem /\ r.pte = s.pte /\ r.mem_map = s.mem_map /\ r.disk = s.disk
    /\ r.free = s.free
    /\ \A g \in Frame : g # f => r.page[g] = s.page[g]
    /\ r.page[f].ref = s.page[f].ref /\ r.page[f].index = NoSlot /\ r.page[f].list = "none"
    /\ r.page[f].data = s.page[f].data

LEMMA UnlistEffect ==
    ASSUME NEW s \in Mem, NEW f \in Frame
    PROVE  Unlisted(s, swap_page_del(swap_list_del(s, f), f), f)
<1> DEFINE u == swap_list_del(s, f)
           r == swap_page_del(u, f)
           a == [s.page[f] EXCEPT !.list = "none"]
           b == [a EXCEPT !.index = NoSlot]
<1>1. s.page[f] \in Page
  BY DEF Mem
<1>2. /\ a \in Page /\ a.ref = s.page[f].ref /\ a.list = "none" /\ a.data = s.page[f].data
  <2>1. a \in Page
    BY <1>1, PageUpdates, Zenon
  <2>q. QED
    BY <1>1, <2>1 DEF Page
<1>3. b \in Page /\ b.ref = s.page[f].ref /\ b.list = "none" /\ b.index = NoSlot
      /\ b.data = s.page[f].data
  <2> HIDE DEF a
  <2>1. NoSlot \in Slot \cup {NoSlot}
    OBVIOUS
  <2>2. b \in Page
    BY <1>2, <2>1, PageUpdates, Zenon
  <2>q. QED
    BY <1>2, <2>2 DEF Page
<1>4. u = PutPage(s, f, a)
  BY DEF swap_list_del, PutPage, Mem
<1> HIDE DEF a, u
<1>5. PagePut(s, u, f, a)
  BY <1>2, <1>4, SetPage
<1>6. r = PutPage(u, f, b)
  BY <1>5 DEF swap_page_del, PutPage, PagePut, Mem
<1> HIDE DEF b, r
<1>7. PagePut(u, r, f, b)
  BY <1>3, <1>5, <1>6, SetPage DEF PagePut
<1>8. Unlisted(s, r, f)
  BY <1>3, <1>5, <1>7 DEF PagePut, Unlisted
<1>q. QED
  BY <1>8 DEF r, u

LEMMA DropEffect ==
    ASSUME NEW s \in Mem, NEW f \in Frame
    PROVE  Dropped(s, swap_free_page(swap_list_del(s, f), f), f)
<1> DEFINE u == swap_page_del(swap_list_del(s, f), f)
           r == free_page(u, f)
<1>1. Unlisted(s, u, f)
  BY UnlistEffect
<1>2. swap_free_page(swap_list_del(s, f), f) = r
  BY Zenon DEF swap_free_page
<1> HIDE DEF u
<1>3. Freed(u, r, f)
  BY <1>1, FreeEffect DEF Unlisted
<1> HIDE DEF r
<1>4. Dropped(s, r, f)
  BY <1>1, <1>3 DEF Unlisted, Freed, Dropped
<1>q. QED
  BY <1>2, <1>4

\* swap_remove_entry, after the entry of m that held e has been cleared
Unheld(s, r, m, e) ==
    /\ r \in Mem
    /\ r.pte[m] = Invalid /\ \A k \in Mm : k # m => r.pte[k] = s.pte[k]
    /\ \A i \in Slot : i # e => r.mem_map[i] = s.mem_map[i] /\ r.disk[i] = s.disk[i]

Kept(s, r, e) ==
    /\ r.page = s.page /\ r.free = s.free /\ r.disk = s.disk
    /\ r.mem_map[e] = s.mem_map[e] - 1
    /\ s.mem_map[e] > 1 \/ \E f \in swap_hash_find(s, e) : s.page[f].ref # 0

GivenUp(s, r, e) ==
    /\ r.page = s.page /\ r.free = s.free
    /\ r.mem_map[e] = UNUSED /\ s.mem_map[e] = 1 /\ swap_hash_find(s, e) = {}

GivenUpWith(s, r, e, f) ==
    /\ s.page[f].index = e /\ s.page[f].ref = 0
    /\ \A g \in Frame : g # f => r.page[g] = s.page[g]
    /\ r.page[f].ref = 0 /\ r.page[f].index = NoSlot /\ r.page[f].list = "none"
    /\ r.free = s.free \cup {f}
    /\ r.mem_map[e] = UNUSED /\ s.mem_map[e] = 1

LEMMA ReleaseEffect ==
    ASSUME NEW s \in Mem, NEW e \in Slot, NEW r, r = Released(s, e)
    PROVE  /\ r \in Mem /\ r.page = s.page /\ r.pte = s.pte /\ r.free = s.free
           /\ r.mem_map[e] = UNUSED
           /\ \A i \in Slot : i # e => r.mem_map[i] = s.mem_map[i] /\ r.disk[i] = s.disk[i]
<1>1. 0 \in 0 .. MaxData /\ UNUSED \in Nat \cup {UNUSED}
  OBVIOUS
<1>q. QED
  BY <1>1 DEF Released, Mem

LEMMA UnholdEffect ==
    ASSUME NEW s, NEW H, NEW x, NEW m \in Mm, NEW e \in Slot, Good(s, H, x),
           s.pte[m].kind = "swap", s.pte[m].entry = e, NEW r, r = page_remove_pte(s, m)
    PROVE  /\ Unheld(s, r, m, e)
           /\ \/ Kept(s, r, e) \/ GivenUp(s, r, e)
              \/ \E f \in Frame : GivenUpWith(s, r, e, f)
<1> DEFINE u == PutEntry(s, m, Invalid)
<1>1. s \in Mem /\ s.mem_map[e] \in Nat \ {0} /\ Cardinality(Holds(s.pte, e)) \in Nat
  <2>1. s \in Mem /\ EntryOK(s, e)
    BY DEF Good
  <2>2. m \in Holds(s.pte, e)
    BY DEF Holds
  <2>3. Cardinality(Holds(s.pte, e)) \in Nat /\ Cardinality(Holds(s.pte, e)) # 0
    BY <2>2, HoldsChange
  <2>q. QED
    BY <2>1, <2>2, <2>3 DEF EntryOK
<1>2. EntryPut(s, u, m, Invalid)
  BY <1>1, SetEntry, PteKinds
<1>3. r = swap_remove_entry(u, e)
  BY DEF page_remove_pte, PutEntry
<1> HIDE DEF u
<1>4. swap_hash_find(u, e) = swap_hash_find(s, e) /\ u.page = s.page /\ u.mem_map = s.mem_map
      /\ u \in Mem
  BY <1>2 DEF EntryPut, swap_hash_find
<1> DEFINE less == PutMap(u, e, u.mem_map[e] - 1)
           gone == Released(u, e)
           f == CHOOSE g \in swap_hash_find(u, e) : TRUE
<1>5. MapPut(u, less, e, s.mem_map[e] - 1)
  BY <1>1, <1>4, SetMap
<1>6. /\ gone \in Mem /\ gone.page = u.page /\ gone.pte = u.pte /\ gone.free = u.free
      /\ gone.mem_map[e] = UNUSED
      /\ \A i \in Slot : i # e => gone.mem_map[i] = u.mem_map[i] /\ gone.disk[i] = u.disk[i]
  BY <1>4, ReleaseEffect
<1>7. r = IF less.mem_map[e] > 0 THEN less
          ELSE IF swap_hash_find(u, e) = {} THEN gone
          ELSE IF u.page[f].ref # 0 THEN less
               ELSE swap_free_page(swap_list_del(gone, f), f)
  BY <1>3 DEF swap_remove_entry, PutMap
<1> HIDE DEF less, gone
<1>8. less.mem_map[e] = s.mem_map[e] - 1
  BY <1>5 DEF MapPut
<1>9. CASE s.mem_map[e] > 1 \/ (swap_hash_find(s, e) # {} /\ s.page[f].ref # 0)
  <2>1. s.mem_map[e] > 1 \/ \E g \in swap_hash_find(s, e) : s.page[g].ref # 0
    BY <1>4, <1>9
  <2> HIDE DEF f
  <2>2. r = less
    BY <1>1, <1>4, <1>7, <1>8, <1>9
  <2>q. QED
    BY <1>2, <1>5, <2>1, <2>2 DEF EntryPut, MapPut, Unheld, Kept
<1>10. CASE s.mem_map[e] = 1 /\ swap_hash_find(s, e) = {}
  <2> HIDE DEF f
  <2>1. r = gone
    BY <1>4, <1>7, <1>8, <1>10
  <2>q. QED
    BY <1>2, <1>6, <1>10, <2>1 DEF EntryPut, Unheld, GivenUp
<1>11. CASE s.mem_map[e] = 1 /\ swap_hash_find(s, e) # {} /\ s.page[f].ref = 0
  <2>1. f \in Frame /\ s.page[f].index = e
    BY <1>4, <1>11, HashFacts
  <2> HIDE DEF f
  <2>2. r = swap_free_page(swap_list_del(gone, f), f)
    BY <1>4, <1>7, <1>8, <1>11
  <2>3. Dropped(gone, r, f)
    BY <1>6, <2>1, <2>2, DropEffect
  <2>4. Unheld(s, r, m, e) /\ GivenUpWith(s, r, e, f)
    BY <1>2, <1>6, <1>11, <2>1, <2>3 DEF EntryPut, Unheld, GivenUpWith, Dropped
  <2>q. QED
    BY <2>1, <2>4
<1>q. QED
  BY <1>1, <1>9, <1>10, <1>11

LEMMA UnholdGood ==
    ASSUME NEW s, NEW H, NEW x, NEW m \in Mm, NEW e \in Slot, NEW r, Good(s, H, x),
           s.pte[m].kind = "swap", s.pte[m].entry = e, Unheld(s, r, m, e),
           Kept(s, r, e) \/ GivenUp(s, r, e) \/ \E f \in Frame : GivenUpWith(s, r, e, f)
    PROVE  Good(r, H, x)
<1>1. s \in Mem /\ EntryOK(s, e) /\ H \subseteq Frame
  BY DEF Good
<1>2. /\ Cardinality(Holds(s.pte, e)) \in Nat /\ Cardinality(Holds(r.pte, e)) \in Nat
      /\ Cardinality(Holds(r.pte, e)) = Cardinality(Holds(s.pte, e)) - 1
      /\ Cardinality(Holds(r.pte, e)) = 0 <=> Holds(r.pte, e) = {}
      /\ m \in Holds(s.pte, e)
  <2>1. /\ Cardinality(Holds(s.pte, e)) \in Nat /\ Cardinality(Holds(r.pte, e)) \in Nat
        /\ Cardinality(Holds(r.pte, e)) = Cardinality(Holds(s.pte, e))
             + (IF m \in Holds(r.pte, e) THEN 1 ELSE 0) - (IF m \in Holds(s.pte, e) THEN 1 ELSE 0)
        /\ Cardinality(Holds(r.pte, e)) = 0 <=> Holds(r.pte, e) = {}
    <3>1. Elsewhere(s.pte, r.pte, m)
      BY DEF Elsewhere, Unheld
    <3>2. HoldsMove(s.pte, r.pte, m, e)
      BY <3>1, HoldsMoved
    <3>q. QED
      BY <3>2 DEF HoldsMove
  <2>2. m \in Holds(s.pte, e) /\ m \notin Holds(r.pte, e)
    BY PteKinds DEF Holds, Unheld
  <2>q. QED
    BY <2>1, <2>2
<1>3. s.mem_map[e] = Cardinality(Holds(s.pte, e))
  BY <1>1, <1>2 DEF EntryOK
<1>4. CASE Kept(s, r, e)
  <2>1. Local(s, r, m, NoFrame, e)
    BY <1>4, PteKinds DEF Local, Only, Unheld, Kept
  <2>2. EntryOK(r, e)
    <3>1. swap_hash_find(r, e) = swap_hash_find(s, e)
      BY <1>4 DEF Kept, swap_hash_find
    <3>2. r.mem_map[e] = Cardinality(Holds(r.pte, e))
      BY <1>2, <1>3, <1>4 DEF Kept
    <3>3. r.mem_map[e] = 0 => swap_hash_find(r, e) # {}
      BY <1>2, <1>3, <1>4, <3>1 DEF Kept
    <3>q. QED
      BY <1>2, <3>2, <3>3 DEF EntryOK, UNUSED
  <2>3. LocalOK(s, r, H, H, x, x, NoFrame, e)
    BY <1>1, <2>2 DEF LocalOK
  <2>q. QED
    BY <2>1, <2>3, LocalGood
<1>5. CASE GivenUp(s, r, e)
  <2>1. Local(s, r, m, NoFrame, e)
    BY <1>5, PteKinds DEF Local, Only, Unheld, GivenUp
  <2>2. EntryOK(r, e)
    <3>1. swap_hash_find(r, e) = {}
      BY <1>5 DEF GivenUp, swap_hash_find
    <3>2. r.mem_map[e] = UNUSED /\ Holds(r.pte, e) = {}
      BY <1>2, <1>3, <1>5 DEF GivenUp
    <3>q. QED
      BY <3>1, <3>2 DEF EntryOK, UNUSED
  <2>3. LocalOK(s, r, H, H, x, x, NoFrame, e)
    BY <1>1, <2>2 DEF LocalOK
  <2>q. QED
    BY <2>1, <2>3, LocalGood
<1>6. ASSUME NEW f \in Frame, GivenUpWith(s, r, e, f) PROVE Good(r, H, x)
  <2>1. Local(s, r, m, f, e)
    BY <1>6, PteKinds DEF Local, Only, Unheld, GivenUpWith
  <2>2. EntryOK(r, e)
    <3>1. swap_hash_find(r, e) = {}
      BY <1>6 DEF GivenUpWith, swap_hash_find, Good
    <3>2. r.mem_map[e] = UNUSED /\ Holds(r.pte, e) = {}
      BY <1>2, <1>3, <1>6 DEF GivenUpWith
    <3>q. QED
      BY <3>1, <3>2 DEF EntryOK, UNUSED
  <2>3. FrameOK(r, H, x, f)
    <3>1. FrameOK(s, H, x, f)
      BY DEF Good
    <3>2. f \notin H /\ f \notin s.free
      BY <1>6, <3>1 DEF FrameOK, GivenUpWith
    <3>3. Maps(r.pte, f) = Maps(s.pte, f)
      BY PteKinds DEF Maps, Unheld
    <3>q. QED
      BY <1>6, <3>1, <3>2, <3>3 DEF FrameOK, GivenUpWith
  <2>4. LocalOK(s, r, H, H, x, x, f, e)
    BY <1>1, <1>6, <2>2, <2>3 DEF LocalOK, GivenUpWith
  <2>q. QED
    BY <2>1, <2>4, LocalGood
<1>q. QED
  BY <1>4, <1>5, <1>6

LEMMA RemoveGood ==
    ASSUME NEW s, NEW H, NEW x, NEW m \in Mm, NEW r, Good(s, H, x),
           s.pte[m].kind = "present" => s.pte[m].page # x, r = page_remove_pte(s, m)
    PROVE  /\ Good(r, H, x)
           /\ r.pte[m] = Invalid /\ \A k \in Mm : k # m => r.pte[k] = s.pte[k]
<1>1. s \in Mem /\ s.pte[m] \in Pte
  BY DEF Good, Mem
<1>2. CASE s.pte[m].kind = "invalid"
  <2>1. r = s /\ s.pte[m] = Invalid
    BY <1>1, <1>2, PteFacts DEF page_remove_pte
  <2>q. QED
    BY <2>1
<1>3. CASE s.pte[m].kind = "present"
  <2>1. PICK f \in Frame : f = s.pte[m].page
    BY <1>1, <1>3, PteFacts
  <2>2. s.page[f].ref # 0
    <3>1. m \in Maps(s.pte, f)
      BY <1>3, <2>1 DEF Maps
    <3>2. /\ Cardinality(Maps(s.pte, f)) \in Nat /\ Cardinality(Maps(s.pte, f)) # 0
          /\ FrameOK(s, H, x, f)
      BY <3>1, GoodFrame
    <3>q. QED
      BY <3>1, <3>2 DEF FrameOK
  <2>3. Unmapped(s, r, m, f)
    BY <1>1, <1>3, <2>1, <2>2, UnmapEffect
  <2>4. Good(r, H, x)
    BY <1>3, <2>1, <2>3, UnmapGood
  <2>q. QED
    BY <2>3, <2>4 DEF Unmapped
<1>4. CASE s.pte[m].kind = "swap"
  <2>1. PICK e \in Slot : e = s.pte[m].entry
    BY <1>1, <1>4, PteFacts
  <2>2. /\ Unheld(s, r, m, e)
        /\ \/ Kept(s, r, e) \/ GivenUp(s, r, e)
           \/ \E f \in Frame : GivenUpWith(s, r, e, f)
    BY <1>4, <2>1, UnholdEffect
  <2>3. Good(r, H, x)
    BY <1>4, <2>1, <2>2, UnholdGood
  <2>q. QED
    BY <2>2, <2>3 DEF Unheld
<1>q. QED
  BY <1>1, <1>2, <1>3, <1>4, PteFacts

-----------------------------------------------------------------------------
(* page_insert                                                              *)

\* page_ref_inc: the page is no longer only held.
Counted(s, r, f) ==
    /\ r \in Mem /\ r.pte = s.pte /\ r.mem_map = s.mem_map /\ r.disk = s.disk
    /\ r.free = s.free
    /\ \A g \in Frame : g # f => r.page[g] = s.page[g]
    /\ r.page[f].ref = s.page[f].ref + 1 /\ r.page[f].index = s.page[f].index
    /\ r.page[f].dirty = s.page[f].dirty /\ r.page[f].list = s.page[f].list
    /\ r.page[f].data = s.page[f].data

LEMMA CountEffect ==
    ASSUME NEW s \in Mem, NEW f \in Frame
    PROVE  Counted(s, [s EXCEPT !.page[f].ref = s.page[f].ref + 1], f)
<1> DEFINE r == [s EXCEPT !.page[f].ref = s.page[f].ref + 1]
           a == [s.page[f] EXCEPT !.ref = s.page[f].ref + 1]
<1>1. s.page[f] \in Page
  BY DEF Mem
<1>2. s.page[f].ref + 1 \in Nat
  BY <1>1 DEF Page
<1>3. /\ a \in Page /\ a.ref = s.page[f].ref + 1 /\ a.list = s.page[f].list
      /\ a.index = s.page[f].index /\ a.data = s.page[f].data /\ a.dirty = s.page[f].dirty
  <2>1. a \in Page
    BY <1>1, <1>2, PageUpdates, Zenon
  <2>q. QED
    BY <1>1, <2>1 DEF Page
<1>4. r = PutPage(s, f, a)
  BY DEF PutPage, Mem
<1> HIDE DEF a, r
<1>5. PagePut(s, r, f, a)
  BY <1>3, <1>4, SetPage
<1>6. Counted(s, r, f)
  BY <1>3, <1>5 DEF Counted, PagePut
<1>q. QED
  BY <1>6 DEF r

LEMMA CountGood ==
    ASSUME NEW s, NEW H, NEW f \in Frame, NEW r, Good(s, H, NoFrame), f \notin s.free,
           Counted(s, r, f)
    PROVE  Good(r, H \ {f}, f)
<1>1. /\ s \in Mem /\ FrameOK(s, H, NoFrame, f) /\ H \subseteq Frame
      /\ Cardinality(Maps(s.pte, f)) \in Nat /\ f # NoFrame
  BY GoodFrame
<1>2. Local(s, r, NoMm, f, NoSlot)
  BY <1>1 DEF Local, Counted
<1>3. FrameOK(r, H \ {f}, f, f)
  BY <1>1 DEF FrameOK, Counted
<1>4. LocalOK(s, r, H, H \ {f}, NoFrame, f, f, NoSlot)
  BY <1>1, <1>3 DEF LocalOK, Counted, Good
<1>q. QED
  BY <1>2, <1>4, LocalGood

\* The entry of m, which is empty or maps f, maps f from now on.
LEMMA MapGood ==
    ASSUME NEW s, NEW H, NEW x, NEW m \in Mm, NEW f \in Frame, NEW t \in Pte, NEW r,
           Good(s, H, x), EntryPut(s, r, m, t), t.kind = "present", t.page = f,
           \/ s.pte[m] = Invalid /\ x = f
           \/ s.pte[m].kind = "present" /\ s.pte[m].page = f /\ x = NoFrame
    PROVE  Good(r, H, NoFrame)
<1>1. s \in Mem /\ FrameOK(s, H, x, f) /\ H \subseteq Frame /\ f # NoFrame
  BY GoodFrame
<1>2. /\ Cardinality(Maps(s.pte, f)) \in Nat /\ Cardinality(Maps(r.pte, f)) \in Nat
      /\ Cardinality(Maps(r.pte, f)) = Cardinality(Maps(s.pte, f))
             + (IF m \in Maps(r.pte, f) THEN 1 ELSE 0) - (IF m \in Maps(s.pte, f) THEN 1 ELSE 0)
  <2>1. Elsewhere(s.pte, r.pte, m)
    BY DEF Elsewhere, EntryPut
  <2>2. MapsMove(s.pte, r.pte, m, f)
    BY <2>1, MapsMoved
  <2>q. QED
    BY <2>2 DEF MapsMove
<1>3. m \in Maps(r.pte, f) /\ (m \in Maps(s.pte, f) <=> s.pte[m] # Invalid)
  BY PteKinds DEF Maps, EntryPut
<1>4. s.page[f].ref = Cardinality(Maps(r.pte, f))
  <2>1. CASE s.pte[m] = Invalid /\ x = f
    BY <1>1, <1>2, <1>3, <2>1 DEF FrameOK
  <2>2. CASE s.pte[m].kind = "present" /\ s.pte[m].page = f /\ x = NoFrame
    BY <1>1, <1>2, <1>3, <2>2, PteKinds DEF FrameOK
  <2>q. QED
    BY <2>1, <2>2
<1>5. Local(s, r, m, f, NoSlot)
  BY <1>1, PteKinds DEF Local, Only, EntryPut
<1>6. FrameOK(r, H, NoFrame, f)
  BY <1>1, <1>2, <1>4 DEF FrameOK, EntryPut
<1>7. LocalOK(s, r, H, H, x, NoFrame, f, NoSlot)
  BY <1>1, <1>6 DEF LocalOK, EntryPut, Good
<1>q. QED
  BY <1>5, <1>7, LocalGood

\* The entry of m maps f anew; no other entry changes.
Installed(s, r, m, f, w) ==
    /\ r.pte[m].kind = "present" /\ r.pte[m].page = f
    /\ r.pte[m].W = w /\ r.pte[m].D = FALSE
    /\ \A k \in Mm : k # m => r.pte[k] = s.pte[k]

Maps1(t, f, w) == t.kind = "present" /\ t.page = f /\ t.W = w /\ t.D = FALSE

\* page_insert: the entry is written at once, or after the page has been
\* counted and what the entry held has been removed.
InsertSteps(s, r, m, f, w, H) ==
    \E t \in Pte :
        /\ Maps1(t, f, w)
        /\ \/ s.pte[m].kind = "present" /\ s.pte[m].page = f /\ EntryPut(s, r, m, t)
           \/ /\ ~(s.pte[m].kind = "present" /\ s.pte[m].page = f)
              /\ \E u, v : /\ Counted(s, u, f) /\ Good(u, H \ {f}, f)
                           /\ v = page_remove_pte(u, m) /\ EntryPut(v, r, m, t)

LEMMA InsertEffect ==
    ASSUME NEW s, NEW H, NEW m \in Mm, NEW f \in Frame, NEW w \in BOOLEAN, NEW r,
           Good(s, H, NoFrame), f \notin s.free, r = page_insert(s, m, f, w)
    PROVE  InsertSteps(s, r, m, f, w, H)
<1> DEFINE t == Present(f, w, FALSE)
           u == [s EXCEPT !.page[f].ref = s.page[f].ref + 1]
           v == page_remove_pte(u, m)
<1>1. t \in Pte /\ Maps1(t, f, w)
  <2> DEFINE d == FALSE
  <2>1. d \in BOOLEAN
    OBVIOUS
  <2> HIDE DEF d
  <2>2. /\ Present(f, w, d) \in Pte /\ Present(f, w, d).kind = "present"
        /\ Present(f, w, d).page = f /\ Present(f, w, d).W = w /\ Present(f, w, d).D = d
    BY <2>1, PteKinds
  <2>q. QED
    BY <2>2, Zenon DEF d, Maps1
<1>2. /\ s.pte[m].kind = "present" /\ s.pte[m].page = f => r = PutEntry(s, m, t)
      /\ ~(s.pte[m].kind = "present" /\ s.pte[m].page = f) => r = PutEntry(v, m, t)
  BY DEF page_insert, PutEntry
<1>3. s \in Mem
  BY DEF Good
<1> HIDE DEF t
<1>4. CASE s.pte[m].kind = "present" /\ s.pte[m].page = f
  <2> HIDE DEF u, v
  <2>1. EntryPut(s, r, m, t)
    BY <1>1, <1>2, <1>3, <1>4, SetEntry
  <2>q. QED
    BY <1>1, <1>4, <2>1 DEF InsertSteps
<1>5. CASE ~(s.pte[m].kind = "present" /\ s.pte[m].page = f)
  <2>1. Counted(s, u, f)
    BY <1>3, CountEffect
  <2> HIDE DEF u
  <2>2. Good(u, H \ {f}, f)
    BY <2>1, CountGood
  <2>3. u.pte = s.pte
    BY <2>1 DEF Counted
  <2>4. v \in Mem
    <3>1. u.pte[m].kind = "present" => u.pte[m].page # f
      BY <1>5, <2>3
    <3> DEFINE G == H \ {f}
    <3> HIDE DEF G
    <3>2. Good(u, G, f)
      BY <2>2, Zenon DEF G
    <3>q. QED
      BY <3>1, <3>2, RemoveGood DEF Good
  <2>5. PICK q : q = v
    OBVIOUS
  <2>6. q = page_remove_pte(u, m)
    BY <2>5
  <2> HIDE DEF v
  <2>7. EntryPut(q, r, m, t)
    BY <1>1, <1>2, <1>5, <2>4, <2>5, SetEntry
  <2>q. QED
    BY <1>1, <1>5, <2>1, <2>2, <2>6, <2>7, Zenon DEF InsertSteps
<1>q. QED
  BY <1>4, <1>5

LEMMA InsertStepsGood ==
    ASSUME NEW s, NEW H, NEW m \in Mm, NEW f \in Frame, NEW w \in BOOLEAN, NEW r,
           Good(s, H, NoFrame), f \notin s.free, InsertSteps(s, r, m, f, w, H)
    PROVE  Good(r, H \ {f}, NoFrame) /\ Installed(s, r, m, f, w)
<1>2. PICK t \in Pte :
        /\ Maps1(t, f, w)
        /\ \/ s.pte[m].kind = "present" /\ s.pte[m].page = f /\ EntryPut(s, r, m, t)
           \/ /\ ~(s.pte[m].kind = "present" /\ s.pte[m].page = f)
              /\ \E u, v : /\ Counted(s, u, f) /\ Good(u, H \ {f}, f)
                           /\ v = page_remove_pte(u, m) /\ EntryPut(v, r, m, t)
  BY DEF InsertSteps
<1>3. CASE s.pte[m].kind = "present" /\ s.pte[m].page = f /\ EntryPut(s, r, m, t)
  <2>1. Good(r, H, NoFrame)
    BY <1>2, <1>3, MapGood DEF Maps1
  <2>2. f \notin H
    <3>1. m \in Maps(s.pte, f)
      BY <1>3 DEF Maps
    <3>2. /\ FrameOK(s, H, NoFrame, f)
          /\ Cardinality(Maps(s.pte, f)) \in Nat /\ Cardinality(Maps(s.pte, f)) # 0
      BY <3>1, GoodFrame
    <3>q. QED
      BY <3>2 DEF FrameOK
  <2>3. H \ {f} = H
    BY <2>2
  <2>q. QED
    BY <1>2, <1>3, <2>1, <2>3 DEF EntryPut, Installed, Maps1
<1>4. ASSUME ~(s.pte[m].kind = "present" /\ s.pte[m].page = f), NEW u, NEW v,
             Counted(s, u, f), Good(u, H \ {f}, f), v = page_remove_pte(u, m), EntryPut(v, r, m, t)
      PROVE  Good(r, H \ {f}, NoFrame) /\ Installed(s, r, m, f, w)
  <2>1. PICK G : G = H \ {f}
    OBVIOUS
  <2>2. Good(u, G, f)
    BY <1>4, <2>1, Zenon
  <2>3. u.pte[m].kind = "present" => u.pte[m].page # f
    BY <1>4 DEF Counted
  <2>4. /\ Good(v, G, f)
        /\ v.pte[m] = Invalid /\ \A k \in Mm : k # m => v.pte[k] = u.pte[k]
    BY <1>4, <2>2, <2>3, RemoveGood
  <2>5. Good(r, G, NoFrame)
    BY <1>2, <1>4, <2>4, MapGood DEF Maps1
  <2>6. Installed(s, r, m, f, w)
    BY <1>2, <1>4, <2>4 DEF Counted, EntryPut, Installed, Maps1
  <2>q. QED
    BY <2>1, <2>5, <2>6, Zenon
<1>q. QED
  BY <1>2, <1>3, <1>4

LEMMA InsertGood ==
    ASSUME NEW s, NEW H, NEW m \in Mm, NEW f \in Frame, NEW w \in BOOLEAN, NEW r,
           Good(s, H, NoFrame), f \notin s.free, r = page_insert(s, m, f, w)
    PROVE  Good(r, H \ {f}, NoFrame) /\ Installed(s, r, m, f, w)
<1>1. InsertSteps(s, r, m, f, w, H)
  BY InsertEffect
<1>q. QED
  BY <1>1, InsertStepsGood

-----------------------------------------------------------------------------
(* User code and copy_range                                                 *)

\* An entry that maps a page says where, and the page is not free.
LEMMA MappedFrame ==
    ASSUME NEW s, NEW H, NEW m \in Mm, Good(s, H, NoFrame), s.pte[m].kind = "present"
    PROVE  /\ s \in Mem /\ s.pte[m] \in Pte /\ s.pte[m].page \in Frame
           /\ s.pte[m].W \in BOOLEAN /\ s.pte[m].D \in BOOLEAN
           /\ s.pte[m] = Present(s.pte[m].page, s.pte[m].W, s.pte[m].D)
           /\ s.page[s.pte[m].page].ref # 0
           /\ s.pte[m].page \notin s.free /\ s.pte[m].page \notin H
<1>1. s \in Mem /\ s.pte[m] \in Pte
  BY DEF Good, Mem
<1>2. /\ s.pte[m].page \in Frame /\ s.pte[m].W \in BOOLEAN /\ s.pte[m].D \in BOOLEAN
      /\ s.pte[m] = Present(s.pte[m].page, s.pte[m].W, s.pte[m].D)
  BY <1>1, PteFacts
<1>3. PICK f \in Frame : f = s.pte[m].page
  BY <1>2
<1>4. m \in Maps(s.pte, f)
  BY <1>3 DEF Maps
<1>5. /\ FrameOK(s, H, NoFrame, f) /\ f # NoFrame
      /\ Cardinality(Maps(s.pte, f)) \in Nat /\ Cardinality(Maps(s.pte, f)) # 0
  BY <1>4, GoodFrame
<1>6. s.page[f].ref # 0 /\ f \notin s.free /\ f \notin H
  BY <1>5 DEF FrameOK
<1>q. QED
  BY <1>1, <1>2, <1>3, <1>6

LEMMA MappedRef ==
    ASSUME NEW s, NEW H, NEW m \in Mm, NEW f \in Frame, Good(s, H, NoFrame),
           s.pte[m].kind = "present", s.pte[m].page = f
    PROVE  s.page[f].ref # 0 /\ f \notin s.free /\ f \notin H
<1>1. m \in Maps(s.pte, f)
  BY DEF Maps
<1>2. /\ FrameOK(s, H, NoFrame, f) /\ f # NoFrame
      /\ Cardinality(Maps(s.pte, f)) \in Nat /\ Cardinality(Maps(s.pte, f)) # 0
  BY <1>1, GoodFrame
<1>q. QED
  BY <1>2 DEF FrameOK

\* A page keeps the other parts when its content changes.
LEMMA DataEffect ==
    ASSUME NEW s \in Mem, NEW f \in Frame, NEW d \in 0 .. MaxData
    PROVE  \E a \in Page : /\ SameCounts(s.page[f], a) /\ a.dirty = s.page[f].dirty /\ a.data = d
                           /\ PagePut(s, [s EXCEPT !.page[f].data = d], f, a)
<1> DEFINE a == [s.page[f] EXCEPT !.data = d]
           r == [s EXCEPT !.page[f].data = d]
<1>1. s.page[f] \in Page
  BY DEF Mem
<1>2. a \in Page
  BY <1>1, PageUpdates, Zenon
<1>3. SameCounts(s.page[f], a) /\ a.dirty = s.page[f].dirty /\ a.data = d
  BY <1>1 DEF Page, SameCounts
<1>4. r = PutPage(s, f, a)
  BY DEF PutPage, Mem
<1> HIDE DEF a, r
<1>5. PagePut(s, r, f, a)
  BY <1>2, <1>4, SetPage
<1>6. \E b \in Page : /\ SameCounts(s.page[f], b) /\ b.dirty = s.page[f].dirty /\ b.data = d
                      /\ PagePut(s, r, f, b)
  BY <1>2, <1>3, <1>5
<1>q. QED
  BY <1>6 DEF r

\* The processor sets the dirty bit of an entry, and a write the content.
Touched(s, r, m, w) ==
    /\ r \in Mem /\ r.mem_map = s.mem_map /\ r.disk = s.disk /\ r.free = s.free
    /\ r.pte[m] = Present(s.pte[m].page, s.pte[m].W, s.pte[m].D \/ w)
    /\ \A k \in Mm : k # m => r.pte[k] = s.pte[k]
    /\ \A g \in Frame : /\ SameCounts(s.page[g], r.page[g]) /\ r.page[g].dirty = s.page[g].dirty
                        /\ r.page[g].data = IF w /\ g = s.pte[m].page
                                            THEN (s.page[g].data + 1) % (MaxData + 1)
                                            ELSE s.page[g].data

LEMMA AccessedGood ==
    ASSUME NEW s, NEW H, NEW m \in Mm, NEW w \in BOOLEAN, Good(s, H, NoFrame),
           s.pte[m].kind = "present"
    PROVE  Good(Accessed(s, m, w), H, NoFrame) /\ Touched(s, Accessed(s, m, w), m, w)
<1> DEFINE r == Accessed(s, m, w)
           f == s.pte[m].page
           t == Present(f, s.pte[m].W, s.pte[m].D \/ w)
           u == PutEntry(s, m, t)
           d == IF w THEN (s.page[f].data + 1) % (MaxData + 1) ELSE s.page[f].data
<1>1. /\ s \in Mem /\ s.pte[m] \in Pte /\ f \in Frame /\ s.pte[m].W \in BOOLEAN
      /\ s.pte[m].D \in BOOLEAN /\ s.pte[m] = Present(f, s.pte[m].W, s.pte[m].D)
  <2> HIDE DEF r, t, u, d
  <2>1. s \in Mem /\ s.pte[m] \in Pte
    BY DEF Good, Mem
  <2>q. QED
    BY <2>1, PteFacts
<1>2. t \in Pte /\ t.kind = "present" /\ t.page = f
  BY <1>1, PteKinds
<1>3. d \in 0 .. MaxData
  <2>1. s.page[f].data \in 0 .. MaxData
    BY <1>1, PageFacts
  <2>2. \A n \in 0 .. MaxData : (n + 1) % (MaxData + 1) \in 0 .. MaxData
    OBVIOUS
  <2>q. QED
    BY <2>1, <2>2
<1>4. t = [s.pte[m] EXCEPT !.D = s.pte[m].D \/ w]
  BY <1>1 DEF Present
<1>5. r = [u EXCEPT !.page[f].data = d]
  BY <1>1, <1>4 DEF Accessed, PutEntry, Mem
<1> HIDE DEF t, u, d, f, r
<1>6. EntryPut(s, u, m, t)
  BY <1>1, <1>2, SetEntry DEF u
<1>7. Good(u, H, NoFrame)
  BY <1>1, <1>2, <1>6, MapGood DEF f
<1>8. PICK a \in Page : /\ SameCounts(u.page[f], a) /\ a.dirty = u.page[f].dirty /\ a.data = d
                        /\ PagePut(u, r, f, a)
  BY <1>1, <1>3, <1>5, <1>6, DataEffect DEF EntryPut
<1>9. Good(r, H, NoFrame)
  BY <1>1, <1>7, <1>8, SamePageGood
<1>10. Touched(s, r, m, w)
  BY <1>1, <1>2, <1>6, <1>8 DEF Touched, EntryPut, PagePut, SameCounts, t, f, d
<1>q. QED
  BY <1>9, <1>10 DEF r

\* The entry of m, which is empty, becomes the swap entry that another holds.
LEMMA DuplicateGood ==
    ASSUME NEW s, NEW H, NEW m \in Mm, NEW e \in Slot, NEW u, NEW r, Good(s, H, NoFrame),
           s.pte[m] = Invalid, s.mem_map[e] # UNUSED, s.mem_map[e] # 0,
           MapPut(s, u, e, s.mem_map[e] + 1), EntryPut(u, r, m, SwapEntry(e))
    PROVE  Good(r, H, NoFrame)
<1>1. s \in Mem /\ EntryOK(s, e) /\ H \subseteq Frame
  BY DEF Good
<1>2. /\ Cardinality(Holds(s.pte, e)) \in Nat /\ Cardinality(Holds(r.pte, e)) \in Nat
      /\ Cardinality(Holds(r.pte, e)) = Cardinality(Holds(s.pte, e)) + 1
  <2>1. \A k \in Mm : k # m => r.pte[k] = s.pte[k]
    BY DEF MapPut, EntryPut
  <2>2. /\ Cardinality(Holds(s.pte, e)) \in Nat /\ Cardinality(Holds(r.pte, e)) \in Nat
        /\ Cardinality(Holds(r.pte, e)) = Cardinality(Holds(s.pte, e))
             + (IF m \in Holds(r.pte, e) THEN 1 ELSE 0) - (IF m \in Holds(s.pte, e) THEN 1 ELSE 0)
    <3>1. Elsewhere(s.pte, r.pte, m)
      BY <2>1 DEF Elsewhere
    <3>2. HoldsMove(s.pte, r.pte, m, e)
      BY <3>1, HoldsMoved
    <3>q. QED
      BY <3>2 DEF HoldsMove
  <2>3. m \notin Holds(s.pte, e) /\ m \in Holds(r.pte, e)
    BY PteKinds DEF Holds, EntryPut
  <2>q. QED
    BY <2>2, <2>3
<1>3. Local(s, r, m, NoFrame, e)
  BY <1>1, PteKinds DEF Local, Only, EntryPut, MapPut
<1>4. EntryOK(r, e)
  BY <1>1, <1>2 DEF EntryOK, EntryPut, MapPut, UNUSED
<1>5. LocalOK(s, r, H, H, NoFrame, NoFrame, NoFrame, e)
  BY <1>1, <1>4 DEF LocalOK
<1>q. QED
  BY <1>3, <1>5, LocalGood

\* An entry that is in a page table is counted.
LEMMA HeldEntry ==
    ASSUME NEW s, NEW H, NEW x, NEW m \in Mm, Good(s, H, x), s.pte[m].kind = "swap"
    PROVE  /\ s \in Mem /\ s.pte[m].entry \in Slot /\ s.pte[m] = SwapEntry(s.pte[m].entry)
           /\ s.mem_map[s.pte[m].entry] \in Nat /\ s.mem_map[s.pte[m].entry] # 0
<1>1. s \in Mem /\ s.pte[m] \in Pte
  BY DEF Good, Mem
<1>2. s.pte[m].entry \in Slot /\ s.pte[m] = SwapEntry(s.pte[m].entry)
  BY <1>1, PteFacts
<1>3. PICK e \in Slot : e = s.pte[m].entry
  BY <1>2
<1>4. m \in Holds(s.pte, e)
  BY <1>3 DEF Holds
<1>5. Cardinality(Holds(s.pte, e)) \in Nat /\ Cardinality(Holds(s.pte, e)) # 0
  BY <1>4, HoldsChange
<1>6. EntryOK(s, e)
  BY DEF Good
<1>7. s.mem_map[e] \in Nat /\ s.mem_map[e] # 0
  BY <1>4, <1>5, <1>6 DEF EntryOK
<1>q. QED
  BY <1>1, <1>2, <1>3, <1>7

\* The parent keeps what it has but the right to write; the child gets the same.
Forked(s, r, m, n) ==
    /\ r.pte[m].kind = s.pte[m].kind
    /\ (n # m /\ s.pte[n] = Invalid) => r.pte[n].kind = s.pte[m].kind
    /\ \A k \in Mm : k # m /\ k # n => r.pte[k] = s.pte[k]

\* copy_range: the entry is duplicated, or loses the right to write and the
\* page is mapped a second time.
CopySteps(s, r, m, n, H) ==
    \/ s.pte[m].kind = "invalid" /\ r = s
    \/ \E e \in Slot : \E u : /\ s.pte[m].kind = "swap" /\ s.pte[m].entry = e
                              /\ MapPut(s, u, e, s.mem_map[e] + 1)
                              /\ EntryPut(u, r, n, SwapEntry(e))
    \/ \E f \in Frame, t \in Pte, w \in BOOLEAN : \E u :
          /\ s.pte[m].kind = "present" /\ s.pte[m].page = f
          /\ t.kind = "present" /\ t.page = f /\ t.W = FALSE /\ t.D = s.pte[m].D /\ w = FALSE
          /\ EntryPut(s, u, m, t) /\ Good(u, H, NoFrame) /\ InsertSteps(u, r, n, f, w, H)

LEMMA ForkGood ==
    ASSUME NEW s, NEW H, NEW m \in Mm, NEW n \in Mm, NEW r, Good(s, H, NoFrame),
           m # n, s.pte[n] = Invalid, r = copy_range(s, m, n)
    PROVE  Good(r, H, NoFrame) /\ Forked(s, r, m, n) /\ CopySteps(s, r, m, n, H)
<1>1. s \in Mem /\ s.pte[m] \in Pte
  BY DEF Good, Mem
<1>2. CASE s.pte[m].kind = "invalid"
  <2>1. r = s /\ s.pte[m] = Invalid
    BY <1>1, <1>2, PteFacts DEF copy_range
  <2>q. QED
    BY <1>2, <2>1 DEF Forked, CopySteps
<1>3. CASE s.pte[m].kind = "swap"
  <2>1. PICK e \in Slot : /\ e = s.pte[m].entry /\ s.pte[m] = SwapEntry(e)
                          /\ s.mem_map[e] \in Nat /\ s.mem_map[e] # 0
    BY <1>3, HeldEntry
  <2> DEFINE u == PutMap(s, e, s.mem_map[e] + 1)
  <2>2. r = PutEntry(u, n, SwapEntry(e))
    BY <1>3, <2>1 DEF copy_range, swap_duplicate, PutMap, PutEntry
  <2>3. MapPut(s, u, e, s.mem_map[e] + 1)
    BY <1>1, <2>1, SetMap
  <2> HIDE DEF u
  <2>4. EntryPut(u, r, n, SwapEntry(e))
    BY <2>2, <2>3, SetEntry, PteKinds DEF MapPut
  <2>5. Good(r, H, NoFrame)
    BY <2>1, <2>3, <2>4, DuplicateGood DEF UNUSED
  <2>6. CopySteps(s, r, m, n, H)
    BY <1>3, <2>1, <2>3, <2>4, Zenon DEF CopySteps
  <2>q. QED
    BY <2>1, <2>3, <2>4, <2>5, <2>6 DEF MapPut, EntryPut, Forked
<1>4. CASE s.pte[m].kind = "present"
  <2>1. PICK f \in Frame, w \in BOOLEAN, d \in BOOLEAN :
            s.pte[m].page = f /\ s.pte[m].D = d /\ s.pte[m] = Present(f, w, d)
    BY <1>1, <1>4, PteFacts
  <2>2. f \notin s.free /\ f \notin H
    BY <1>4, <2>1, MappedFrame
  <2> DEFINE t == Present(f, FALSE, d)
             u == PutEntry(s, m, t)
  <2>3. t \in Pte /\ t.kind = "present" /\ t.page = f /\ t.W = FALSE /\ t.D = d
    <3> DEFINE v == FALSE
    <3>1. v \in BOOLEAN
      OBVIOUS
    <3> HIDE DEF v
    <3>2. /\ Present(f, v, d) \in Pte /\ Present(f, v, d).kind = "present"
          /\ Present(f, v, d).page = f /\ Present(f, v, d).W = v /\ Present(f, v, d).D = d
      BY <3>1, PteKinds
    <3>q. QED
      BY <3>2, Zenon DEF v
  <2>4. t = [s.pte[m] EXCEPT !.W = FALSE]
    <3> DEFINE v == FALSE
    <3>1. v \in BOOLEAN
      OBVIOUS
    <3> HIDE DEF v
    <3>2. Present(f, v, d) = [Present(f, w, d) EXCEPT !.W = v]
      BY <3>1 DEF Present
    <3>q. QED
      BY <2>1, <3>2, Zenon DEF v
  <2>5. r = page_insert(u, n, f, FALSE)
    <3>1. u = [s EXCEPT !.pte[m].W = FALSE]
      BY <1>1, <2>4 DEF PutEntry, Mem
    <3> HIDE DEF u
    <3>q. QED
      BY <1>4, <2>1, <3>1 DEF copy_range
  <2> HIDE DEF t, u
  <2>6. EntryPut(s, u, m, t)
    BY <1>1, <2>3, SetEntry DEF u
  <2>7. Good(u, H, NoFrame)
    BY <1>4, <2>1, <2>3, <2>6, MapGood
  <2>8. f \notin u.free
    BY <2>2, <2>6 DEF EntryPut
  <2>w. PICK v \in BOOLEAN : v = FALSE
    OBVIOUS
  <2>i. PICK q : q = page_insert(u, n, f, v)
    OBVIOUS
  <2>e. q = r
    BY <2>5, <2>w, <2>i, Zenon
  <2>9. Good(r, H \ {f}, NoFrame) /\ Installed(u, r, n, f, v) /\ InsertSteps(u, r, n, f, v, H)
    <3>1. InsertSteps(u, q, n, f, v, H)
      BY <2>7, <2>8, <2>i, InsertEffect
    <3>2. Good(q, H \ {f}, NoFrame) /\ Installed(u, q, n, f, v)
      BY <2>7, <2>8, <3>1, InsertStepsGood
    <3>q. QED
      BY <2>e, <3>1, <3>2, Zenon
  <2>10. H \ {f} = H
    BY <2>2
  <2>11. Good(r, H, NoFrame)
    BY <2>9, <2>10, Zenon
  <2>12. CopySteps(s, r, m, n, H)
    BY <1>4, <2>1, <2>3, <2>6, <2>7, <2>w, <2>9, Zenon DEF CopySteps
  <2>q. QED
    BY <1>4, <2>3, <2>6, <2>9, <2>11, <2>12 DEF EntryPut, Forked, Installed
<1>q. QED
  BY <1>1, <1>2, <1>3, <1>4, PteFacts

-----------------------------------------------------------------------------
(* The swap entry of a page                                                 *)

\* swap_page_add and swap_active_list_add
Listed(s, r, f, e) ==
    /\ r \in Mem /\ r.pte = s.pte /\ r.mem_map = s.mem_map /\ r.disk = s.disk
    /\ r.free = s.free
    /\ \A g \in Frame : g # f => r.page[g] = s.page[g]
    /\ r.page[f].ref = s.page[f].ref /\ r.page[f].index = e /\ r.page[f].list = "active"
    /\ r.page[f].dirty = s.page[f].dirty /\ r.page[f].data = s.page[f].data

LEMMA ListEffect ==
    ASSUME NEW s \in Mem, NEW f \in Frame, NEW e \in Slot
    PROVE  Listed(s, swap_page_add(s, f, e), f, e)
<1> DEFINE r == swap_page_add(s, f, e)
           a == [s.page[f] EXCEPT !.index = e]
           b == [a EXCEPT !.list = "active"]
<1>1. s.page[f] \in Page /\ e \in Slot \cup {NoSlot}
  BY DEF Mem
<1>2. /\ a \in Page /\ a.ref = s.page[f].ref /\ a.index = e /\ a.data = s.page[f].data
      /\ a.dirty = s.page[f].dirty
  <2>1. a \in Page
    BY <1>1, PageUpdates, Zenon
  <2>q. QED
    BY <1>1, <2>1 DEF Page
<1>3. b \in Page /\ b.ref = s.page[f].ref /\ b.list = "active" /\ b.index = e
      /\ b.data = s.page[f].data /\ b.dirty = s.page[f].dirty
  <2> HIDE DEF a
  <2>1. b \in Page
    BY <1>2, PageUpdates, Zenon
  <2>q. QED
    BY <1>2, <2>1 DEF Page
<1>4. r = PutPage(s, f, b)
  BY DEF swap_page_add, PutPage, Mem
<1> HIDE DEF a, b, r
<1>5. PagePut(s, r, f, b)
  BY <1>3, <1>4, SetPage
<1>6. Listed(s, r, f, e)
  BY <1>3, <1>5 DEF PagePut, Listed
<1>q. QED
  BY <1>6 DEF r

\* try_alloc_swap_entry: the entry is free, whoever had it before.
Vacated(s, r, e) ==
    /\ r \in Mem /\ r.pte = s.pte /\ r.mem_map[e] = UNUSED
    /\ \A i \in Slot : i # e => r.mem_map[i] = s.mem_map[i] /\ r.disk[i] = s.disk[i]
    /\ \A g \in Frame : s.page[g].index # e => /\ r.page[g] = s.page[g]
                                               /\ (g \in r.free <=> g \in s.free)
    /\ \A g \in Frame : s.page[g].index = e =>
        /\ r.page[g].index = NoSlot /\ r.page[g].list = "none"
        /\ r.page[g].ref = s.page[g].ref
        /\ s.page[g].ref = 0 => g \in r.free
        /\ s.page[g].ref # 0 => /\ (g \in r.free <=> g \in s.free)
                                /\ r.page[g].data = s.page[g].data

LEMMA VacateEffect ==
    ASSUME NEW s, NEW H, NEW e \in Slot, NEW r, Good(s, H, NoFrame), s.mem_map[e] \in {0, UNUSED},
           r = try_alloc_swap_entry(s, e)
    PROVE  Vacated(s, r, e)
<1>1. s \in Mem /\ EntryOK(s, e)
  BY DEF Good
<1>2. CASE s.mem_map[e] = UNUSED
  <2>1. r = s
    BY <1>2 DEF try_alloc_swap_entry
  <2>2. swap_hash_find(s, e) = {}
    BY <1>1, <1>2 DEF EntryOK
  <2>q. QED
    BY <1>1, <1>2, <2>1, <2>2 DEF Vacated, swap_hash_find
<1>3. CASE s.mem_map[e] = 0
  <2>1. swap_hash_find(s, e) # {} /\ 0 # UNUSED
    BY <1>1, <1>3 DEF EntryOK, UNUSED
  <2>2. PICK f \in Frame : /\ (CHOOSE g \in swap_hash_find(s, e) : TRUE) = f
                           /\ s.page[f].index = e
                           /\ \A g \in Frame : s.page[g].index = e => g = f
    BY <2>1, HashFacts
  <2> DEFINE del == IF s.page[f].ref = 0 THEN swap_free_page(swap_list_del(s, f), f)
                    ELSE swap_page_del(swap_list_del(s, f), f)
  <2>3. r = Released(del, e)
    BY <1>3, <2>1, <2>2, Zenon DEF try_alloc_swap_entry
  <2>4. /\ s.page[f].ref = 0 => Dropped(s, del, f)
        /\ s.page[f].ref # 0 => Unlisted(s, del, f)
    BY <1>1, DropEffect, UnlistEffect
  <2> HIDE DEF del
  <2>5. del \in Mem
    BY <2>4 DEF Dropped, Unlisted
  <2>6. /\ r \in Mem /\ r.page = del.page /\ r.pte = del.pte /\ r.free = del.free
        /\ r.mem_map[e] = UNUSED
        /\ \A i \in Slot : i # e => r.mem_map[i] = del.mem_map[i] /\ r.disk[i] = del.disk[i]
    BY <2>3, <2>5, ReleaseEffect
  <2>7. CASE s.page[f].ref = 0
    BY <2>2, <2>4, <2>6, <2>7 DEF Vacated, Dropped
  <2>8. CASE s.page[f].ref # 0
    BY <2>2, <2>4, <2>6, <2>8 DEF Vacated, Unlisted
  <2>q. QED
    BY <2>7, <2>8
<1>q. QED
  BY <1>2, <1>3

LEMMA VacateGood ==
    ASSUME NEW s, NEW H, NEW e \in Slot, NEW r, Good(s, H, NoFrame), s.mem_map[e] \in {0, UNUSED},
           Vacated(s, r, e)
    PROVE  Good(r, H, NoFrame)
<1>1. s \in Mem /\ EntryOK(s, e) /\ H \subseteq Frame
  BY DEF Good
<1>2. Holds(s.pte, e) = {}
  <2>1. s.mem_map[e] = 0 => Cardinality(Holds(s.pte, e)) = 0
    BY <1>1 DEF EntryOK, UNUSED
  <2>2. Cardinality(Holds(s.pte, e)) = 0 <=> Holds(s.pte, e) = {}
    BY HoldsChange
  <2>q. QED
    BY <1>1, <2>1, <2>2 DEF EntryOK
<1>3. swap_hash_find(r, e) = {}
  BY DEF Vacated, swap_hash_find
<1>4. EntryOK(r, e)
  BY <1>2, <1>3 DEF EntryOK, Vacated, UNUSED
<1>5. CASE swap_hash_find(s, e) = {}
  <2>1. \A g \in Frame : r.page[g] = s.page[g] /\ (g \in r.free <=> g \in s.free)
    BY <1>5 DEF Vacated, swap_hash_find
  <2>2. Local(s, r, NoMm, NoFrame, e)
    BY <2>1 DEF Local, Vacated
  <2>3. LocalOK(s, r, H, H, NoFrame, NoFrame, NoFrame, e)
    BY <1>1, <1>4 DEF LocalOK
  <2>q. QED
    BY <2>2, <2>3, LocalGood
<1>6. CASE swap_hash_find(s, e) # {}
  <2>1. PICK f \in Frame : /\ s.page[f].index = e
                           /\ \A g \in Frame : s.page[g].index = e => g = f
    BY <1>6, HashFacts
  <2>2. Local(s, r, NoMm, f, e)
    BY <2>1 DEF Local, Vacated
  <2>3. FrameOK(s, H, NoFrame, f)
    BY DEF Good
  <2>4. FrameOK(r, H, NoFrame, f)
    BY <2>1, <2>3 DEF FrameOK, Vacated
  <2>5. LocalOK(s, r, H, H, NoFrame, NoFrame, f, e)
    BY <1>1, <1>4, <2>1, <2>4 DEF LocalOK, Vacated
  <2>q. QED
    BY <2>2, <2>5, LocalGood
<1>q. QED
  BY <1>5, <1>6

\* swap_page_add(page, 0), once the entry is free
NewlyListed(s, r, f, e) ==
    /\ r \in Mem /\ r.pte = s.pte /\ r.disk = s.disk /\ r.free = s.free
    /\ r.mem_map[e] = 0 /\ \A i \in Slot : i # e => r.mem_map[i] = s.mem_map[i]
    /\ \A g \in Frame : g # f => r.page[g] = s.page[g]
    /\ r.page[f].ref = s.page[f].ref /\ r.page[f].index = e /\ r.page[f].list = "active"
    /\ r.page[f].dirty = TRUE /\ r.page[f].data = s.page[f].data

LEMMA NewEntryEffect ==
    ASSUME NEW s \in Mem, NEW f \in Frame, NEW e \in Slot
    PROVE  NewlyListed(s, swap_page_add([s EXCEPT !.mem_map[e] = 0, !.page[f].dirty = TRUE], f, e),
                       f, e)
<1> DEFINE u == PutMap(s, e, 0)
           a == [s.page[f] EXCEPT !.dirty = TRUE]
           v == [s EXCEPT !.mem_map[e] = 0, !.page[f].dirty = TRUE]
           r == swap_page_add(v, f, e)
<1>1. s.page[f] \in Page /\ 0 \in Nat \cup {UNUSED} /\ TRUE \in BOOLEAN
  BY DEF Mem
<1>2. MapPut(s, u, e, 0)
  BY <1>1, SetMap
<1>3. a \in Page
  BY <1>1, PageUpdates, Zenon
<1>4. /\ a.ref = s.page[f].ref /\ a.index = s.page[f].index /\ a.list = s.page[f].list
      /\ a.data = s.page[f].data /\ a.dirty = TRUE
  BY <1>1 DEF Page
<1>5. v = PutPage(u, f, a)
  BY DEF PutPage, PutMap, Mem
<1> HIDE DEF u, a, v
<1>6. PagePut(u, v, f, a)
  BY <1>2, <1>3, <1>5, SetPage DEF MapPut
<1>7. Listed(v, r, f, e)
  BY <1>6, ListEffect DEF PagePut
<1> HIDE DEF r
<1>8. NewlyListed(s, r, f, e)
  BY <1>2, <1>4, <1>6, <1>7 DEF NewlyListed, MapPut, PagePut, Listed
<1>q. QED
  BY <1>8 DEF r, v

LEMMA NewEntryGood ==
    ASSUME NEW s, NEW H, NEW f \in Frame, NEW e \in Slot, NEW r, Good(s, H, NoFrame),
           s.page[f].ref # 0, s.page[f].index = NoSlot, s.mem_map[e] = UNUSED,
           NewlyListed(s, r, f, e)
    PROVE  Good(r, H, NoFrame)
<1>1. s \in Mem /\ FrameOK(s, H, NoFrame, f) /\ H \subseteq Frame /\ EntryOK(s, e)
  BY GoodFrame DEF Good
<1>2. Local(s, r, NoMm, f, e)
  BY <1>1 DEF Local, NewlyListed
<1>3. FrameOK(r, H, NoFrame, f)
  BY <1>1 DEF FrameOK, NewlyListed
<1>4. f \in swap_hash_find(r, e) /\ swap_hash_find(s, e) = {} /\ Holds(r.pte, e) = {}
  BY <1>1 DEF NewlyListed, swap_hash_find, EntryOK
<1>5. EntryOK(r, e)
  <2>1. Cardinality(Holds(r.pte, e)) = 0
    BY <1>4, HoldsChange
  <2>q. QED
    BY <1>4, <2>1 DEF EntryOK, NewlyListed, UNUSED
<1>6. LocalOK(s, r, H, H, NoFrame, NoFrame, f, e)
  BY <1>1, <1>3, <1>4, <1>5 DEF LocalOK, NewlyListed, swap_hash_find
<1>q. QED
  BY <1>2, <1>6, LocalGood

\* try_to_swap_out: an entry that maps a page with a swap entry turns into it.
Swapped(s, r, m, f, e) ==
    /\ r \in Mem /\ r.disk = s.disk /\ r.free = s.free
    /\ r.pte[m] = SwapEntry(e) /\ \A k \in Mm : k # m => r.pte[k] = s.pte[k]
    /\ \A g \in Frame : g # f => r.page[g] = s.page[g]
    /\ r.page[f].ref = s.page[f].ref - 1 /\ r.page[f].index = s.page[f].index
    /\ r.page[f].list = s.page[f].list /\ r.page[f].dirty = s.page[f].dirty
    /\ r.page[f].data = s.page[f].data
    /\ r.mem_map[e] = s.mem_map[e] + 1
    /\ \A i \in Slot : i # e => r.mem_map[i] = s.mem_map[i]

LEMMA SwapOutEffect ==
    ASSUME NEW s \in Mem, NEW m \in Mm, NEW f \in Frame, NEW e \in Slot,
           s.pte[m].page = f, s.page[f].index = e, s.page[f].ref # 0, s.mem_map[e] # UNUSED
    PROVE  Swapped(s, SwappedOut(s, m), m, f, e)
<1> DEFINE r == SwappedOut(s, m)
           n == s.mem_map[e] + 1
           u == PutMap(s, e, n)
           a == [s.page[f] EXCEPT !.ref = s.page[f].ref - 1]
           v == PutPage(u, f, a)
<1>1. s.page[f] \in Page /\ n \in Nat \cup {UNUSED}
  BY DEF Mem
<1>2. s.page[f].ref - 1 \in Nat
  BY <1>1 DEF Page
<1>3. a \in Page
  BY <1>1, <1>2, PageUpdates, Zenon
<1>4. /\ a.ref = s.page[f].ref - 1 /\ a.index = s.page[f].index /\ a.list = s.page[f].list
      /\ a.dirty = s.page[f].dirty /\ a.data = s.page[f].data
  BY <1>1 DEF Page
<1>5. r = PutEntry(v, m, SwapEntry(e))
  BY DEF SwappedOut, swap_duplicate, PutMap, PutPage, PutEntry, Mem
<1>6. MapPut(s, u, e, n)
  BY <1>1, SetMap
<1> HIDE DEF r, n, u, a, v
<1>7. PagePut(u, v, f, a)
  BY <1>3, <1>6, SetPage DEF MapPut, v
<1>8. EntryPut(v, r, m, SwapEntry(e))
  BY <1>5, <1>7, SetEntry, PteKinds DEF PagePut
<1>9. Swapped(s, r, m, f, e)
  BY <1>4, <1>6, <1>7, <1>8 DEF MapPut, PagePut, EntryPut, Swapped, n
<1>q. QED
  BY <1>9 DEF r

LEMMA SwapOutGood ==
    ASSUME NEW s, NEW H, NEW m \in Mm, NEW f \in Frame, NEW e \in Slot, NEW r,
           Good(s, H, NoFrame), s.pte[m].kind = "present", s.pte[m].page = f,
           s.page[f].index = e, Swapped(s, r, m, f, e)
    PROVE  Good(r, H, NoFrame)
<1>1. s \in Mem /\ FrameOK(s, H, NoFrame, f) /\ H \subseteq Frame /\ EntryOK(s, e) /\ f # NoFrame
  BY GoodFrame DEF Good
<1>2. s.mem_map[e] # UNUSED
  BY <1>1 DEF EntryOK, swap_hash_find
<1>3. \A k \in Mm : k # m => r.pte[k] = s.pte[k]
  BY DEF Swapped
<1>4. m \in Maps(s.pte, f) /\ m \notin Maps(r.pte, f)
  BY PteKinds DEF Maps, Swapped
<1>5. m \notin Holds(s.pte, e) /\ m \in Holds(r.pte, e)
  BY PteKinds DEF Holds, Swapped
<1>6. /\ Cardinality(Maps(s.pte, f)) \in Nat /\ Cardinality(Maps(r.pte, f)) \in Nat
      /\ Cardinality(Maps(r.pte, f)) = Cardinality(Maps(s.pte, f)) - 1
  <2>1. /\ Cardinality(Maps(s.pte, f)) \in Nat /\ Cardinality(Maps(r.pte, f)) \in Nat
        /\ Cardinality(Maps(r.pte, f)) = Cardinality(Maps(s.pte, f))
             + (IF m \in Maps(r.pte, f) THEN 1 ELSE 0) - (IF m \in Maps(s.pte, f) THEN 1 ELSE 0)
    <3>1. Elsewhere(s.pte, r.pte, m)
      BY <1>3 DEF Elsewhere
    <3>2. MapsMove(s.pte, r.pte, m, f)
      BY <3>1, MapsMoved
    <3>q. QED
      BY <3>2 DEF MapsMove
  <2>q. QED
    BY <1>4, <2>1
<1>7. /\ Cardinality(Holds(s.pte, e)) \in Nat /\ Cardinality(Holds(r.pte, e)) \in Nat
      /\ Cardinality(Holds(r.pte, e)) = Cardinality(Holds(s.pte, e)) + 1
  <2>1. /\ Cardinality(Holds(s.pte, e)) \in Nat /\ Cardinality(Holds(r.pte, e)) \in Nat
        /\ Cardinality(Holds(r.pte, e)) = Cardinality(Holds(s.pte, e))
             + (IF m \in Holds(r.pte, e) THEN 1 ELSE 0) - (IF m \in Holds(s.pte, e) THEN 1 ELSE 0)
    <3>1. Elsewhere(s.pte, r.pte, m)
      BY <1>3 DEF Elsewhere
    <3>2. HoldsMove(s.pte, r.pte, m, e)
      BY <3>1, HoldsMoved
    <3>q. QED
      BY <3>2 DEF HoldsMove
  <2>q. QED
    BY <1>5, <2>1
<1>8. Local(s, r, m, f, e)
  BY <1>1, PteKinds DEF Local, Only, Swapped
<1>9. FrameOK(r, H, NoFrame, f)
  BY <1>1, <1>6 DEF FrameOK, Swapped
<1>10. EntryOK(r, e)
  <2>1. f \in swap_hash_find(r, e)
    BY DEF swap_hash_find, Swapped
  <2>q. QED
    BY <1>1, <1>2, <1>7, <2>1 DEF EntryOK, Swapped, UNUSED
<1>11. LocalOK(s, r, H, H, NoFrame, NoFrame, f, e)
  BY <1>1, <1>9, <1>10 DEF LocalOK, Swapped, Good
<1>q. QED
  BY <1>8, <1>11, LocalGood

\* The page becomes dirty if the entry is.
DirtyPage(s, f, d) == [s EXCEPT !.page[f].dirty = @ \/ d]

LEMMA DirtyEffect ==
    ASSUME NEW s \in Mem, NEW f \in Frame, NEW d \in BOOLEAN
    PROVE  \E a \in Page : /\ SameCounts(s.page[f], a) /\ a.data = s.page[f].data
                           /\ a.dirty = (s.page[f].dirty \/ d)
                           /\ PagePut(s, DirtyPage(s, f, d), f, a)
<1> DEFINE a == [s.page[f] EXCEPT !.dirty = s.page[f].dirty \/ d]
           r == DirtyPage(s, f, d)
<1>1. s.page[f] \in Page
  BY DEF Mem
<1>2. (s.page[f].dirty \/ d) \in BOOLEAN
  OBVIOUS
<1>3. a \in Page
  BY <1>1, <1>2, PageUpdates, Zenon
<1>4. SameCounts(s.page[f], a) /\ a.dirty = (s.page[f].dirty \/ d) /\ a.data = s.page[f].data
  BY <1>1 DEF Page, SameCounts
<1>5. r = PutPage(s, f, a)
  BY DEF PutPage, DirtyPage, Mem
<1> HIDE DEF a, r
<1>6. PagePut(s, r, f, a)
  BY <1>3, <1>5, SetPage
<1>7. \E b \in Page : /\ SameCounts(s.page[f], b) /\ b.data = s.page[f].data
                      /\ b.dirty = (s.page[f].dirty \/ d)
                      /\ PagePut(s, r, f, b)
  BY <1>3, <1>4, <1>6
<1>q. QED
  BY <1>7 DEF r

\* swap_out_vma, for a page without a swap entry and for one that has it
SwapOutNew(s, r, m, f, e) ==
    \E u, v : Vacated(s, u, e) /\ NewlyListed(u, v, f, e) /\ Swapped(v, r, m, f, e)

SwapOutOld(s, r, m, f) ==
    \E e \in Slot, a \in Page : \E v :
        /\ e = s.page[f].index /\ PagePut(s, v, f, a)
        /\ SameCounts(s.page[f], a) /\ a.data = s.page[f].data
        /\ a.dirty = (s.page[f].dirty \/ s.pte[m].D)
        /\ Swapped(v, r, m, f, e)

LEMMA NewSwapOutGood ==
    ASSUME NEW s, NEW H, NEW m \in Mm, NEW f \in Frame, NEW e \in SwapEntries(s), NEW r,
           Good(s, H, NoFrame), s.pte[m].kind = "present", f = s.pte[m].page, ~PageSwap(s, f),
           r = SwappedOut(swap_page_add_new(s, f, e), m)
    PROVE  Good(r, H, NoFrame) /\ SwapOutNew(s, r, m, f, e)
<1>1. s.page[f].ref # 0
  <2>1. s.pte[m].page = f
    OBVIOUS
  <2>q. QED
    BY <2>1, MappedRef
<1>2. e \in Slot /\ s.mem_map[e] \in {0, UNUSED}
  BY DEF SwapEntries, Unused, Unneeded
<1> DEFINE u == try_alloc_swap_entry(s, e)
           v == swap_page_add([u EXCEPT !.mem_map[e] = 0, !.page[f].dirty = TRUE], f, e)
<1>3. v = swap_page_add_new(s, f, e)
  BY Zenon DEF swap_page_add_new
<1> HIDE DEF u
<1>4. Vacated(s, u, e)
  BY <1>2, VacateEffect DEF u
<1>5. Good(u, H, NoFrame)
  BY <1>2, <1>4, VacateGood
<1>6. /\ u \in Mem /\ u.page[f].ref # 0 /\ u.page[f].index = NoSlot /\ u.mem_map[e] = UNUSED
      /\ u.pte = s.pte
  BY <1>1, <1>2, <1>4 DEF Vacated, PageSwap
<1>7. NewlyListed(u, v, f, e)
  BY <1>2, <1>6, NewEntryEffect
<1> HIDE DEF v
<1>8. Good(v, H, NoFrame)
  BY <1>2, <1>5, <1>6, <1>7, NewEntryGood
<1>9. /\ v \in Mem /\ v.pte[m].kind = "present" /\ v.pte[m].page = f /\ v.page[f].index = e
      /\ v.page[f].ref # 0 /\ v.mem_map[e] # UNUSED
  BY <1>1, <1>6, <1>7 DEF NewlyListed, UNUSED
<1>10. Swapped(v, r, m, f, e)
  <2>1. r = SwappedOut(v, m)
    BY <1>3
  <2>q. QED
    BY <1>2, <1>9, <2>1, SwapOutEffect
<1>11. Good(r, H, NoFrame)
  BY <1>2, <1>8, <1>9, <1>10, SwapOutGood
<1>q. QED
  BY <1>4, <1>7, <1>10, <1>11, Zenon DEF SwapOutNew

LEMMA OldSwapOutGood ==
    ASSUME NEW s, NEW H, NEW m \in Mm, NEW f \in Frame, NEW r, Good(s, H, NoFrame),
           s.pte[m].kind = "present", f = s.pte[m].page, PageSwap(s, f),
           r = SwappedOut(DirtyPage(s, f, s.pte[m].D), m)
    PROVE  Good(r, H, NoFrame) /\ SwapOutOld(s, r, m, f)
<1>1. s \in Mem /\ s.page[f].ref # 0
  <2>1. s \in Mem /\ s.pte[m].page = f
    BY DEF Good
  <2>q. QED
    BY <2>1, MappedRef
<1>2. PICK d \in BOOLEAN : d = s.pte[m].D
  <2>1. s.pte[m] \in Pte
    BY <1>1 DEF Mem
  <2>q. QED
    BY <2>1, PteFacts
<1>3. PICK e \in Slot : e = s.page[f].index
  BY <1>1, PageFacts DEF PageSwap
<1> DEFINE v == DirtyPage(s, f, d)
<1>4. PICK a \in Page : /\ SameCounts(s.page[f], a) /\ a.data = s.page[f].data
                        /\ a.dirty = (s.page[f].dirty \/ d)
                        /\ PagePut(s, v, f, a)
  BY <1>1, DirtyEffect
<1>5. r = SwappedOut(v, m)
  BY <1>2, Zenon
<1> HIDE DEF v
<1>6. Good(v, H, NoFrame)
  BY <1>4, SamePageGood
<1>7. /\ v \in Mem /\ v.pte[m].kind = "present" /\ v.pte[m].page = f /\ v.page[f].index = e
      /\ v.page[f].ref # 0
  BY <1>1, <1>3, <1>4 DEF PagePut, SameCounts
<1>8. v.mem_map[e] # UNUSED
  BY <1>6, <1>7 DEF Good, EntryOK, swap_hash_find
<1>9. Swapped(v, r, m, f, e)
  BY <1>5, <1>7, <1>8, SwapOutEffect
<1>10. Good(r, H, NoFrame)
  BY <1>6, <1>7, <1>9, SwapOutGood
<1>11. a.dirty = (s.page[f].dirty \/ s.pte[m].D)
  BY <1>2, <1>4
<1>q. QED
  BY <1>3, <1>4, <1>9, <1>10, <1>11, Zenon DEF SwapOutOld

-----------------------------------------------------------------------------
(* kswapd_main                                                              *)

\* A round of kswapd gives the frames D back.
Scanned(s, r, D) ==
    /\ r \in Mem /\ r.pte = s.pte /\ D \subseteq Frame /\ r.free = s.free \cup D
    /\ \A f \in D : /\ s.page[f].ref = 0 /\ s.page[f].list # "none"
                    /\ r.page[f] = FreshPage
    /\ \A f \in Frame \ D :
        /\ r.page[f].ref = s.page[f].ref /\ r.page[f].index = s.page[f].index
        /\ r.page[f].dirty = s.page[f].dirty /\ r.page[f].data = s.page[f].data
        /\ r.page[f].list = "none" <=> s.page[f].list = "none"
    /\ \A e \in Slot : IF \E f \in D : s.page[f].index = e
                       THEN r.mem_map[e] = IF s.mem_map[e] = 0 THEN UNUSED ELSE s.mem_map[e]
                       ELSE r.mem_map[e] = s.mem_map[e] /\ r.disk[e] = s.disk[e]
    /\ \A f \in D : s.mem_map[s.page[f].index] # 0 =>
        r.disk[s.page[f].index] = IF s.page[f].dirty THEN s.page[f].data
                                                     ELSE s.disk[s.page[f].index]

LEMMA FreshFacts ==
    /\ FreshPage \in Page /\ FreshPage.ref = 0 /\ FreshPage.index = NoSlot
    /\ FreshPage.list = "none"
BY DEF FreshPage, Page

LEMMA ScanGood ==
    ASSUME NEW s, NEW H, NEW r, NEW D, Good(s, H, NoFrame), Scanned(s, r, D)
    PROVE  Good(r, H, NoFrame)
<1>1. s \in Mem /\ H \subseteq Frame /\ D \subseteq Frame
  BY DEF Good, Scanned
<1>2. ASSUME NEW f \in Frame PROVE FrameOK(r, H, NoFrame, f)
  <2>1. FrameOK(s, H, NoFrame, f) /\ r.pte = s.pte /\ f # NoFrame
    BY DEF Good, Scanned
  <2>2. CASE f \in D
    BY <2>1, <2>2, FreshFacts DEF FrameOK, Scanned
  <2>3. CASE f \notin D
    BY <2>1, <2>3 DEF FrameOK, Scanned
  <2>q. QED
    BY <2>2, <2>3
<1>3. \A f \in Frame : r.page[f].index = IF f \in D THEN NoSlot ELSE s.page[f].index
  BY FreshFacts DEF Scanned
<1>4. \A f, g \in Frame :
        r.page[f].index # NoSlot /\ r.page[f].index = r.page[g].index => f = g
  BY <1>3 DEF Good
<1>5. ASSUME NEW e \in Slot PROVE EntryOK(r, e)
  <2>1. EntryOK(s, e) /\ r.pte = s.pte
    BY DEF Good, Scanned
  <2>2. CASE \E f \in D : s.page[f].index = e
    <3>1. PICK f \in D : s.page[f].index = e
      BY <2>2
    <3>2. swap_hash_find(s, e) # {}
      BY <1>1, <3>1 DEF swap_hash_find
    <3>3. swap_hash_find(r, e) = {}
      BY <1>1, <1>3, <3>1 DEF swap_hash_find, Good
    <3>4. r.mem_map[e] = IF s.mem_map[e] = 0 THEN UNUSED ELSE s.mem_map[e]
      BY <2>2 DEF Scanned
    <3>5. Cardinality(Holds(s.pte, e)) = 0 <=> Holds(s.pte, e) = {}
      BY HoldsChange
    <3>q. QED
      BY <2>1, <3>2, <3>3, <3>4, <3>5 DEF EntryOK, UNUSED
  <2>3. CASE ~ \E f \in D : s.page[f].index = e
    <3>1. r.mem_map[e] = s.mem_map[e]
      BY <2>3 DEF Scanned
    <3>2. swap_hash_find(r, e) = swap_hash_find(s, e)
      BY <1>1, <1>3, <2>3 DEF swap_hash_find
    <3>q. QED
      BY <2>1, <3>1, <3>2 DEF EntryOK
  <2>q. QED
    BY <2>2, <2>3
<1>q. QED
  BY <1>1, <1>2, <1>4, <1>5 DEF Good, Scanned

\* A page moves to another list.
Relist(a, l) == [a EXCEPT !.list = l]

LEMMA RelistFacts ==
    ASSUME NEW a \in Page, NEW l \in {"none", "active", "inactive"}
    PROVE  /\ Relist(a, l) \in Page /\ Relist(a, l).ref = a.ref /\ Relist(a, l).index = a.index
           /\ Relist(a, l).dirty = a.dirty /\ Relist(a, l).data = a.data /\ Relist(a, l).list = l
<1>1. Relist(a, l) \in Page
  BY PageUpdates, Zenon DEF Relist
<1>q. QED
  BY <1>1 DEF Page, Relist

\* Pages only change lists; none joins or leaves.
Moved(s, r) ==
    /\ r \in Mem /\ r.pte = s.pte /\ r.free = s.free /\ r.mem_map = s.mem_map /\ r.disk = s.disk
    /\ \A f \in Frame :
        /\ r.page[f].ref = s.page[f].ref /\ r.page[f].index = s.page[f].index
        /\ r.page[f].dirty = s.page[f].dirty /\ r.page[f].data = s.page[f].data
        /\ r.page[f].list = "none" <=> s.page[f].list = "none"
        /\ s.page[f].list = "none" => r.page[f] = s.page[f]

LEMMA RefillEffect ==
    ASSUME NEW s \in Mem
    PROVE  Moved(s, refill_inactive_scan(s))
<1> DEFINE P == [f \in Frame |-> IF s.page[f].list = "active" /\ s.page[f].ref = 0
                                 THEN Relist(s.page[f], "inactive") ELSE s.page[f]]
           r == refill_inactive_scan(s)
<1>1. r = [s EXCEPT !.page = P]
  BY DEF refill_inactive_scan, Relist
<1>2. \A f \in Frame :
        /\ s.page[f] \in Page /\ P[f] \in Page
        /\ P[f].ref = s.page[f].ref /\ P[f].index = s.page[f].index
        /\ P[f].dirty = s.page[f].dirty /\ P[f].data = s.page[f].data
        /\ P[f].list = "none" <=> s.page[f].list = "none"
        /\ s.page[f].list = "none" => P[f] = s.page[f]
  <2> TAKE f \in Frame
  <2>1. s.page[f] \in Page
    BY DEF Mem
  <2>2. P[f] = IF s.page[f].list = "active" /\ s.page[f].ref = 0
               THEN Relist(s.page[f], "inactive") ELSE s.page[f]
    OBVIOUS
  <2> HIDE DEF P
  <2>q. QED
    BY <2>1, <2>2, RelistFacts
<1>3. P \in [Frame -> Page]
  BY <1>2
<1> HIDE DEF P, r
<1>4. /\ r \in Mem /\ r.pte = s.pte /\ r.free = s.free /\ r.mem_map = s.mem_map
      /\ r.disk = s.disk /\ r.page = P
  BY <1>1, <1>3 DEF Mem
<1>5. Moved(s, r)
  BY <1>2, <1>4 DEF Moved
<1>q. QED
  BY <1>5 DEF r

LEMMA LaunderEffect ==
    ASSUME NEW s, NEW H, NEW fails, Good(s, H, NoFrame)
    PROVE  \E D : Scanned(s, page_launder(s, fails), D)
<1> DEFINE idle  == {f \in Inactive(s) : s.page[f].ref = 0}
           dirty == {f \in idle : s.page[f].dirty /\ s.mem_map[s.page[f].index] # 0}
           D     == idle \ (dirty \cap fails)
           In(e) == swap_hash_find(s, e) \cap D # {}
           P     == [f \in Frame |->
                        IF f \in D THEN FreshPage
                        ELSE IF f \in Inactive(s) \ idle THEN Relist(s.page[f], "active")
                        ELSE s.page[f]]
           N     == [e \in Slot |-> IF s.mem_map[e] = 0 /\ In(e) THEN UNUSED ELSE s.mem_map[e]]
           K     == [e \in Slot |->
                        IF ~In(e) THEN s.disk[e]
                        ELSE LET f == CHOOSE f \in swap_hash_find(s, e) : TRUE
                             IN  IF s.mem_map[e] = 0 THEN 0
                                 ELSE IF f \in dirty THEN s.page[f].data ELSE s.disk[e]]
           F     == s.free \cup D
           r     == page_launder(s, fails)
<1>1. s \in Mem /\ D \subseteq Frame
  BY DEF Good, Inactive
<1>2. r = [s EXCEPT !.free = F, !.page = P, !.mem_map = N, !.disk = K]
  BY Zenon DEF page_launder, Relist
<1>3. \A f \in D : /\ f \in Frame /\ s.page[f].ref = 0 /\ s.page[f].list # "none"
                   /\ s.page[f].index \in Slot
                   /\ (f \in dirty <=> s.page[f].dirty /\ s.mem_map[s.page[f].index] # 0)
  <2> TAKE f \in D
  <2>1. f \in Frame /\ s.page[f].ref = 0 /\ s.page[f].list = "inactive"
    BY DEF Inactive
  <2>2. FrameOK(s, H, NoFrame, f)
    BY <2>1 DEF Good
  <2>3. s.page[f].index \in Slot
    BY <1>1, <2>1, <2>2, PageFacts DEF FrameOK
  <2>q. QED
    BY <2>1, <2>3
<1>4. \A e \in Slot : In(e) <=> \E f \in D : s.page[f].index = e
  BY <1>1 DEF swap_hash_find
<1>5. \A f \in Frame :
        /\ s.page[f] \in Page /\ P[f] \in Page
        /\ f \in D => P[f] = FreshPage
        /\ f \notin D => /\ P[f].ref = s.page[f].ref /\ P[f].index = s.page[f].index
                         /\ P[f].dirty = s.page[f].dirty /\ P[f].data = s.page[f].data
                         /\ P[f].list = "none" <=> s.page[f].list = "none"
  <2> TAKE f \in Frame
  <2>1. s.page[f] \in Page
    BY <1>1 DEF Mem
  <2>2. \/ f \in D /\ P[f] = FreshPage
        \/ f \notin D /\ P[f] = s.page[f]
        \/ f \notin D /\ P[f] = Relist(s.page[f], "active") /\ s.page[f].list = "inactive"
    BY DEF Inactive
  <2> HIDE DEF P, D
  <2>q. QED
    BY <2>1, <2>2, RelistFacts, FreshFacts
<1>6. \A e \in Slot :
        /\ N[e] \in Nat \cup {UNUSED}
        /\ In(e) => N[e] = IF s.mem_map[e] = 0 THEN UNUSED ELSE s.mem_map[e]
        /\ ~In(e) => N[e] = s.mem_map[e]
  <2> HIDE DEF In
  <2>q. QED
    BY <1>1 DEF Mem
<1>7. \A e \in Slot :
        /\ K[e] \in 0 .. MaxData
        /\ ~In(e) => K[e] = s.disk[e]
        /\ \A f \in D : s.page[f].index = e /\ s.mem_map[e] # 0 =>
             K[e] = IF f \in dirty THEN s.page[f].data ELSE s.disk[e]
  <2> TAKE e \in Slot
  <2>1. s.disk[e] \in 0 .. MaxData /\ 0 \in 0 .. MaxData
    BY <1>1 DEF Mem
  <2>2. CASE ~In(e)
    <3>1. K[e] = s.disk[e]
      BY <2>2
    <3>2. \A f \in D : s.page[f].index # e
      BY <1>4, <2>2
    <3> HIDE DEF K, In, dirty, D
    <3>q. QED
      BY <2>1, <2>2, <3>1, <3>2
  <2>3. CASE In(e)
    <3>1. PICK f \in Frame : /\ (CHOOSE g \in swap_hash_find(s, e) : TRUE) = f
                             /\ s.page[f].index = e
                             /\ \A g \in Frame : s.page[g].index = e => g = f
      <4>1. swap_hash_find(s, e) # {}
        BY <2>3
      <4>q. QED
        BY <4>1, HashFacts
    <3>2. K[e] = IF s.mem_map[e] = 0 THEN 0 ELSE IF f \in dirty THEN s.page[f].data ELSE s.disk[e]
      <4>1. K[e] = IF ~In(e) THEN s.disk[e]
                   ELSE LET g == CHOOSE g \in swap_hash_find(s, e) : TRUE
                        IN  IF s.mem_map[e] = 0 THEN 0
                            ELSE IF g \in dirty THEN s.page[g].data ELSE s.disk[e]
        BY Zenon
      <4> HIDE DEF K, In, dirty
      <4>q. QED
        BY <2>3, <3>1, <4>1, Zenon
    <3>3. s.page[f].data \in 0 .. MaxData
      BY <1>1, PageFacts
    <3>4. \A g \in D : s.page[g].index = e => g = f
      BY <1>1, <3>1
    <3> HIDE DEF K, In, dirty, D
    <3>q. QED
      BY <2>1, <2>3, <3>2, <3>3, <3>4
  <2>q. QED
    BY <2>2, <2>3
<1>8. F \in SUBSET Frame /\ P \in [Frame -> Page] /\ N \in [Slot -> Nat \cup {UNUSED}]
      /\ K \in [Slot -> 0 .. MaxData]
  <2>1. F \in SUBSET Frame
    BY <1>1 DEF Mem
  <2>2. P \in [Frame -> Page]
    BY <1>5
  <2>3. N \in [Slot -> Nat \cup {UNUSED}]
    BY <1>6
  <2>4. K \in [Slot -> 0 .. MaxData]
    BY <1>7
  <2>q. QED
    BY <2>1, <2>2, <2>3, <2>4
<1> HIDE DEF r, P, N, K, In, D, dirty, idle
<1>9. /\ r \in Mem /\ r.pte = s.pte /\ r.free = s.free \cup D /\ r.page = P
      /\ r.mem_map = N /\ r.disk = K
  <2>1. r.free = F /\ r \in Mem /\ r.pte = s.pte /\ r.page = P /\ r.mem_map = N /\ r.disk = K
    <3> HIDE DEF F
    <3>q. QED
      BY <1>1, <1>2, <1>8 DEF Mem
  <2>q. QED
    BY <2>1
<1>10. \A e \in Slot : IF \E f \in D : s.page[f].index = e
                       THEN r.mem_map[e] = IF s.mem_map[e] = 0 THEN UNUSED ELSE s.mem_map[e]
                       ELSE r.mem_map[e] = s.mem_map[e] /\ r.disk[e] = s.disk[e]
  BY <1>4, <1>6, <1>7, <1>9
<1>11. \A f \in D : s.mem_map[s.page[f].index] # 0 =>
        r.disk[s.page[f].index] = IF s.page[f].dirty THEN s.page[f].data
                                                     ELSE s.disk[s.page[f].index]
  BY <1>3, <1>7, <1>9
<1>12. \A f \in D : /\ s.page[f].ref = 0 /\ s.page[f].list # "none" /\ r.page[f] = FreshPage
  BY <1>3, <1>5, <1>9
<1>13. \A f \in Frame \ D :
        /\ r.page[f].ref = s.page[f].ref /\ r.page[f].index = s.page[f].index
        /\ r.page[f].dirty = s.page[f].dirty /\ r.page[f].data = s.page[f].data
        /\ r.page[f].list = "none" <=> s.page[f].list = "none"
  BY <1>5, <1>9
<1>14. Scanned(s, r, D)
  BY <1>1, <1>9, <1>10, <1>11, <1>12, <1>13 DEF Scanned
<1>q. QED
  BY <1>14, Zenon DEF r

LEMMA ScanEffect ==
    ASSUME NEW s, NEW H, NEW fails, Good(s, H, NoFrame)
    PROVE  \E D : Scanned(s, refill_inactive_scan(page_launder(s, fails)), D)
<1>1. PICK u : u = page_launder(s, fails)
  OBVIOUS
<1>2. PICK D : Scanned(s, u, D)
  BY <1>1, LaunderEffect
<1>3. PICK r : r = refill_inactive_scan(u)
  OBVIOUS
<1>4. Moved(u, r)
  BY <1>2, <1>3, RefillEffect DEF Scanned
<1>5. \A f \in D : r.page[f] = FreshPage
  BY <1>2, <1>4, FreshFacts DEF Scanned, Moved
<1>6. Scanned(s, r, D)
  BY <1>2, <1>4, <1>5 DEF Scanned, Moved
<1>q. QED
  BY <1>1, <1>3, <1>6, Zenon

-----------------------------------------------------------------------------
(* The end of do_pgfault                                                    *)

\* page_insert, and the page for a copy is given back
LEMMA InsertFreeGood ==
    ASSUME NEW s, NEW H, NEW m \in Mm, NEW f \in Frame, NEW n \in H, NEW w \in BOOLEAN, NEW r,
           Good(s, H, NoFrame), f \notin s.free, f \notin H,
           r = free_page(page_insert(s, m, f, w), n)
    PROVE  Good(r, H \ {n}, NoFrame) /\ Installed(s, r, m, f, w)
<1>1. PICK u : u = page_insert(s, m, f, w)
  OBVIOUS
<1>2. Good(u, H \ {f}, NoFrame) /\ Installed(s, u, m, f, w)
  BY <1>1, InsertGood
<1>3. H \ {f} = H
  OBVIOUS
<1>4. Good(u, H, NoFrame)
  BY <1>2, <1>3, Zenon
<1>5. r = free_page(u, n)
  BY <1>1
<1>6. Good(r, H \ {n}, NoFrame)
  BY <1>4, <1>5, FreeGood
<1>7. u \in Mem /\ n \in Frame
  BY <1>4 DEF Good
<1>8. r.pte = u.pte
  BY <1>5, <1>7, FreeEffect DEF Freed
<1>q. QED
  BY <1>2, <1>6, <1>8 DEF Installed

\* The page for a copy is filled and mapped.
Filled(s, n, d) == [s EXCEPT !.page[n].data = d]

LEMMA CopyGood ==
    ASSUME NEW s, NEW H, NEW m \in Mm, NEW d \in 0 .. MaxData, NEW n \in H, NEW r,
           Good(s, H, NoFrame),
           r = page_insert(Filled(s, n, d), m, n, TRUE)
    PROVE  Good(r, H \ {n}, NoFrame) /\ Installed(s, r, m, n, TRUE)
<1>1. s \in Mem /\ n \in Frame /\ FrameOK(s, H, NoFrame, n)
  BY DEF Good
<1>2. PICK u : u = Filled(s, n, d)
  OBVIOUS
<1>3. PICK a \in Page : SameCounts(s.page[n], a) /\ PagePut(s, u, n, a)
  BY <1>1, <1>2, DataEffect DEF Filled
<1>4. Good(u, H, NoFrame)
  BY <1>1, <1>3, SamePageGood
<1>5. n \notin u.free /\ u.pte = s.pte
  BY <1>1, <1>3 DEF FrameOK, PagePut
<1>6. PICK w \in BOOLEAN : w = TRUE
  OBVIOUS
<1>7. r = page_insert(u, m, n, w)
  BY <1>2, <1>6, Zenon
<1>8. Good(r, H \ {n}, NoFrame) /\ Installed(u, r, m, n, w)
  <2>1. PICK g \in Frame : g = n
    BY <1>1
  <2>2. PICK q : q = page_insert(u, m, g, w)
    OBVIOUS
  <2>3. Good(q, H \ {g}, NoFrame) /\ Installed(u, q, m, g, w)
    BY <1>4, <1>5, <2>1, <2>2, InsertGood
  <2>q. QED
    BY <1>7, <2>1, <2>2, <2>3, Zenon
<1>9. Installed(s, r, m, n, w)
  BY <1>5, <1>8 DEF Installed
<1>q. QED
  BY <1>6, <1>8, <1>9, Zenon

\* Some page is mapped, and no other entry changes.
Mapped(s, r, m) ==
    r.pte[m].kind = "present" /\ \A k \in Mm : k # m => r.pte[k] = s.pte[k]

LEMMA MapPageGood ==
    ASSUME NEW s, NEW H, NEW p \in Proc, NEW f \in Frame, NEW n \in H, NEW r,
           mm[p] \in Mm, Good(s, H, NoFrame), f \notin s.free, f \notin H,
           r = MapPage(s, p, f, n)
    PROVE  Good(r, H \ {n}, NoFrame) /\ Mapped(s, r, mm[p])
<1>1. PICK m \in Mm : m = mm[p]
  OBVIOUS
<1>2. s \in Mem
  BY DEF Good
<1>3. PICK d \in 0 .. MaxData : d = s.page[f].data
  BY <1>2, PageFacts
<1>4. \/ r = free_page(page_insert(s, m, f, FALSE), n)
      \/ r = page_insert(Filled(s, n, s.page[f].data), m, n, TRUE)
      \/ r = free_page(page_insert(s, m, f, TRUE), n)
  BY <1>1, Zenon DEF MapPage, Filled
<1>5. CASE \E w \in BOOLEAN : r = free_page(page_insert(s, m, f, w), n)
  <2>1. PICK w \in BOOLEAN : r = free_page(page_insert(s, m, f, w), n)
    BY <1>5
  <2>2. Good(r, H \ {n}, NoFrame) /\ Installed(s, r, m, f, w)
    BY <2>1, InsertFreeGood
  <2>q. QED
    BY <1>1, <2>2 DEF Installed, Mapped
<1>6. CASE r = page_insert(Filled(s, n, s.page[f].data), m, n, TRUE)
  <2>1. r = page_insert(Filled(s, n, d), m, n, TRUE)
    BY <1>3, <1>6, Zenon
  <2>2. Good(r, H \ {n}, NoFrame) /\ Installed(s, r, m, n, TRUE)
    BY <2>1, CopyGood
  <2>q. QED
    BY <1>1, <2>2 DEF Installed, Mapped
<1>q. QED
  <2>1. TRUE \in BOOLEAN /\ FALSE \in BOOLEAN
    OBVIOUS
  <2>q. QED
    BY <1>4, <1>5, <1>6, <2>1, Zenon

\* No page in memory has the swap entry.
OnlyOnDisk(s, e) == \A g \in Frame : s.page[g].index # e

\* swap_in_page has read the entry into a page that it holds.
ReadInto(s, r, f, e) ==
    /\ r \in Mem /\ r.pte = s.pte /\ r.mem_map = s.mem_map /\ r.disk = s.disk
    /\ r.free = s.free
    /\ \A g \in Frame : g # f => r.page[g] = s.page[g]
    /\ r.page[f].ref = s.page[f].ref /\ r.page[f].index = e /\ r.page[f].list = "active"
    /\ r.page[f].dirty = s.page[f].dirty /\ r.page[f].data = s.disk[e]

LEMMA ReadEffect ==
    ASSUME NEW s \in Mem, NEW f \in Frame, NEW e \in Slot
    PROVE  ReadInto(s, swap_page_add(Filled(s, f, s.disk[e]), f, e), f, e)
<1>1. PICK d \in 0 .. MaxData : d = s.disk[e]
  BY DEF Mem
<1>2. PICK u : u = Filled(s, f, d)
  OBVIOUS
<1>3. PICK a \in Page : /\ SameCounts(s.page[f], a) /\ a.dirty = s.page[f].dirty
                        /\ a.data = d /\ PagePut(s, u, f, a)
  BY <1>2, DataEffect DEF Filled
<1>4. PICK r : r = swap_page_add(u, f, e)
  OBVIOUS
<1>5. Listed(u, r, f, e)
  BY <1>3, <1>4, ListEffect DEF PagePut
<1>6. ReadInto(s, r, f, e)
  BY <1>1, <1>3, <1>5 DEF PagePut, Listed, SameCounts, ReadInto
<1>q. QED
  BY <1>1, <1>2, <1>4, <1>6, Zenon

LEMMA ReadGood ==
    ASSUME NEW s, NEW H, NEW f \in Frame, NEW e \in Slot, NEW r, Good(s, H, NoFrame),
           f \in H, OnlyOnDisk(s, e), s.mem_map[e] # UNUSED, ReadInto(s, r, f, e)
    PROVE  Good(r, H \ {f}, NoFrame)
<1>1. s \in Mem /\ FrameOK(s, H, NoFrame, f) /\ H \subseteq Frame /\ EntryOK(s, e)
  BY DEF Good
<1>2. f \notin s.free /\ s.page[f].index = NoSlot
  BY <1>1 DEF FrameOK
<1>3. Local(s, r, NoMm, f, e)
  BY <1>1, <1>2 DEF Local, ReadInto
<1>4. FrameOK(r, H \ {f}, NoFrame, f)
  BY <1>1, <1>2 DEF FrameOK, ReadInto
<1>5. f \in swap_hash_find(r, e)
  BY DEF ReadInto, swap_hash_find
<1>6. EntryOK(r, e)
  BY <1>1, <1>5 DEF EntryOK, ReadInto
<1>7. LocalOK(s, r, H, H \ {f}, NoFrame, NoFrame, f, e)
  BY <1>1, <1>4, <1>6 DEF LocalOK, ReadInto, OnlyOnDisk
<1>q. QED
  BY <1>3, <1>7, LocalGood

-----------------------------------------------------------------------------
(* Steps of the processes                                                   *)

\* What Inv says of one process
LEMMA ProcFacts ==
    ASSUME Inv, NEW p \in Proc
    PROVE  /\ mm[p] # NoMm => mm[p] \in Mm
           /\ pc[p] # "user" => mm[p] \in Mm
           /\ newpage[p] \in Frame \cup {NoFrame}
           /\ pc[p] = "swapin" => newpage[p] \in Held
           /\ pc[p] # "swapin" => newpage[p] = NoFrame
           /\ NoFrame \notin Held
BY DEF Inv, ProcsOK, Held

SameKinds(s, r) == \A k \in Mm : r.pte[k].kind = s.pte[k].kind

\* Steps in which no frame is held or given up and no fault advances
LEMMA QuietInv ==
    ASSUME Inv, NEW p \in Proc, ~InAlloc(p),
           Good(mem', Held, NoFrame), SameKinds(mem, mem'),
           pc' \in [Proc -> {"user", "retry", "lock", "first", "cow", "swapin"}],
           pc'[p] \in {"user", "retry", "lock"}, mm[p] # NoMm,
           \A q \in Proc : q # p => pc'[q] = pc[q],
           write' \in [Proc -> BOOLEAN], UNCHANGED <<mm, newpage, locked>>
    PROVE  Inv'
<1>1. Held' = Held
  BY DEF Held
<1>2. Good(mem, Held, NoFrame)'
  BY <1>1
<1>3. \A q \in Proc : /\ InAlloc(q)' <=> InAlloc(q)
                      /\ pc'[q] \in {"first", "cow", "swapin"} => pc'[q] = pc[q]
                      /\ pc[q] \in {"first", "cow", "swapin"} => pc'[q] = pc[q]
  BY DEF InAlloc
<1>4. ProcsOK'
  <2>1. ProcsOK
    BY DEF Inv
  <2>2. \A q \in Proc : /\ mm'[q] = NoMm => pc'[q] = "user"
                        /\ newpage'[q] # NoFrame <=> pc'[q] = "swapin"
    BY <1>3, <2>1 DEF ProcsOK
  <2>3. \A q \in Proc : InAlloc(q)' => locked'[mm'[q]]
    BY <1>3, <2>1 DEF ProcsOK
  <2>4. \A q, o \in Proc :
            /\ newpage'[q] = newpage'[o] /\ newpage'[q] # NoFrame => q = o
            /\ InAlloc(q)' /\ InAlloc(o)' /\ mm'[q] = mm'[o] => q = o
    BY <1>3, <2>1 DEF ProcsOK
  <2>5. \A m \in Mm : locked'[m] => \E q \in Proc : mm'[q] = m /\ InAlloc(q)'
    BY <1>3, <2>1 DEF ProcsOK
  <2>q. QED
    BY <2>1, <2>2, <2>3, <2>4, <2>5 DEF ProcsOK
<1>5. EntriesOK'
  <2>1. \A q \in Proc : pc'[q] \in {"first", "cow", "swapin"} => mm[q] \in Mm
    BY <1>3 DEF Inv, ProcsOK
  <2>2. EntriesOK
    BY DEF Inv
  <2>q. QED
    BY <1>3, <2>1, <2>2 DEF EntriesOK, SameKinds
<1>q. QED
  BY <1>2, <1>4, <1>5 DEF Inv

LEMMA AccessInv ==
    ASSUME Inv, NEW p \in Proc, NEW w \in BOOLEAN, Access(p, w)
    PROVE  Inv'
<1>1. /\ mm[p] # NoMm /\ mm[p] \in Mm /\ pc[p] \in {"user", "retry"}
      /\ mem.pte[mm[p]].kind = "present"
  BY ProcFacts DEF Access, Executes, CanRun, Allows
<1>2. PICK m \in Mm : m = mm[p]
  BY <1>1
<1>3. mem' = Accessed(mem, m, w)
  BY <1>2 DEF Access
<1>4. Good(mem', Held, NoFrame) /\ Touched(mem, mem', m, w)
  BY <1>1, <1>2, <1>3, AccessedGood DEF Inv
<1>5. SameKinds(mem, mem')
  <2>1. mem \in Mem
    BY DEF Inv, Good
  <2>2. mem'.pte \in [Mm -> Pte] /\ mem.pte \in [Mm -> Pte]
    BY <1>4, <2>1 DEF Touched, Mem
  <2>3. mem'.pte[m].kind = "present"
    BY <1>4 DEF Touched, Present
  <2>q. QED
    BY <1>1, <1>2, <1>4, <2>3 DEF SameKinds, Touched
<1>6. /\ pc' \in [Proc -> {"user", "retry", "lock", "first", "cow", "swapin"}]
      /\ write' \in [Proc -> BOOLEAN] /\ pc'[p] = "user"
      /\ \A q \in Proc : q # p => pc'[q] = pc[q]
      /\ UNCHANGED <<mm, newpage, locked>>
  BY DEF Access, Inv, ProcsOK
<1>q. QED
  BY <1>1, <1>4, <1>5, <1>6, QuietInv DEF InAlloc

\* do_pgfault has the lock and goes to alloc_page.
LEMMA StartInv ==
    ASSUME Inv, NEW p \in Proc, ~InAlloc(p), mm[p] # NoMm, ~locked[mm[p]],
           pc' = [pc EXCEPT ![p] = PageFor(mem.pte[mm[p]])],
           locked' = [locked EXCEPT ![mm[p]] = TRUE],
           write' \in [Proc -> BOOLEAN], UNCHANGED <<mem, mm, newpage>>
    PROVE  Inv'
<1>1. PICK m \in Mm : m = mm[p] /\ ~locked[m]
  BY ProcFacts
<1>2. ProcsOK
  BY DEF Inv
<1>3. /\ pc'[p] = IF mem.pte[m].kind = "invalid" THEN "first" ELSE "cow"
      /\ pc' \in [Proc -> {"user", "retry", "lock", "first", "cow", "swapin"}]
      /\ \A q \in Proc : q # p => pc'[q] = pc[q]
  BY <1>1, <1>2 DEF PageFor, ProcsOK
<1>4. /\ \A q \in Proc : InAlloc(q)' <=> InAlloc(q) \/ q = p
      /\ \A q \in Proc : InAlloc(q) => mm[q] # m
  BY <1>1, <1>2, <1>3 DEF InAlloc, ProcsOK
<1>5. /\ locked'[m] = TRUE /\ locked' \in [Mm -> BOOLEAN]
      /\ \A k \in Mm : k # m => locked'[k] = locked[k]
  BY <1>1, <1>2 DEF ProcsOK
<1>6. newpage[p] = NoFrame /\ pc'[p] # "swapin"
  BY <1>2, <1>3 DEF ProcsOK, InAlloc
<1>7. Good(mem, Held, NoFrame)'
  <2>1. Held' = Held
    BY DEF Held
  <2>q. QED
    BY <2>1 DEF Inv
<1>8. ProcsOK'
  <2>1. \A q \in Proc : /\ mm'[q] = NoMm => pc'[q] = "user"
                        /\ newpage'[q] # NoFrame <=> pc'[q] = "swapin"
    BY <1>2, <1>3, <1>6 DEF ProcsOK
  <2>2. \A q \in Proc : InAlloc(q)' => locked'[mm'[q]]
    <3>1. \A q \in Proc : InAlloc(q) => mm[q] \in Mm
      BY <1>2 DEF ProcsOK, InAlloc
    <3>q. QED
      BY <1>1, <1>2, <1>4, <1>5, <3>1 DEF ProcsOK
  <2>3. \A q, o \in Proc :
            /\ newpage'[q] = newpage'[o] /\ newpage'[q] # NoFrame => q = o
            /\ InAlloc(q)' /\ InAlloc(o)' /\ mm'[q] = mm'[o] => q = o
    BY <1>1, <1>2, <1>4 DEF ProcsOK
  <2>4. \A k \in Mm : locked'[k] => \E q \in Proc : mm'[q] = k /\ InAlloc(q)'
    BY <1>1, <1>2, <1>4, <1>5 DEF ProcsOK
  <2>q. QED
    BY <1>2, <1>3, <1>5, <2>1, <2>2, <2>3, <2>4 DEF ProcsOK
<1>9. EntriesOK'
  <2>1. EntriesOK
    BY DEF Inv
  <2>q. QED
    BY <1>1, <1>3, <2>1 DEF EntriesOK
<1>q. QED
  BY <1>7, <1>8, <1>9 DEF Inv

LEMMA FaultInv ==
    ASSUME Inv, NEW p \in Proc, NEW w \in BOOLEAN, Fault(p, w)
    PROVE  Inv'
<1>1. /\ mm[p] # NoMm /\ mm[p] \in Mm /\ pc[p] \in {"user", "retry"}
      /\ write' \in [Proc -> BOOLEAN] /\ UNCHANGED <<mem, mm, newpage>>
  BY ProcFacts DEF Fault, Executes, CanRun, Inv, ProcsOK
<1>2. ~InAlloc(p)
  BY <1>1 DEF InAlloc
<1>3. CASE locked[mm[p]]
  <2>1. pc' = [pc EXCEPT ![p] = "lock"] /\ locked' = [locked EXCEPT ![mm[p]] = TRUE]
    BY <1>3 DEF Fault
  <2>2. locked' = locked
    <3>1. locked \in [Mm -> BOOLEAN]
      BY DEF Inv, ProcsOK
    <3>2. locked[mm[p]] = TRUE
      BY <1>1, <1>3, <3>1
    <3>q. QED
      BY <1>1, <2>1, <3>1, <3>2
  <2>3. /\ pc' \in [Proc -> {"user", "retry", "lock", "first", "cow", "swapin"}]
        /\ pc'[p] = "lock" /\ \A q \in Proc : q # p => pc'[q] = pc[q]
    BY <2>1 DEF Inv, ProcsOK
  <2>4. Good(mem', Held, NoFrame) /\ SameKinds(mem, mem')
    BY <1>1 DEF Inv, SameKinds
  <2>q. QED
    BY <1>1, <1>2, <2>2, <2>3, <2>4, QuietInv
<1>4. CASE ~locked[mm[p]]
  <2>1. /\ pc' = [pc EXCEPT ![p] = PageFor(mem.pte[mm[p]])]
        /\ locked' = [locked EXCEPT ![mm[p]] = TRUE]
    BY <1>4 DEF Fault
  <2>q. QED
    BY <1>1, <1>2, <1>4, <2>1, StartInv
<1>q. QED
  BY <1>3, <1>4

LEMMA PgfaultInv ==
    ASSUME Inv, NEW p \in Proc, do_pgfault(p)
    PROVE  Inv'
<1>1. /\ mm[p] # NoMm /\ ~InAlloc(p) /\ ~locked[mm[p]]
      /\ pc' = [pc EXCEPT ![p] = PageFor(mem.pte[mm[p]])]
      /\ locked' = [locked EXCEPT ![mm[p]] = TRUE]
      /\ write' \in [Proc -> BOOLEAN] /\ UNCHANGED <<mem, mm, newpage>>
  BY DEF do_pgfault, CanRun, InAlloc, Inv, ProcsOK
<1>q. QED
  BY <1>1, StartInv

\* Sleeping and waking change nothing that Inv speaks of.
LEMMA SleepInv ==
    ASSUME Inv, UNCHANGED <<mem, mm, pc, write, newpage, locked>>
    PROVE  Inv'
<1>1. Held' = Held
  BY DEF Held
<1>2. Good(mem, Held, NoFrame)'
  BY <1>1 DEF Inv
<1>3. ProcsOK'
  BY DEF Inv, ProcsOK, InAlloc
<1>4. EntriesOK'
  BY DEF Inv, EntriesOK
<1>q. QED
  BY <1>2, <1>3, <1>4 DEF Inv

\* The fault has been dealt with: page_insert has been done, and the page for
\* a copy is mapped or given back.
LEMMA FaultDoneInv ==
    ASSUME Inv, NEW p \in Proc, InAlloc(p), NEW s, FaultDone(p, s),
           Good(s, Held \ {newpage[p]}, NoFrame), Mapped(mem, s, mm[p])
    PROVE  Inv'
<1>1. PICK m \in Mm : m = mm[p]
  BY ProcFacts DEF InAlloc
<1>2. ProcsOK /\ EntriesOK
  BY DEF Inv
<1>4. Held' = Held \ {newpage[p]}
  <2>1. newpage'[p] = NoFrame /\ \A q \in Proc : q # p => newpage'[q] = newpage[q]
    BY <1>2 DEF FaultDone, ProcsOK
  <2>2. \A q \in Proc : newpage[q] = newpage[p] /\ newpage[p] # NoFrame => q = p
    BY <1>2 DEF ProcsOK
  <2>q. QED
    BY <2>1, <2>2 DEF Held
<1>5. Good(mem', Held', NoFrame) /\ Mapped(mem, mem', m)
  <2>1. PICK G : G = Held'
    OBVIOUS
  <2>2. Good(s, G, NoFrame)
    BY <1>4, <2>1, Zenon
  <2>3. Mapped(mem, s, m) /\ s.pte[m].kind = "present"
    BY <1>1 DEF Mapped
  <2>4. mem' = s
    BY DEF FaultDone
  <2>q. QED
    BY <2>1, <2>2, <2>3, <2>4
<1>6. /\ pc' \in [Proc -> {"user", "retry", "lock", "first", "cow", "swapin"}]
      /\ pc'[p] \in {"user", "retry"} /\ write' \in [Proc -> BOOLEAN]
      /\ \A q \in Proc : q # p => pc'[q] = pc[q]
      /\ newpage' \in [Proc -> Frame \cup {NoFrame}] /\ newpage'[p] = NoFrame
      /\ \A q \in Proc : q # p => newpage'[q] = newpage[q]
      /\ locked' \in [Mm -> BOOLEAN] /\ locked'[m] = FALSE
      /\ \A k \in Mm : k # m => locked'[k] = locked[k]
      /\ mm' = mm
  BY <1>1, <1>2 DEF FaultDone, ProcsOK
<1>7. /\ \A q \in Proc : InAlloc(q)' <=> InAlloc(q) /\ q # p
      /\ \A q \in Proc : InAlloc(q) /\ mm[q] = m => q = p
      /\ \A q \in Proc : InAlloc(q) => mm[q] \in Mm
  BY <1>1, <1>2, <1>6 DEF InAlloc, ProcsOK
<1>8. ProcsOK'
  <2>1. \A q \in Proc : /\ mm'[q] = NoMm => pc'[q] = "user"
                        /\ newpage'[q] # NoFrame <=> pc'[q] = "swapin"
    BY <1>1, <1>2, <1>6 DEF ProcsOK
  <2>2. \A q \in Proc : InAlloc(q)' => locked'[mm'[q]]
    BY <1>2, <1>6, <1>7 DEF ProcsOK
  <2>3. \A q, o \in Proc :
            /\ newpage'[q] = newpage'[o] /\ newpage'[q] # NoFrame => q = o
            /\ InAlloc(q)' /\ InAlloc(o)' /\ mm'[q] = mm'[o] => q = o
    BY <1>2, <1>6, <1>7 DEF ProcsOK
  <2>4. \A k \in Mm : locked'[k] => \E q \in Proc : mm'[q] = k /\ InAlloc(q)'
    BY <1>1, <1>2, <1>6, <1>7 DEF ProcsOK
  <2>q. QED
    BY <1>2, <1>6, <2>1, <2>2, <2>3, <2>4 DEF ProcsOK
<1>9. EntriesOK'
  <2>1. \A q \in Proc : pc'[q] \in {"first", "cow", "swapin"} =>
            pc'[q] = pc[q] /\ mm[q] \in Mm /\ mm[q] # m
    BY <1>6, <1>7 DEF InAlloc
  <2>q. QED
    BY <1>1, <1>2, <1>5, <1>6, <2>1 DEF EntriesOK, Mapped
<1>q. QED
  BY <1>5, <1>8, <1>9 DEF Inv

LEMMA AllocPageInv ==
    ASSUME Inv, NEW p \in Proc, NEW f \in Frame, pgdir_alloc_page(p, f)
    PROVE  Inv'
<1>1. PICK m \in Mm : m = mm[p]
  BY ProcFacts DEF pgdir_alloc_page
<1>2. PICK d \in 0 .. MaxData :
          FaultDone(p, page_insert(Filled(Taken(mem, f), f, d), mm[p], f, TRUE))
  BY Zenon DEF pgdir_alloc_page, Filled
<1>3. f \in mem.free /\ newpage[p] = NoFrame /\ NoFrame \notin Held /\ InAlloc(p)
  BY ProcFacts DEF pgdir_alloc_page, InAlloc
<1>4. PICK s : s = Taken(mem, f)
  OBVIOUS
<1>5. PICK H : H = Held
  OBVIOUS
<1>6. Good(s, H \cup {f}, NoFrame) /\ f \notin H /\ s.pte = mem.pte
  BY <1>3, <1>4, <1>5, TakenGood DEF Inv
<1>7. PICK G : G = H \cup {f}
  OBVIOUS
<1>8. Good(s, G, NoFrame) /\ f \in G
  BY <1>6, <1>7, Zenon
<1>9. PICK r : r = page_insert(Filled(s, f, d), m, f, TRUE)
  OBVIOUS
<1>10. Good(r, G \ {f}, NoFrame) /\ Installed(s, r, m, f, TRUE)
  BY <1>8, <1>9, CopyGood
<1>11. Good(r, Held \ {newpage[p]}, NoFrame)
  <2>1. G \ {f} = Held \ {newpage[p]}
    BY <1>3, <1>5, <1>6, <1>7
  <2>q. QED
    BY <1>10, <2>1, Zenon
<1>12. Mapped(mem, r, mm[p])
  BY <1>1, <1>6, <1>10 DEF Installed, Mapped
<1>13. FaultDone(p, r)
  BY <1>1, <1>2, <1>4, <1>9, Zenon
<1>q. QED
  BY <1>3, <1>11, <1>12, <1>13, FaultDoneInv

\* A page that is mapped or has a swap entry is neither free nor held.
LEMMA FoundFrame ==
    ASSUME NEW s, NEW H, NEW f \in Frame, Good(s, H, NoFrame),
           s.page[f].ref # 0 \/ s.page[f].index # NoSlot
    PROVE  f \notin s.free /\ f \notin H
<1>1. FrameOK(s, H, NoFrame, f)
  BY DEF Good
<1>q. QED
  BY <1>1 DEF FrameOK

LEMMA CowInv ==
    ASSUME Inv, NEW p \in Proc, NEW n \in Frame, CowPage(p, n)
    PROVE  Inv'
<1>1. PICK m \in Mm : m = mm[p]
  BY ProcFacts DEF CowPage
<1>2. /\ n \in mem.free /\ newpage[p] = NoFrame /\ NoFrame \notin Held /\ InAlloc(p)
      /\ pc[p] = "cow"
  BY ProcFacts DEF CowPage, InAlloc
<1>3. PICK s : s = Taken(mem, n)
  OBVIOUS
<1>4. PICK H : H = Held
  OBVIOUS
<1>5. /\ Good(s, H \cup {n}, NoFrame) /\ n \notin H /\ s.pte = mem.pte
  BY <1>2, <1>3, <1>4, TakenGood DEF Inv
<1>6. PICK G : G = H \cup {n}
  OBVIOUS
<1>7. Good(s, G, NoFrame) /\ n \in G
  BY <1>5, <1>6, Zenon
<1>8. G \ {n} = Held \ {newpage[p]}
  BY <1>2, <1>4, <1>5, <1>6
<1> DEFINE found == IF s.pte[m].kind = "present" THEN {s.pte[m].page}
                    ELSE swap_hash_find(s, s.pte[m].entry)
<1>9. \/ \E f \in found : FaultDone(p, MapPage(s, p, f, n))
      \/ /\ found = {} /\ mem' = s
         /\ pc' = [pc EXCEPT ![p] = "swapin"]
         /\ newpage' = [newpage EXCEPT ![p] = n]
         /\ UNCHANGED <<mm, write, asleep, locked, kswapd, panicked>>
  BY <1>1, <1>3, <1>5 DEF CowPage
<1>10. s.pte[m].kind # "invalid" /\ s.pte[m] \in Pte
  <2>1. EntriesOK /\ s \in Mem
    BY <1>7 DEF Inv, Good
  <2>q. QED
    BY <1>1, <1>2, <1>5, <2>1 DEF EntriesOK, Mem
<1>11. ASSUME NEW f \in found, FaultDone(p, MapPage(s, p, f, n)) PROVE Inv'
  <2>1. f \in Frame /\ f \notin s.free /\ f \notin G
    <3>1. CASE s.pte[m].kind = "present"
      <4>1. PICK g \in Frame : g = s.pte[m].page /\ s.page[g].ref # 0
        BY <1>7, <3>1, MappedFrame
      <4>2. f = g
        BY <3>1, <4>1
      <4>q. QED
        BY <1>7, <4>1, <4>2, FoundFrame
    <3>2. CASE s.pte[m].kind # "present"
      <4>1. s.pte[m].entry \in Slot
        BY <1>10, <3>2, PteFacts
      <4>2. f \in Frame /\ s.page[f].index # NoSlot
        BY <3>2, <4>1 DEF swap_hash_find
      <4>q. QED
        BY <1>7, <4>2, FoundFrame
    <3>q. QED
      BY <3>1, <3>2
  <2>2. PICK r : r = MapPage(s, p, f, n)
    OBVIOUS
  <2> HIDE DEF found
  <2>3. Good(r, G \ {n}, NoFrame) /\ Mapped(s, r, mm[p])
    BY <1>1, <1>7, <2>1, <2>2, MapPageGood
  <2>4. Good(r, Held \ {newpage[p]}, NoFrame)
    BY <1>8, <2>3, Zenon
  <2>5. Mapped(mem, r, mm[p])
    BY <1>5, <2>3 DEF Mapped
  <2>6. FaultDone(p, r)
    BY <1>11, <2>2
  <2>q. QED
    BY <1>2, <2>4, <2>5, <2>6, FaultDoneInv
<1>12. ASSUME found = {}, mem' = s, pc' = [pc EXCEPT ![p] = "swapin"],
              newpage' = [newpage EXCEPT ![p] = n], UNCHANGED <<mm, write, locked>>
       PROVE  Inv'
  <2>1. s.pte[m].kind = "swap"
    <3>1. s.pte[m].kind # "present"
      BY <1>12
    <3>q. QED
      BY <1>10, <3>1, PteFacts
  <2> HIDE DEF found
  <2>2. ProcsOK /\ EntriesOK
    BY DEF Inv
  <2>3. /\ pc' \in [Proc -> {"user", "retry", "lock", "first", "cow", "swapin"}]
        /\ pc'[p] = "swapin" /\ \A q \in Proc : q # p => pc'[q] = pc[q]
        /\ newpage' \in [Proc -> Frame \cup {NoFrame}] /\ newpage'[p] = n
        /\ \A q \in Proc : q # p => newpage'[q] = newpage[q]
        /\ n # NoFrame
    BY <1>12, <2>2 DEF ProcsOK
  <2>4. \A q \in Proc : InAlloc(q)' <=> InAlloc(q)
    BY <1>2, <2>3 DEF InAlloc
  <2>5. \A q \in Proc : newpage[q] # n
    BY <1>4, <1>5 DEF Held
  <2>6. Good(mem, Held, NoFrame)'
    <3>1. Held' = G
      BY <1>2, <1>4, <1>6, <2>3 DEF Held
    <3>q. QED
      BY <1>7, <1>12, <3>1
  <2>7. ProcsOK'
    <3>1. \A q \in Proc : /\ mm'[q] = NoMm => pc'[q] = "user"
                          /\ newpage'[q] # NoFrame <=> pc'[q] = "swapin"
      BY <1>1, <1>12, <2>2, <2>3 DEF ProcsOK
    <3>2. \A q \in Proc : InAlloc(q)' => locked'[mm'[q]]
      BY <1>12, <2>2, <2>4 DEF ProcsOK
    <3>3. \A q, o \in Proc :
              /\ newpage'[q] = newpage'[o] /\ newpage'[q] # NoFrame => q = o
              /\ InAlloc(q)' /\ InAlloc(o)' /\ mm'[q] = mm'[o] => q = o
      BY <1>12, <2>2, <2>3, <2>4, <2>5 DEF ProcsOK
    <3>4. \A k \in Mm : locked'[k] => \E q \in Proc : mm'[q] = k /\ InAlloc(q)'
      BY <1>12, <2>2, <2>4 DEF ProcsOK
    <3>q. QED
      BY <1>12, <2>2, <2>3, <3>1, <3>2, <3>3, <3>4 DEF ProcsOK
  <2>8. EntriesOK'
    BY <1>1, <1>5, <1>12, <2>1, <2>2, <2>3 DEF EntriesOK
  <2>q. QED
    BY <2>6, <2>7, <2>8 DEF Inv
<1>q. QED
  BY <1>9, <1>11, <1>12

LEMMA SwapInInv ==
    ASSUME Inv, NEW p \in Proc, NEW f \in Frame, swap_in_page(p, f)
    PROVE  Inv'
<1>1. PICK m \in Mm : m = mm[p]
  BY ProcFacts DEF swap_in_page
<1>2. f \in mem.free /\ InAlloc(p) /\ pc[p] = "swapin" /\ newpage[p] \in Held
  BY ProcFacts DEF swap_in_page, InAlloc
<1>3. PICK s : s = Taken(mem, f)
  OBVIOUS
<1>4. PICK H, n : H = Held /\ n = newpage[p]
  OBVIOUS
<1>5. /\ Good(s, H \cup {f}, NoFrame) /\ f \notin H /\ f \notin s.free /\ s.pte = mem.pte
      /\ n \in H
  BY <1>2, <1>3, <1>4, TakenGood DEF Inv
<1>6. PICK G : G = H \cup {f}
  OBVIOUS
<1>7. Good(s, G, NoFrame) /\ f \in G /\ G \ {f} = H
  BY <1>5, <1>6
<1>8. PICK e \in Slot : /\ e = s.pte[m].entry /\ s.pte[m].kind = "swap"
                        /\ s.mem_map[e] \in Nat /\ s.mem_map[e] # 0
  <2>1. s.pte[m].kind = "swap"
    BY <1>1, <1>2, <1>5 DEF Inv, EntriesOK
  <2>q. QED
    BY <1>7, <2>1, HeldEntry
<1>9. \/ \E g \in swap_hash_find(s, e) : FaultDone(p, MapPage(free_page(s, f), p, g, n))
      \/ /\ swap_hash_find(s, e) = {}
         /\ FaultDone(p, MapPage(swap_page_add(Filled(s, f, s.disk[e]), f, e), p, f, n))
  <2>1. mem.pte[mm[p]].entry = e
    BY <1>1, <1>5, <1>8
  <2>q. QED
    BY <1>3, <1>4, <2>1, Zenon DEF swap_in_page, Filled
<1>10. ASSUME NEW g \in Frame, NEW u, Good(u, H, NoFrame), \A k \in Mm : u.pte[k] = s.pte[k],
              g \notin u.free, g \notin H, FaultDone(p, MapPage(u, p, g, n))
       PROVE  Inv'
  <2>1. PICK r : r = MapPage(u, p, g, n)
    OBVIOUS
  <2>2. Good(r, H \ {n}, NoFrame) /\ Mapped(u, r, mm[p])
    BY <1>1, <1>5, <1>10, <2>1, MapPageGood
  <2>3. Good(r, Held \ {newpage[p]}, NoFrame)
    BY <1>4, <2>2, Zenon
  <2>4. Mapped(mem, r, mm[p])
    BY <1>5, <1>10, <2>2 DEF Mapped
  <2>5. FaultDone(p, r)
    BY <1>10, <2>1
  <2>q. QED
    BY <1>2, <2>3, <2>4, <2>5, FaultDoneInv
<1>11. ASSUME NEW g \in swap_hash_find(s, e), FaultDone(p, MapPage(free_page(s, f), p, g, n))
       PROVE  Inv'
  <2>1. PICK u : u = free_page(s, f)
    OBVIOUS
  <2>2. Good(u, G \ {f}, NoFrame)
    BY <1>7, <2>1, FreeGood
  <2>3. Good(u, H, NoFrame)
    BY <1>7, <2>2, Zenon
  <2>4. g \in Frame /\ s.page[g].index # NoSlot
    BY DEF swap_hash_find
  <2>5. g \notin s.free /\ g \notin G /\ s \in Mem
    BY <1>7, <2>4, FoundFrame DEF Good
  <2>6. Freed(s, u, f)
    BY <2>1, <2>5, FreeEffect
  <2>7. u.pte = s.pte /\ g \notin u.free /\ g \notin H
    BY <1>6, <2>5, <2>6 DEF Freed
  <2>8. FaultDone(p, MapPage(u, p, g, n))
    BY <1>11, <2>1
  <2>q. QED
    BY <1>10, <2>3, <2>4, <2>7, <2>8
<1>12. ASSUME swap_hash_find(s, e) = {},
              FaultDone(p, MapPage(swap_page_add(Filled(s, f, s.disk[e]), f, e), p, f, n))
       PROVE  Inv'
  <2>1. PICK u : u = swap_page_add(Filled(s, f, s.disk[e]), f, e)
    OBVIOUS
  <2>0. ReadInto(s, u, f, e)
    <3>1. s \in Mem
      BY <1>7 DEF Good
    <3>q. QED
      BY <2>1, <3>1, ReadEffect
  <2>2. Good(u, G \ {f}, NoFrame)
    <3>1. s.mem_map[e] # UNUSED /\ OnlyOnDisk(s, e)
      BY <1>8, <1>12 DEF UNUSED, OnlyOnDisk, swap_hash_find
    <3>q. QED
      BY <1>7, <2>0, <3>1, ReadGood
  <2>3. Good(u, H, NoFrame)
    BY <1>7, <2>2, Zenon
  <2>4. FaultDone(p, MapPage(u, p, f, n))
    BY <1>12, <2>1
  <2>5. f \notin u.free /\ \A k \in Mm : u.pte[k] = s.pte[k]
    BY <1>5, <2>0 DEF ReadInto
  <2>q. QED
    BY <1>5, <1>10, <2>3, <2>4, <2>5
<1>q. QED
  BY <1>9, <1>11, <1>12

-----------------------------------------------------------------------------
(* The end of a process, and fork                                           *)

\* page_remove_pte, outside page_insert
LEMMA UnmappedGood ==
    ASSUME NEW s, NEW H, NEW m \in Mm, NEW r, Good(s, H, NoFrame), r = page_remove_pte(s, m)
    PROVE  /\ Good(r, H, NoFrame) /\ r.pte[m].kind = "invalid"
           /\ \A k \in Mm : k # m => r.pte[k] = s.pte[k]
<1>1. PICK x : x = NoFrame
  OBVIOUS
<1>2. Good(s, H, x) /\ (s.pte[m].kind = "present" => s.pte[m].page # x)
  <2>1. ASSUME s.pte[m].kind = "present" PROVE s.pte[m].page # x
    <3>1. PICK f \in Frame : f = s.pte[m].page
      BY <2>1, MappedFrame
    <3>q. QED
      BY <1>1, <3>1
  <2>q. QED
    BY <1>1, <2>1
<1>3. /\ Good(r, H, x) /\ r.pte[m] = Invalid
      /\ \A k \in Mm : k # m => r.pte[k] = s.pte[k]
  BY <1>2, RemoveGood
<1>q. QED
  BY <1>1, <1>3, PteKinds

\* exit_mmap, if p was the last process of its address space
LEMMA EndedGood ==
    ASSUME NEW s, NEW H, NEW p \in Proc, NEW m \in Mm, NEW r, m = mm[p],
           Good(s, H, NoFrame), r = Ended(s, p)
    PROVE  /\ Good(r, H, NoFrame)
           /\ \A k \in Mm : k # m => r.pte[k] = s.pte[k]
           /\ \/ r.pte[m].kind = "invalid"
              \/ r.pte[m] = s.pte[m] /\ \E q \in Proc : q # p /\ mm[q] = m
           /\ \A q \in Proc : q # p /\ mm[q] = m => r.pte[m] = s.pte[m]
<1>1. CASE \E q \in Proc \ {p} : mm[q] = m
  <2>1. r = s
    BY <1>1, Zenon DEF Ended
  <2>q. QED
    BY <1>1, <2>1
<1>2. CASE ~ \E q \in Proc \ {p} : mm[q] = m
  <2>1. r = page_remove_pte(s, m)
    BY <1>2, Zenon DEF Ended
  <2>2. /\ Good(r, H, NoFrame) /\ r.pte[m].kind = "invalid"
        /\ \A k \in Mm : k # m => r.pte[k] = s.pte[k]
    BY <2>1, UnmappedGood
  <2>q. QED
    BY <1>2, <2>2
<1>q. QED
  BY <1>1, <1>2

\* Process p ends, in a system call or because its page cannot be read.
LEMMA EndInv ==
    ASSUME Inv, NEW p \in Proc, NEW s, mm[p] # NoMm,
           pc[p] \in {"user", "retry", "swapin"},
           Good(s, Held \ {newpage[p]}, NoFrame), s.pte = mem.pte, mem' = Ended(s, p),
           newpage' = [newpage EXCEPT ![p] = NoFrame], pc' = [pc EXCEPT ![p] = "user"],
           write' \in [Proc -> BOOLEAN], mm' = [mm EXCEPT ![p] = NoMm],
           locked' \in [Mm -> BOOLEAN], InAlloc(p) => locked'[mm[p]] = FALSE,
           \A k \in Mm : k # mm[p] \/ ~InAlloc(p) => locked'[k] = locked[k]
    PROVE  Inv'
<1>1. PICK m \in Mm : m = mm[p]
  BY ProcFacts
<1>2. ProcsOK /\ EntriesOK
  BY DEF Inv
<1>3. /\ pc' \in [Proc -> {"user", "retry", "lock", "first", "cow", "swapin"}]
      /\ pc'[p] = "user" /\ \A q \in Proc : q # p => pc'[q] = pc[q]
      /\ newpage' \in [Proc -> Frame \cup {NoFrame}] /\ newpage'[p] = NoFrame
      /\ \A q \in Proc : q # p => newpage'[q] = newpage[q]
      /\ mm' \in [Proc -> Mm \cup {NoMm}] /\ mm'[p] = NoMm
      /\ \A q \in Proc : q # p => mm'[q] = mm[q]
  BY <1>2 DEF ProcsOK
<1>4. /\ locked' \in [Mm -> BOOLEAN] /\ (InAlloc(p) => locked'[m] = FALSE)
      /\ \A k \in Mm : (k # m \/ ~InAlloc(p)) => locked'[k] = locked[k]
  BY <1>1
<1>5. /\ \A q \in Proc : InAlloc(q)' <=> InAlloc(q) /\ q # p
      /\ \A q \in Proc : InAlloc(p) /\ InAlloc(q) /\ mm[q] = m => q = p
      /\ \A q \in Proc : InAlloc(q) => mm[q] \in Mm
  BY <1>1, <1>2, <1>3 DEF InAlloc, ProcsOK
<1>6. Held' = Held \ {newpage[p]}
  <2>1. \A q \in Proc : newpage[q] = newpage[p] /\ newpage[p] # NoFrame => q = p
    BY <1>2 DEF ProcsOK
  <2>q. QED
    BY <1>3, <2>1 DEF Held
<1>7. /\ Good(mem', Held', NoFrame)
      /\ \A k \in Mm : k # m => mem'.pte[k] = mem.pte[k]
      /\ \/ mem'.pte[m].kind = "invalid"
         \/ mem'.pte[m] = mem.pte[m] /\ \E q \in Proc : q # p /\ mm[q] = m
      /\ \A q \in Proc : q # p /\ mm[q] = m => mem'.pte[m] = mem.pte[m]
  <2>1. PICK G : G = Held'
    OBVIOUS
  <2>2. Good(s, G, NoFrame)
    BY <1>6, <2>1, Zenon
  <2>3. PICK r : r = mem' /\ r = Ended(s, p)
    OBVIOUS
  <2>4. /\ Good(r, G, NoFrame)
        /\ \A k \in Mm : k # m => r.pte[k] = s.pte[k]
        /\ \/ r.pte[m].kind = "invalid"
           \/ r.pte[m] = s.pte[m] /\ \E q \in Proc : q # p /\ mm[q] = m
        /\ \A q \in Proc : q # p /\ mm[q] = m => r.pte[m] = s.pte[m]
    BY <1>1, <2>2, <2>3, EndedGood
  <2>q. QED
    BY <2>1, <2>3, <2>4
<1>8. ProcsOK'
  <2>1. \A q \in Proc : /\ mm'[q] = NoMm => pc'[q] = "user"
                        /\ newpage'[q] # NoFrame <=> pc'[q] = "swapin"
    BY <1>2, <1>3 DEF ProcsOK
  <2>2. \A q \in Proc : InAlloc(q)' => locked'[mm'[q]]
    BY <1>2, <1>3, <1>4, <1>5 DEF ProcsOK
  <2>3. \A q, o \in Proc :
            /\ newpage'[q] = newpage'[o] /\ newpage'[q] # NoFrame => q = o
            /\ InAlloc(q)' /\ InAlloc(o)' /\ mm'[q] = mm'[o] => q = o
    BY <1>2, <1>3, <1>5 DEF ProcsOK
  <2>4. \A k \in Mm : locked'[k] => \E q \in Proc : mm'[q] = k /\ InAlloc(q)'
    <3>1. \A k \in Mm : locked'[k] => locked[k]
      BY <1>1, <1>4
    <3>2. \A k \in Mm : locked'[k] => \E q \in Proc : mm[q] = k /\ InAlloc(q) /\ q # p
      BY <1>1, <1>2, <1>4, <3>1 DEF ProcsOK
    <3>q. QED
      BY <1>3, <1>5, <3>2
  <2>q. QED
    BY <1>2, <1>3, <1>4, <2>1, <2>2, <2>3, <2>4 DEF ProcsOK
<1>9. EntriesOK'
  <2>1. ASSUME NEW q \in Proc, pc'[q] \in {"first", "cow", "swapin"}
        PROVE  /\ pc'[q] = pc[q] /\ mm'[q] = mm[q] /\ mm[q] \in Mm
               /\ mem'.pte[mm[q]] = mem.pte[mm[q]]
    <3>1. q # p /\ pc'[q] = pc[q] /\ mm'[q] = mm[q] /\ mm[q] \in Mm
      BY <1>3, <1>5, <2>1 DEF InAlloc
    <3>q. QED
      BY <1>7, <3>1
  <2>2. \A q \in Proc :
          /\ pc'[q] = "first" => mem'.pte[mm'[q]].kind = "invalid"
          /\ pc'[q] = "cow" => mem'.pte[mm'[q]].kind # "invalid"
          /\ pc'[q] = "swapin" => mem'.pte[mm'[q]].kind = "swap"
    BY <1>2, <2>1 DEF EntriesOK
  <2>3. \A k \in Mm : mem'.pte[k].kind # "invalid" => \E q \in Proc : mm'[q] = k
    <3> TAKE k \in Mm
    <3>1. CASE k = m
      BY <1>3, <1>7, <3>1
    <3>2. CASE k # m
      BY <1>1, <1>2, <1>3, <1>7, <3>2 DEF EntriesOK
    <3>q. QED
      BY <3>1, <3>2
  <2>q. QED
    BY <2>2, <2>3 DEF EntriesOK
<1>q. QED
  BY <1>7, <1>8, <1>9 DEF Inv

LEMMA SwapInFailsInv ==
    ASSUME Inv, NEW p \in Proc, swap_in_fails(p)
    PROVE  Inv'
<1>1. mm[p] # NoMm /\ mm[p] \in Mm /\ pc[p] = "swapin" /\ InAlloc(p) /\ newpage[p] \in Held
  BY ProcFacts DEF swap_in_fails, CanRun, InAlloc
<1>2. PICK s, n, H : s = free_page(mem, n) /\ n = newpage[p] /\ H = Held
  OBVIOUS
<1>3. Good(mem, H, NoFrame) /\ n \in H
  BY <1>1, <1>2 DEF Inv
<1>4. Good(s, H \ {n}, NoFrame)
  BY <1>2, <1>3, FreeGood
<1>5. Good(s, Held \ {newpage[p]}, NoFrame)
  BY <1>2, <1>4, Zenon
<1>6. s.pte = mem.pte
  <2>1. mem \in Mem /\ n \in Frame
    BY <1>3 DEF Good
  <2>q. QED
    BY <1>2, <2>1, FreeEffect DEF Freed
<1>7. /\ mem' = Ended(s, p) /\ newpage' = [newpage EXCEPT ![p] = NoFrame]
      /\ pc' = [pc EXCEPT ![p] = "user"] /\ mm' = [mm EXCEPT ![p] = NoMm]
      /\ write' \in [Proc -> BOOLEAN]
  BY <1>2 DEF swap_in_fails, Inv, ProcsOK
<1>8. /\ locked' \in [Mm -> BOOLEAN] /\ locked'[mm[p]] = FALSE
      /\ \A k \in Mm : k # mm[p] => locked'[k] = locked[k]
  <2>1. locked \in [Mm -> BOOLEAN] /\ locked' = [locked EXCEPT ![mm[p]] = FALSE]
    BY DEF swap_in_fails, Inv, ProcsOK
  <2>q. QED
    BY <1>1, <2>1
<1>q. QED
  BY <1>1, <1>5, <1>6, <1>7, <1>8, EndInv

LEMMA ExitInv ==
    ASSUME Inv, NEW p \in Proc, do_exit(p)
    PROVE  Inv'
<1>1. /\ mm[p] # NoMm /\ pc[p] \in {"user", "retry"} /\ ~InAlloc(p) /\ newpage[p] = NoFrame
      /\ NoFrame \notin Held
  BY ProcFacts DEF do_exit, CanRun, InAlloc
<1>2. Held \ {newpage[p]} = Held
  BY <1>1
<1>3. PICK s : s = mem
  OBVIOUS
<1>4. Good(s, Held \ {newpage[p]}, NoFrame) /\ s.pte = mem.pte /\ mem' = Ended(s, p)
  <2>1. Good(s, Held, NoFrame)
    BY <1>3 DEF Inv
  <2>2. Good(s, Held \ {newpage[p]}, NoFrame)
    BY <1>2, <2>1, Zenon
  <2>q. QED
    BY <1>3, <2>2 DEF do_exit
<1>5. /\ newpage' = [newpage EXCEPT ![p] = NoFrame] /\ pc' = [pc EXCEPT ![p] = "user"]
      /\ mm' = [mm EXCEPT ![p] = NoMm] /\ write' \in [Proc -> BOOLEAN]
  BY <1>1 DEF do_exit, Inv, ProcsOK
<1>6. locked' \in [Mm -> BOOLEAN] /\ \A k \in Mm : locked'[k] = locked[k]
  BY DEF do_exit, Inv, ProcsOK
<1>q. QED
  BY <1>1, <1>4, <1>5, <1>6, EndInv

\* A new process, with the address space n
LEMMA NewProcInv ==
    ASSUME Inv, NEW q \in Proc, NEW n \in Mm, mm[q] = NoMm, mm' = [mm EXCEPT ![q] = n],
           UNCHANGED <<pc, write, newpage, locked>>, Good(mem', Held, NoFrame),
           \A k \in Mm : mem'.pte[k].kind = mem.pte[k].kind \/ (k = n /\ \A o \in Proc : mm[o] # n)
    PROVE  Inv'
<1>1. ProcsOK /\ EntriesOK
  BY DEF Inv
<1>2. /\ mm' \in [Proc -> Mm \cup {NoMm}] /\ mm'[q] = n
      /\ \A o \in Proc : o # q => mm'[o] = mm[o]
  BY <1>1 DEF ProcsOK
<1>3. pc[q] = "user" /\ \A o \in Proc : InAlloc(o)' <=> InAlloc(o)
  BY <1>1 DEF ProcsOK, InAlloc
<1>4. \A o \in Proc : InAlloc(o) => o # q /\ mm'[o] = mm[o] /\ mm[o] \in Mm
  BY <1>1, <1>2, <1>3 DEF ProcsOK, InAlloc
<1>5. Good(mem, Held, NoFrame)'
  <2>1. Held' = Held
    BY DEF Held
  <2>q. QED
    BY <2>1
<1>6. ProcsOK'
  <2>1. \A o \in Proc : /\ mm'[o] = NoMm => pc'[o] = "user"
                        /\ newpage'[o] # NoFrame <=> pc'[o] = "swapin"
    BY <1>1, <1>2, <1>3 DEF ProcsOK
  <2>2. \A o \in Proc : InAlloc(o)' => locked'[mm'[o]]
    BY <1>1, <1>3, <1>4 DEF ProcsOK
  <2>3. \A o, r \in Proc :
            /\ newpage'[o] = newpage'[r] /\ newpage'[o] # NoFrame => o = r
            /\ InAlloc(o)' /\ InAlloc(r)' /\ mm'[o] = mm'[r] => o = r
    BY <1>1, <1>3, <1>4 DEF ProcsOK
  <2>4. \A k \in Mm : locked'[k] => \E o \in Proc : mm'[o] = k /\ InAlloc(o)'
    BY <1>1, <1>3, <1>4 DEF ProcsOK
  <2>q. QED
    BY <1>1, <1>2, <2>1, <2>2, <2>3, <2>4 DEF ProcsOK
<1>7. EntriesOK'
  <2>1. \A o \in Proc : pc[o] \in {"first", "cow", "swapin"} =>
            mm'[o] = mm[o] /\ mm[o] \in Mm /\ mem'.pte[mm[o]].kind = mem.pte[mm[o]].kind
    BY <1>4 DEF InAlloc
  <2>2. \A o \in Proc :
          /\ pc'[o] = "first" => mem'.pte[mm'[o]].kind = "invalid"
          /\ pc'[o] = "cow" => mem'.pte[mm'[o]].kind # "invalid"
          /\ pc'[o] = "swapin" => mem'.pte[mm'[o]].kind = "swap"
    BY <1>1, <2>1 DEF EntriesOK
  <2>3. \A k \in Mm : mem'.pte[k].kind # "invalid" => \E o \in Proc : mm'[o] = k
    <3> TAKE k \in Mm
    <3>1. CASE k = n
      BY <1>2, <3>1
    <3>2. CASE k # n
      BY <1>1, <1>2, <3>2 DEF EntriesOK
    <3>q. QED
      BY <3>1, <3>2
  <2>q. QED
    BY <2>2, <2>3 DEF EntriesOK
<1>q. QED
  BY <1>5, <1>6, <1>7 DEF Inv

LEMMA CloneInv ==
    ASSUME Inv, NEW p \in Proc, NEW q \in Proc, do_clone(p, q)
    PROVE  Inv'
<1>1. PICK n \in Mm : n = mm[p]
  BY ProcFacts DEF do_clone, CanRun
<1>2. /\ mm[q] = NoMm /\ mm' = [mm EXCEPT ![q] = n] /\ UNCHANGED <<mem, pc, write, newpage, locked>>
  BY <1>1 DEF do_clone
<1>3. Good(mem', Held, NoFrame) /\ \A k \in Mm : mem'.pte[k].kind = mem.pte[k].kind
  BY <1>2 DEF Inv
<1>q. QED
  BY <1>2, <1>3, NewProcInv

LEMMA ForkInv ==
    ASSUME Inv, NEW p \in Proc, NEW q \in Proc, NEW n \in Mm, do_fork(p, q, n)
    PROVE  Inv'
<1>1. PICK m \in Mm : m = mm[p]
  BY ProcFacts DEF do_fork, CanRun
<1>2. /\ mm[q] = NoMm /\ mm' = [mm EXCEPT ![q] = n] /\ UNCHANGED <<pc, write, newpage, locked>>
      /\ mem' = copy_range(mem, m, n) /\ (\A o \in Proc : mm[o] # n) /\ m # n
  BY <1>1 DEF do_fork
<1>3. mem.pte[n] = Invalid
  <2>1. mem.pte[n].kind = "invalid"
    BY <1>2 DEF Inv, EntriesOK
  <2>2. mem.pte[n] \in Pte
    BY DEF Inv, Good, Mem
  <2>q. QED
    BY <2>1, <2>2, PteFacts
<1>4. PICK s, r, H : s = mem /\ r = mem' /\ H = Held
  OBVIOUS
<1>5. Good(s, H, NoFrame) /\ s.pte[n] = Invalid /\ r = copy_range(s, m, n)
  BY <1>2, <1>3, <1>4 DEF Inv
<1>6. Good(r, H, NoFrame) /\ Forked(s, r, m, n)
  BY <1>2, <1>5, ForkGood
<1>7. Good(mem', Held, NoFrame)
  BY <1>4, <1>6
<1>8. \A k \in Mm : mem'.pte[k].kind = mem.pte[k].kind \/ k = n
  BY <1>4, <1>6 DEF Forked
<1>q. QED
  BY <1>2, <1>7, <1>8, NewProcInv

-----------------------------------------------------------------------------
(* Steps that change the memory only                                        *)

LEMMA MemoryInv ==
    ASSUME Inv, UNCHANGED <<mm, pc, write, newpage, locked>>, Good(mem', Held, NoFrame),
           NEW m \in Mm, \A k \in Mm : k # m => mem'.pte[k] = mem.pte[k],
           mem.pte[m].kind = "invalid" => mem'.pte[m].kind = "invalid",
           \A q \in Proc : InAlloc(q) /\ mm[q] = m =>
              \/ mem'.pte[m].kind = mem.pte[m].kind
              \/ mem.pte[m].kind = "present" /\ mem'.pte[m].kind = "swap"
    PROVE  Inv'
<1>1. ProcsOK /\ EntriesOK
  BY DEF Inv
<1>2. Good(mem, Held, NoFrame)'
  <2>1. Held' = Held
    BY DEF Held
  <2>q. QED
    BY <2>1
<1>3. ProcsOK'
  BY <1>1 DEF ProcsOK, InAlloc
<1>4. EntriesOK'
  <2>1. \A q \in Proc : pc[q] \in {"first", "cow", "swapin"} => mm[q] \in Mm /\ InAlloc(q)
    BY <1>1 DEF ProcsOK, InAlloc
  <2>2. \A q \in Proc :
          /\ pc'[q] = "first" => mem'.pte[mm'[q]].kind = "invalid"
          /\ pc'[q] = "cow" => mem'.pte[mm'[q]].kind # "invalid"
          /\ pc'[q] = "swapin" => mem'.pte[mm'[q]].kind = "swap"
    BY <1>1, <2>1 DEF EntriesOK
  <2>3. \A k \in Mm : mem'.pte[k].kind # "invalid" => \E q \in Proc : mm'[q] = k
    BY <1>1 DEF EntriesOK
  <2>q. QED
    BY <2>2, <2>3 DEF EntriesOK
<1>q. QED
  BY <1>2, <1>3, <1>4 DEF Inv

LEMMA UnmapInv ==
    ASSUME Inv, NEW p \in Proc, mm_unmap(p)
    PROVE  Inv'
<1>1. PICK m \in Mm : m = mm[p]
  BY ProcFacts DEF mm_unmap, CanRun
<1>2. /\ ~locked[m] /\ mem' = page_remove_pte(mem, m)
      /\ UNCHANGED <<mm, pc, write, newpage, locked>>
  BY <1>1 DEF mm_unmap, procVars
<1>3. PICK s, r, H : s = mem /\ r = mem' /\ H = Held
  OBVIOUS
<1>4. Good(s, H, NoFrame) /\ r = page_remove_pte(s, m)
  BY <1>2, <1>3 DEF Inv
<1>5. /\ Good(r, H, NoFrame) /\ r.pte[m].kind = "invalid"
      /\ \A k \in Mm : k # m => r.pte[k] = s.pte[k]
  BY <1>4, UnmappedGood
<1>6. /\ Good(mem', Held, NoFrame) /\ mem'.pte[m].kind = "invalid"
      /\ \A k \in Mm : k # m => mem'.pte[k] = mem.pte[k]
  BY <1>3, <1>5
<1>7. \A q \in Proc : ~(InAlloc(q) /\ mm[q] = m)
  BY <1>2 DEF Inv, ProcsOK
<1>q. QED
  BY <1>2, <1>6, <1>7, MemoryInv

LEMMA SwapOutInv ==
    ASSUME Inv, NEW m \in Mm, swap_out_vma(m)
    PROVE  Inv'
<1>1. /\ mem.pte[m].kind = "present" /\ UNCHANGED <<mm, pc, write, newpage, locked>>
  BY DEF swap_out_vma, procVars
<1>2. PICK s, r, H, f : s = mem /\ r = mem' /\ H = Held /\ f = s.pte[m].page
  OBVIOUS
<1>3. Good(s, H, NoFrame) /\ s.pte[m].kind = "present"
  BY <1>1, <1>2 DEF Inv
<1>4. f \in Frame
  BY <1>2, <1>3, MappedFrame
<1>5. \/ ~PageSwap(s, f) /\ \E e \in SwapEntries(s) : r = SwappedOut(swap_page_add_new(s, f, e), m)
      \/ PageSwap(s, f) /\ r = SwappedOut(DirtyPage(s, f, s.pte[m].D), m)
  BY <1>2, Zenon DEF swap_out_vma, DirtyPage
<1>6. /\ Good(r, H, NoFrame) /\ r.pte[m].kind = "swap"
      /\ \A k \in Mm : k # m => r.pte[k] = s.pte[k]
  <2>1. ASSUME NEW e \in SwapEntries(s), ~PageSwap(s, f),
               r = SwappedOut(swap_page_add_new(s, f, e), m)
        PROVE  /\ Good(r, H, NoFrame) /\ r.pte[m].kind = "swap"
               /\ \A k \in Mm : k # m => r.pte[k] = s.pte[k]
    <3>1. Good(r, H, NoFrame) /\ SwapOutNew(s, r, m, f, e)
      BY <1>2, <1>3, <1>4, <2>1, NewSwapOutGood
    <3>2. e \in Slot
      BY DEF SwapEntries, Unused, Unneeded
    <3>q. QED
      BY <3>1, <3>2, PteKinds DEF SwapOutNew, Vacated, NewlyListed, Swapped
  <2>2. ASSUME PageSwap(s, f), r = SwappedOut(DirtyPage(s, f, s.pte[m].D), m)
        PROVE  /\ Good(r, H, NoFrame) /\ r.pte[m].kind = "swap"
               /\ \A k \in Mm : k # m => r.pte[k] = s.pte[k]
    <3>1. Good(r, H, NoFrame) /\ SwapOutOld(s, r, m, f)
      BY <1>2, <1>3, <1>4, <2>2, OldSwapOutGood
    <3>q. QED
      BY <3>1, PteKinds DEF SwapOutOld, PagePut, Swapped
  <2>q. QED
    BY <1>5, <2>1, <2>2
<1>7. /\ Good(mem', Held, NoFrame) /\ mem'.pte[m].kind = "swap"
      /\ \A k \in Mm : k # m => mem'.pte[k] = mem.pte[k]
  BY <1>2, <1>6
<1>q. QED
  BY <1>1, <1>7, MemoryInv

LEMMA KswapdInv ==
    ASSUME Inv, kswapd_main
    PROVE  Inv'
<1>1. PICK fails : mem' = refill_inactive_scan(page_launder(mem, fails))
  BY DEF kswapd_main
<1>2. UNCHANGED <<mm, pc, write, newpage, locked>>
  BY DEF kswapd_main
<1>3. PICK s, r, H : s = mem /\ r = mem' /\ H = Held
  OBVIOUS
<1>4. Good(s, H, NoFrame) /\ r = refill_inactive_scan(page_launder(s, fails))
  BY <1>1, <1>3 DEF Inv
<1>5. PICK D : Scanned(s, r, D)
  BY <1>4, ScanEffect
<1>6. Good(r, H, NoFrame) /\ r.pte = s.pte
  BY <1>4, <1>5, ScanGood DEF Scanned
<1>7. Good(mem', Held, NoFrame) /\ \A k \in Mm : mem'.pte[k] = mem.pte[k]
  BY <1>3, <1>6
<1>8. CASE Mm = {}
  <2>1. ProcsOK /\ EntriesOK
    BY DEF Inv
  <2>2. Held' = Held
    BY <1>2 DEF Held
  <2>3. ProcsOK'
    BY <1>2, <2>1 DEF ProcsOK, InAlloc
  <2>4. \A q \in Proc : pc[q] \notin {"first", "cow", "swapin"}
    BY <1>8, <2>1 DEF ProcsOK
  <2>5. EntriesOK'
    BY <1>2, <1>8, <2>4 DEF EntriesOK
  <2>q. QED
    BY <1>7, <2>2, <2>3, <2>5 DEF Inv
<1>9. ASSUME NEW m \in Mm PROVE Inv'
  BY <1>2, <1>7, MemoryInv
<1>q. QED
  BY <1>8, <1>9

-----------------------------------------------------------------------------

LEMMA InitInv == Init => Inv
<1> SUFFICES ASSUME Init PROVE Inv
  OBVIOUS
<1>1. /\ mem.pte = [m \in Mm |-> Invalid] /\ mem.page = [f \in Frame |-> FreshPage]
      /\ mem.free = Frame /\ mem.mem_map = [e \in Slot |-> UNUSED]
      /\ mem.disk = [e \in Slot |-> 0]
  BY DEF Init
<1>2. mem \in Mem
  <2>1. 0 \in 0 .. MaxData /\ Invalid \in Pte /\ FreshPage \in Page
    BY PteKinds, FreshFacts
  <2>q. QED
    BY <2>1 DEF Init, Mem
<1>3. Held = {} /\ newpage = [p \in Proc |-> NoFrame]
  BY DEF Init, Held
<1>4. \A f : Maps(mem.pte, f) = {}
  BY <1>1, PteKinds DEF Maps
<1>5. \A e : Holds(mem.pte, e) = {}
  BY <1>1, PteKinds DEF Holds
<1>6. Cardinality({}) = 0
  BY FS_EmptySet
<1>7. \A f \in Frame : FrameOK(mem, Held, NoFrame, f)
  <2> TAKE f \in Frame
  <2>1. mem.page[f] = FreshPage /\ f \in mem.free /\ Cardinality(Maps(mem.pte, f)) = 0
    BY <1>1, <1>4, <1>6
  <2>q. QED
    BY <1>3, <1>4, <2>1, FreshFacts DEF FrameOK
<1>8. \A e \in Slot : swap_hash_find(mem, e) = {}
  BY <1>1, FreshFacts DEF swap_hash_find
<1>9. \A e \in Slot : EntryOK(mem, e)
  BY <1>1, <1>5, <1>8 DEF EntryOK, UNUSED
<1>10. \A f, g \in Frame :
        mem.page[f].index # NoSlot /\ mem.page[f].index = mem.page[g].index => f = g
  BY <1>1, FreshFacts
<1>11. Good(mem, Held, NoFrame)
  BY <1>2, <1>3, <1>7, <1>9, <1>10 DEF Good
<1>12. ProcsOK
  BY DEF Init, ProcsOK, InAlloc
<1>13. EntriesOK
  BY <1>1, PteKinds DEF EntriesOK, Init
<1>q. QED
  BY <1>11, <1>12, <1>13 DEF Inv

LEMMA NextInv == Inv /\ [Next]_vars => Inv'
<1> SUFFICES ASSUME Inv, [Next]_vars PROVE Inv'
  OBVIOUS
<1>1. ASSUME NEW p \in Proc, NEW w \in BOOLEAN, Access(p, w) \/ Fault(p, w) PROVE Inv'
  BY <1>1, AccessInv, FaultInv
<1>2. ASSUME NEW p \in Proc, do_pgfault(p) PROVE Inv'
  BY <1>2, PgfaultInv
<1>3. ASSUME NEW p \in Proc, try_free_pages(p) PROVE Inv'
  BY <1>3, SleepInv DEF try_free_pages
<1>4. ASSUME NEW p \in Proc, NEW f \in Frame,
             pgdir_alloc_page(p, f) \/ CowPage(p, f) \/ swap_in_page(p, f)
      PROVE  Inv'
  BY <1>4, AllocPageInv, CowInv, SwapInInv
<1>5. ASSUME NEW p \in Proc, swap_in_fails(p) \/ do_exit(p) \/ mm_unmap(p) PROVE Inv'
  BY <1>5, SwapInFailsInv, ExitInv, UnmapInv
<1>6. ASSUME NEW p \in Proc, NEW q \in Proc, do_clone(p, q) PROVE Inv'
  BY <1>6, CloneInv
<1>7. ASSUME NEW p \in Proc, NEW q \in Proc, NEW n \in Mm, do_fork(p, q, n) PROVE Inv'
  BY <1>7, ForkInv
<1>8. ASSUME NEW m \in Mm, swap_out_vma(m) PROVE Inv'
  BY <1>8, SwapOutInv
<1>9. ASSUME kswapd_main PROVE Inv'
  BY <1>9, KswapdInv
<1>10. ASSUME UNCHANGED vars PROVE Inv'
  BY <1>10, SleepInv DEF vars, procVars
<1>q. QED
  BY <1>1, <1>2, <1>3, <1>4, <1>5, <1>6, <1>7, <1>8, <1>9, <1>10 DEF Next

LEMMA InvHolds == Spec => []Inv
BY InitInv, NextInv, PTL DEF Spec

LEMMA InvCounts ==
    ASSUME Inv
    PROVE  RefsCounted /\ NothingLost
<1>1. Good(mem, Held, NoFrame) /\ mem \in Mem
  BY DEF Inv, Good
<1>2. \A f \in Frame : /\ FrameOK(mem, Held, NoFrame, f) /\ Mapping(f) = Maps(mem.pte, f)
                       /\ Cardinality(Maps(mem.pte, f)) \in Nat
                       /\ Cardinality(Maps(mem.pte, f)) = 0 <=> Maps(mem.pte, f) = {}
                       /\ f # NoFrame
  <2> TAKE f \in Frame
  <2>1. Mapping(f) = Maps(mem.pte, f)
    BY DEF Mapping, Maps
  <2>q. QED
    BY <1>1, <2>1, GoodFrame
<1>3. \A e \in Slot : EntryOK(mem, e) /\ Holding(e) = Holds(mem.pte, e)
  <2> TAKE e \in Slot
  <2>1. \A m \in Mm : mem.pte[m] = SwapEntry(e) <=> mem.pte[m].kind = "swap" /\ mem.pte[m].entry = e
    <3> TAKE m \in Mm
    <3>1. mem.pte[m] \in Pte
      BY <1>1 DEF Mem
    <3>q. QED
      BY <3>1, PteFacts, PteKinds
  <2>2. Holding(e) = Holds(mem.pte, e)
    BY <2>1 DEF Holding, Holds
  <2>q. QED
    BY <1>1, <2>2 DEF Good
<1>4. \A f \in Frame : mem.page[f].ref = Cardinality(Mapping(f))
  BY <1>2 DEF FrameOK
<1>5. \A e \in Slot :
        IF mem.mem_map[e] = UNUSED THEN Holding(e) = {} /\ swap_hash_find(mem, e) = {}
        ELSE mem.mem_map[e] = Cardinality(Holding(e))
  BY <1>3 DEF EntryOK
<1>6. \A f \in mem.free : Mapping(f) = {} /\ ~PageSwap(mem, f) /\ mem.page[f].list = "none"
  <2>1. mem.free \subseteq Frame
    BY <1>1 DEF Mem
  <2>q. QED
    BY <1>2, <1>4, <2>1 DEF FrameOK, PageSwap
<1>7. \A p \in Proc : newpage[p] # NoFrame =>
        newpage[p] \notin mem.free /\ Mapping(newpage[p]) = {}
  <2>1. \A p \in Proc : newpage[p] # NoFrame => newpage[p] \in Held /\ newpage[p] \in Frame
    BY DEF Inv, ProcsOK, Held
  <2>q. QED
    BY <1>2, <1>4, <2>1 DEF FrameOK
<1>8. RefsCounted
  BY <1>4, <1>5, <1>6, <1>7 DEF RefsCounted
<1>9. \A f \in Frame \ mem.free :
        Mapping(f) # {} \/ PageSwap(mem, f) \/ \E p \in Proc : newpage[p] = f
  BY <1>2, <1>4 DEF FrameOK, PageSwap, Held
<1>10. \A f \in Frame : PageSwap(mem, f) <=> mem.page[f].list # "none"
  BY <1>2 DEF FrameOK, PageSwap
<1>11. \A e \in Slot : /\ Cardinality(swap_hash_find(mem, e)) <= 1
                       /\ mem.mem_map[e] = 0 => swap_hash_find(mem, e) # {}
  <2> TAKE e \in Slot
  <2>1. Cardinality(swap_hash_find(mem, e)) <= 1
    <3>1. CASE swap_hash_find(mem, e) = {}
      BY <3>1, FS_EmptySet
    <3>2. CASE swap_hash_find(mem, e) # {}
      <4>1. PICK f \in Frame : swap_hash_find(mem, e) = {f}
        BY <1>1, <3>2, HashFacts
      <4>2. Cardinality({f}) = 1
        BY FS_Singleton
      <4>q. QED
        BY <4>1, <4>2
    <3>q. QED
      BY <3>1, <3>2
  <2>q. QED
    BY <1>3, <2>1 DEF EntryOK
<1>12. NothingLost
  BY <1>9, <1>10, <1>11 DEF NothingLost
<1>q. QED
  BY <1>8, <1>12

\* Neither a page nor a swap entry is freed while somebody refers to it: ref
\* and mem_map count exactly the page table entries (the comment on mem_map).
THEOREM RefsCountedHolds == Spec => []RefsCounted
BY InvHolds, InvCounts, PTL

\* Nothing leaks: a frame or a swap entry that is not free has a user, and no
\* entry is in memory twice.
THEOREM NothingLostHolds == Spec => []NothingLost
BY InvHolds, InvCounts, PTL

-----------------------------------------------------------------------------
(* What the address spaces read                                             *)

\* m reads v from its page, as do_pgfault would find it.
Reads(s, m, v) ==
    \/ s.pte[m].kind = "invalid" /\ v = Untouched
    \/ s.pte[m].kind = "present" /\ v = s.page[s.pte[m].page].data
    \/ /\ s.pte[m].kind = "swap"
       /\ \/ \E f \in Frame : s.page[f].index = s.pte[m].entry /\ v = s.page[f].data
          \/ OnlyOnDisk(s, s.pte[m].entry) /\ v = s.disk[s.pte[m].entry]

\* Everybody but m reads the same before and after.
Keeps(s, r, m) == \A k \in Mm : k # m => \A v : Reads(s, k, v) => Reads(r, k, v)

\* m maps f, or holds the swap entry of f.
Reaches(s, m, f) ==
    \/ s.pte[m].kind = "present" /\ s.pte[m].page = f
    \/ s.pte[m].kind = "swap" /\ s.pte[m].entry = s.page[f].index

\* Who may write to a page shares it with nobody.
MayWrite(s, m, f) == s.pte[m].kind = "present" /\ s.pte[m].page = f /\ s.pte[m].W

Exclusive(s) ==
    \A m, k \in Mm, f \in Frame : MayWrite(s, m, f) /\ k # m => ~Reaches(s, k, f)

\* A page that neither its flag nor an entry that maps it calls dirty is on the
\* disk as it is in memory; the pages of U may be exceptions.
Clean(s, U) ==
    \A f \in Frame :
        /\ f \notin U /\ s.page[f].index # NoSlot /\ ~s.page[f].dirty
        /\ \A k \in Mm : s.pte[k].kind = "present" /\ s.pte[k].page = f => ~s.pte[k].D
        => s.disk[s.page[f].index] = s.page[f].data

\* What Good says of entries and pages, without the counts
Coherent(s, H) ==
    /\ \A k \in Mm : /\ s.pte[k].kind \in {"invalid", "present", "swap"}
                     /\ s.pte[k].kind = "present" =>
                          s.pte[k].page \in Frame /\ s.page[s.pte[k].page].ref # 0
                     /\ s.pte[k].kind = "swap" =>
                          /\ s.pte[k].entry \in Slot
                          /\ s.mem_map[s.pte[k].entry] # 0 /\ s.mem_map[s.pte[k].entry] # UNUSED
    /\ \A f \in Frame : /\ s.page[f].index \in Slot \cup {NoSlot}
                        /\ f \in s.free \cup H => s.page[f].ref = 0 /\ s.page[f].index = NoSlot
                        /\ s.page[f].index = NoSlot <=> s.page[f].list = "none"
    /\ \A f, g \in Frame : s.page[f].index # NoSlot /\ s.page[f].index = s.page[g].index => f = g

LEMMA GoodCoherent ==
    ASSUME NEW s, NEW H, NEW x, Good(s, H, x)
    PROVE  Coherent(s, H)
<1>1. s \in Mem
  BY DEF Good
<1>2. ASSUME NEW k \in Mm, s.pte[k].kind = "present"
      PROVE  s.pte[k].page \in Frame /\ s.page[s.pte[k].page].ref # 0
  <2>1. s.pte[k] \in Pte
    BY <1>1 DEF Mem
  <2>2. PICK f \in Frame : f = s.pte[k].page
    BY <1>2, <2>1, PteFacts
  <2>3. k \in Maps(s.pte, f)
    BY <1>2, <2>2 DEF Maps
  <2>4. /\ FrameOK(s, H, x, f)
        /\ Cardinality(Maps(s.pte, f)) \in Nat /\ Cardinality(Maps(s.pte, f)) # 0
    BY <2>3, GoodFrame
  <2>5. s.page[f].ref # 0
    BY <2>4 DEF FrameOK
  <2>q. QED
    BY <2>2, <2>5
<1>3. ASSUME NEW k \in Mm, s.pte[k].kind = "swap"
      PROVE  /\ s.pte[k].entry \in Slot
             /\ s.mem_map[s.pte[k].entry] # 0 /\ s.mem_map[s.pte[k].entry] # UNUSED
  <2>1. /\ s.pte[k].entry \in Slot
        /\ s.mem_map[s.pte[k].entry] \in Nat /\ s.mem_map[s.pte[k].entry] # 0
    BY <1>3, HeldEntry
  <2>2. UNUSED \notin Nat
    BY DEF UNUSED
  <2>q. QED
    BY <2>1, <2>2
<1>4. \A k \in Mm : s.pte[k].kind \in {"invalid", "present", "swap"}
  BY <1>1, PteFacts DEF Mem
<1>5. \A f \in Frame : /\ s.page[f].index \in Slot \cup {NoSlot}
                       /\ f \in s.free \cup H => s.page[f].ref = 0 /\ s.page[f].index = NoSlot
                       /\ s.page[f].index = NoSlot <=> s.page[f].list = "none"
  BY <1>1, PageFacts DEF Good, FrameOK
<1>6. \A f, g \in Frame : s.page[f].index # NoSlot /\ s.page[f].index = s.page[g].index => f = g
  BY DEF Good
<1>q. QED
  BY <1>2, <1>3, <1>4, <1>5, <1>6 DEF Coherent

\* Neither the entry of k nor what it leads to has changed.
Undisturbed(s, r, k) ==
    /\ r.pte[k] = s.pte[k]
    /\ s.pte[k].kind = "present" => r.page[s.pte[k].page].data = s.page[s.pte[k].page].data
    /\ s.pte[k].kind = "swap" =>
        /\ \A f \in Frame : s.page[f].index = s.pte[k].entry =>
                r.page[f].index = s.pte[k].entry /\ r.page[f].data = s.page[f].data
        /\ OnlyOnDisk(s, s.pte[k].entry) =>
                /\ OnlyOnDisk(r, s.pte[k].entry)
                /\ r.disk[s.pte[k].entry] = s.disk[s.pte[k].entry]

LEMMA UndisturbedReads ==
    ASSUME NEW s, NEW r, NEW k, NEW v, Undisturbed(s, r, k), Reads(s, k, v)
    PROVE  Reads(r, k, v)
<1>1. CASE s.pte[k].kind = "invalid" /\ v = Untouched
  BY <1>1 DEF Undisturbed, Reads
<1>2. CASE s.pte[k].kind = "present" /\ v = s.page[s.pte[k].page].data
  BY <1>2 DEF Undisturbed, Reads
<1>3. CASE s.pte[k].kind = "swap" /\ \E f \in Frame : s.page[f].index = s.pte[k].entry
                                                    /\ v = s.page[f].data
  BY <1>3 DEF Undisturbed, Reads
<1>4. CASE /\ s.pte[k].kind = "swap"
           /\ OnlyOnDisk(s, s.pte[k].entry) /\ v = s.disk[s.pte[k].entry]
  BY <1>4 DEF Undisturbed, Reads
<1>q. QED
  BY <1>1, <1>2, <1>3, <1>4 DEF Reads

LEMMA UndisturbedKeeps ==
    ASSUME NEW s, NEW r, NEW m, \A k \in Mm : k # m => Undisturbed(s, r, k)
    PROVE  Keeps(s, r, m)
BY UndisturbedReads DEF Keeps

\* A frame that nobody has: whatever happens to it, nobody sees it.
Idle(s, r, n) ==
    /\ r.pte = s.pte /\ r.disk = s.disk /\ n \in Frame
    /\ s.page[n].ref = 0 /\ s.page[n].index = NoSlot /\ r.page[n].index = NoSlot
    /\ \A g \in Frame : g # n => r.page[g] = s.page[g]

LEMMA IdleData ==
    ASSUME NEW U, NEW s, NEW H, NEW x, NEW r, NEW n, Good(s, H, x), Idle(s, r, n),
           Exclusive(s), Clean(s, U)
    PROVE  Exclusive(r) /\ Clean(r, U) /\ \A m : Keeps(s, r, m)
<1>1. Coherent(s, H)
  BY GoodCoherent
<1>2. \A g \in Frame : r.page[g].index = s.page[g].index
  BY DEF Idle
<1>3. Exclusive(r)
  BY <1>2 DEF Exclusive, Reaches, MayWrite, Idle
<1>4. Clean(r, U)
  BY <1>2 DEF Clean, Idle
<1>5. ASSUME NEW k \in Mm PROVE Undisturbed(s, r, k)
  <2>1. s.pte[k].kind = "present" => r.page[s.pte[k].page] = s.page[s.pte[k].page]
    BY <1>1 DEF Coherent, Idle
  <2>2. s.pte[k].kind = "swap" => \A f \in Frame : s.page[f].index = s.pte[k].entry => f # n
    BY <1>1 DEF Coherent, Idle
  <2>3. OnlyOnDisk(s, s.pte[k].entry) => OnlyOnDisk(r, s.pte[k].entry)
    BY <1>2 DEF OnlyOnDisk
  <2>4. s.pte[k].kind = "swap" => \A f \in Frame : s.page[f].index = s.pte[k].entry =>
            r.page[f].index = s.pte[k].entry /\ r.page[f].data = s.page[f].data
    BY <2>2 DEF Idle
  <2>5. r.pte = s.pte /\ r.disk = s.disk
    BY DEF Idle
  <2>q. QED
    BY <2>1, <2>3, <2>4, <2>5 DEF Undisturbed
<1>q. QED
  BY <1>3, <1>4, <1>5, UndisturbedKeeps

\* Only counts, lists and free frames differ, or pages have become dirty.
Alike(s, r) ==
    /\ r.pte = s.pte /\ r.disk = s.disk
    /\ \A g \in Frame : /\ r.page[g].index = s.page[g].index /\ r.page[g].data = s.page[g].data
                        /\ s.page[g].dirty => r.page[g].dirty

LEMMA AlikeData ==
    ASSUME NEW U, NEW s, NEW H, NEW x, NEW r, Good(s, H, x), Alike(s, r),
           Exclusive(s), Clean(s, U)
    PROVE  Exclusive(r) /\ Clean(r, U) /\ \A m : Keeps(s, r, m)
<1>1. Coherent(s, H)
  BY GoodCoherent
<1>2. Exclusive(r)
  BY DEF Exclusive, Reaches, MayWrite, Alike
<1>3. Clean(r, U)
  BY DEF Clean, Alike
<1>4. ASSUME NEW k \in Mm PROVE Undisturbed(s, r, k)
  <2>1. OnlyOnDisk(s, s.pte[k].entry) => OnlyOnDisk(r, s.pte[k].entry)
    BY DEF OnlyOnDisk, Alike
  <2>q. QED
    BY <1>1, <2>1 DEF Undisturbed, Alike, Coherent
<1>q. QED
  BY <1>2, <1>3, <1>4, UndisturbedKeeps

-----------------------------------------------------------------------------
(* page_remove_pte and page_insert                                          *)

LEMMA OneMember ==
    ASSUME NEW S \in SUBSET Mm, NEW m \in S, NEW k \in S, Cardinality(S) = 1
    PROVE  k = m
<1>1. PICK T \in SUBSET Mm : T = S \ {m}
  OBVIOUS
<1>2. Cardinality(S \ {m}) = Cardinality(S) - 1
  BY Count
<1>3. Cardinality(T) = 0
  BY <1>1, <1>2
<1>4. T = {}
  BY <1>3, Count
<1>q. QED
  BY <1>1, <1>4

\* A page that is counted once is mapped once, and the same for a swap entry.
LEMMA OnlyMapper ==
    ASSUME NEW s, NEW H, NEW x, NEW f \in Frame, NEW m \in Mm, NEW k \in Mm, Good(s, H, x), f # x,
           s.page[f].ref = 1, s.pte[m].kind = "present", s.pte[m].page = f,
           s.pte[k].kind = "present", s.pte[k].page = f
    PROVE  k = m
<1>1. FrameOK(s, H, x, f) /\ Cardinality(Maps(s.pte, f)) \in Nat
  BY GoodFrame
<1>2. PICK S \in SUBSET Mm : S = Maps(s.pte, f)
  BY DEF Maps
<1>3. m \in S /\ k \in S
  BY <1>2 DEF Maps
<1>4. Cardinality(S) = 1
  BY <1>1, <1>2 DEF FrameOK
<1>q. QED
  BY <1>3, <1>4, OneMember

LEMMA OnlyHolder ==
    ASSUME NEW s, NEW H, NEW x, NEW e \in Slot, NEW m \in Mm, NEW k \in Mm, Good(s, H, x),
           s.mem_map[e] = 1, s.pte[m].kind = "swap", s.pte[m].entry = e,
           s.pte[k].kind = "swap", s.pte[k].entry = e
    PROVE  k = m
<1>1. EntryOK(s, e)
  BY DEF Good
<1>2. PICK S \in SUBSET Mm : S = Holds(s.pte, e)
  BY DEF Holds
<1>3. m \in S /\ k \in S
  BY <1>2 DEF Holds
<1>4. Cardinality(S) = 1
  BY <1>1, <1>2 DEF EntryOK, UNUSED
<1>q. QED
  BY <1>3, <1>4, OneMember

LEMMA UnmapData ==
    ASSUME NEW U, NEW s, NEW H, NEW x, NEW m \in Mm, NEW f \in Frame, NEW r, Good(s, H, x),
           s.pte[m].kind = "present", s.pte[m].page = f, f # x, Unmapped(s, r, m, f),
           Exclusive(s), Clean(s, U)
    PROVE  Exclusive(r) /\ Clean(r, U) /\ Keeps(s, r, m)
<1>1. Coherent(s, H)
  BY GoodCoherent
<1>2. /\ \A g \in Frame : r.page[g].index = s.page[g].index
      /\ r.pte[m].kind = "invalid" /\ \A k \in Mm : k # m => r.pte[k] = s.pte[k]
      /\ r.disk = s.disk
  BY PteKinds DEF Unmapped
<1>3. Exclusive(r)
  BY <1>2 DEF Exclusive, Reaches, MayWrite
<1>4. Clean(r, U)
  <2> SUFFICES ASSUME NEW g \in Frame, g \notin U, r.page[g].index # NoSlot, ~r.page[g].dirty,
                      \A k \in Mm : r.pte[k].kind = "present" /\ r.pte[k].page = g => ~r.pte[k].D
               PROVE  r.disk[r.page[g].index] = r.page[g].data
    BY DEF Clean
  <2>1. \A k \in Mm : s.pte[k].kind = "present" /\ s.pte[k].page = g /\ k # m => ~s.pte[k].D
    BY <1>2
  <2>2. /\ s.page[g].index # NoSlot /\ ~s.page[g].dirty /\ r.page[g].data = s.page[g].data
        /\ g = f => ~s.pte[m].D
    BY <1>2 DEF Unmapped
  <2>3. s.disk[s.page[g].index] = s.page[g].data
    BY <2>1, <2>2 DEF Clean
  <2>q. QED
    BY <1>2, <2>2, <2>3
<1>5. ASSUME NEW k \in Mm, k # m PROVE Undisturbed(s, r, k)
  <2>1. OnlyOnDisk(s, s.pte[k].entry) => OnlyOnDisk(r, s.pte[k].entry)
    BY <1>2 DEF OnlyOnDisk
  <2>2. r.page[f].index # NoSlot => r.page[f].data = s.page[f].data
    BY <1>2 DEF Unmapped
  <2>3. s.pte[k].kind = "present" /\ s.pte[k].page = f => r.page[f].data = s.page[f].data
    <3>1. s.pte[k].kind = "present" /\ s.pte[k].page = f => s.page[f].ref # 1
      BY <1>5, OnlyMapper
    <3>q. QED
      BY <3>1 DEF Unmapped
  <2>4. s.pte[k].kind = "present" => r.page[s.pte[k].page].data = s.page[s.pte[k].page].data
    BY <1>1, <2>3 DEF Unmapped, Coherent
  <2>5. s.pte[k].kind = "swap" => \A g \in Frame : s.page[g].index = s.pte[k].entry =>
            r.page[g].index = s.pte[k].entry /\ r.page[g].data = s.page[g].data
    BY <1>1, <1>2, <2>2 DEF Unmapped, Coherent
  <2>q. QED
    BY <1>2, <1>5, <2>1, <2>4, <2>5 DEF Undisturbed
<1>q. QED
  BY <1>3, <1>4, <1>5, UndisturbedKeeps

\* What becomes of an entry that one address space holds no longer
Given(s, r, e) ==
    Kept(s, r, e) \/ GivenUp(s, r, e) \/ \E f \in Frame : GivenUpWith(s, r, e, f)

\* A page that is counted does not change.
Stays(s, r) == \A g \in Frame : s.page[g].ref # 0 => r.page[g] = s.page[g]

\* The entry of m is gone, and nobody else notices.
Vacant(s, r, m, U) == Exclusive(r) /\ Clean(r, U) /\ Keeps(s, r, m) /\ Stays(s, r)

LEMMA UnholdData ==
    ASSUME NEW U, NEW s, NEW H, NEW x, NEW m \in Mm, NEW e \in Slot, NEW r, Good(s, H, x),
           s.pte[m].kind = "swap", s.pte[m].entry = e, Unheld(s, r, m, e),
           Given(s, r, e), Exclusive(s), Clean(s, U)
    PROVE  Vacant(s, r, m, U)
<1>1. Coherent(s, H)
  BY GoodCoherent
<1>2. /\ r.pte[m].kind = "invalid" /\ \A k \in Mm : k # m => r.pte[k] = s.pte[k]
      /\ \A i \in Slot : i # e => r.disk[i] = s.disk[i]
  BY PteKinds DEF Unheld
<1>3. CASE Kept(s, r, e)
  <2>1. r.page = s.page /\ r.disk = s.disk
    BY <1>3 DEF Kept
  <2>2. Exclusive(r)
    BY <1>2, <2>1 DEF Exclusive, Reaches, MayWrite
  <2>3. Clean(r, U)
    BY <1>2, <2>1 DEF Clean
  <2>4. ASSUME NEW k \in Mm, k # m PROVE Undisturbed(s, r, k)
    BY <1>2, <2>1, <2>4 DEF Undisturbed, OnlyOnDisk
  <2>q. QED
    BY <2>1, <2>2, <2>3, <2>4, UndisturbedKeeps DEF Stays, Vacant
<1>4. ASSUME s.mem_map[e] = 1,
             \A g \in Frame : \/ r.page[g] = s.page[g] /\ s.page[g].index # e
                              \/ /\ s.page[g].index = e /\ s.page[g].ref = 0
                                 /\ r.page[g].index = NoSlot
      PROVE  Vacant(s, r, m, U)
  <2>1. \A k \in Mm : k # m /\ s.pte[k].kind = "swap" => s.pte[k].entry # e
    BY <1>4, OnlyHolder
  <2>2. Exclusive(r)
    BY <1>1, <1>2, <1>4 DEF Exclusive, Reaches, MayWrite, Coherent
  <2>3. Clean(r, U)
    <3> SUFFICES ASSUME NEW g \in Frame, g \notin U, r.page[g].index # NoSlot, ~r.page[g].dirty,
                        \A k \in Mm : r.pte[k].kind = "present" /\ r.pte[k].page = g => ~r.pte[k].D
                 PROVE  r.disk[r.page[g].index] = r.page[g].data
      BY DEF Clean
    <3>1. r.page[g] = s.page[g] /\ s.page[g].index # e /\ s.page[g].index \in Slot
      BY <1>1, <1>4 DEF Coherent
    <3>2. \A k \in Mm : s.pte[k].kind = "present" /\ s.pte[k].page = g => ~s.pte[k].D
      BY <1>2
    <3>3. s.disk[s.page[g].index] = s.page[g].data
      BY <3>1, <3>2 DEF Clean
    <3>q. QED
      BY <1>2, <3>1, <3>3
  <2>4. ASSUME NEW k \in Mm, k # m PROVE Undisturbed(s, r, k)
    <3>1. s.pte[k].kind = "swap" => s.pte[k].entry # e /\ s.pte[k].entry \in Slot
      BY <1>1, <2>1, <2>4 DEF Coherent
    <3>2. s.pte[k].kind = "swap" /\ OnlyOnDisk(s, s.pte[k].entry) => OnlyOnDisk(r, s.pte[k].entry)
      BY <1>4, <3>1 DEF OnlyOnDisk
    <3>3. s.pte[k].kind = "present" => r.page[s.pte[k].page] = s.page[s.pte[k].page]
      BY <1>1, <1>4 DEF Coherent
    <3>q. QED
      BY <1>2, <1>4, <2>4, <3>1, <3>2, <3>3 DEF Undisturbed
  <2>q. QED
    BY <1>4, <2>2, <2>3, <2>4, UndisturbedKeeps DEF Stays, Vacant
<1>5. CASE GivenUp(s, r, e)
  BY <1>4, <1>5 DEF GivenUp, swap_hash_find
<1>6. CASE \E f \in Frame : GivenUpWith(s, r, e, f)
  <2>1. PICK f \in Frame : GivenUpWith(s, r, e, f)
    BY <1>6
  <2>2. \A g \in Frame : s.page[g].index = e => g = f
    BY <1>1, <2>1 DEF GivenUpWith, Coherent
  <2>q. QED
    BY <1>4, <2>1, <2>2 DEF GivenUpWith
<1>q. QED
  BY <1>3, <1>5, <1>6 DEF Given

LEMMA RemoveData ==
    ASSUME NEW U, NEW s, NEW H, NEW x, NEW m \in Mm, NEW r, Good(s, H, x),
           s.pte[m].kind = "present" => s.pte[m].page # x, r = page_remove_pte(s, m),
           Exclusive(s), Clean(s, U)
    PROVE  /\ Exclusive(r) /\ Clean(r, U) /\ Keeps(s, r, m)
           /\ x \in Frame => r.page[x] = s.page[x]
<1>1. s \in Mem /\ s.pte[m] \in Pte /\ Coherent(s, H)
  BY GoodCoherent DEF Good, Mem
<1>0. PICK q : q = r
  OBVIOUS
<1>2. CASE s.pte[m].kind = "invalid"
  <2>1. r = s
    BY <1>1, <1>2, PteFacts DEF page_remove_pte
  <2>q. QED
    BY <2>1 DEF Keeps
<1>3. CASE s.pte[m].kind = "present"
  <2>1. PICK f \in Frame : f = s.pte[m].page /\ s.page[f].ref # 0
    BY <1>1, <1>3 DEF Coherent
  <2>2. Unmapped(s, r, m, f)
    BY <1>1, <1>3, <2>1, UnmapEffect
  <2>3. Unmapped(s, q, m, f) /\ f # x
    BY <1>0, <1>3, <2>1, <2>2
  <2>4. Exclusive(q) /\ Clean(q, U) /\ Keeps(s, q, m)
    BY <1>3, <2>1, <2>3, UnmapData
  <2>q. QED
    BY <1>0, <2>3, <2>4 DEF Unmapped
<1>4. CASE s.pte[m].kind = "swap"
  <2>1. PICK e \in Slot : e = s.pte[m].entry
    BY <1>1, <1>4, PteFacts
  <2>2. /\ Unheld(s, r, m, e)
        /\ \/ Kept(s, r, e) \/ GivenUp(s, r, e)
           \/ \E f \in Frame : GivenUpWith(s, r, e, f)
    BY <1>4, <2>1, UnholdEffect
  <2>5. Unheld(s, q, m, e) /\ Given(s, q, e)
    BY <1>0, <2>2 DEF Given
  <2>3. Vacant(s, q, m, U)
    <3>1. s.pte[m].kind = "swap" /\ s.pte[m].entry = e
      BY <1>4, <2>1
    <3>q. QED
      BY <2>5, <3>1, UnholdData
  <2>4. x \in Frame => s.page[x].ref # 0
    <3>1. x \in Frame => FrameOK(s, H, x, x) /\ Cardinality(Maps(s.pte, x)) \in Nat
      BY GoodFrame
    <3>q. QED
      BY <3>1 DEF FrameOK
  <2>q. QED
    BY <1>0, <2>3, <2>4 DEF Stays, Vacant
<1>q. QED
  BY <1>1, <1>2, <1>3, <1>4, PteFacts

\* The entry of m maps f from now on.  If it can write, nobody else may have f;
\* otherwise nobody else may write to f.
Admits(s, m, f, w) ==
    \A k \in Mm : k # m => ~MayWrite(s, k, f) /\ (w => ~Reaches(s, k, f))

\* The entry of m said that f is dirty, and will not say so any longer.
Lost(s, m, f) ==
    {g \in Frame : g = f /\ s.pte[m].kind = "present" /\ s.pte[m].page = f /\ s.pte[m].D}

LEMMA EntryData ==
    ASSUME NEW U, NEW s, NEW m \in Mm, NEW f \in Frame, NEW w \in BOOLEAN, NEW t, NEW r,
           EntryPut(s, r, m, t), Maps1(t, f, w), Admits(s, m, f, w), Exclusive(s), Clean(s, U),
           s.pte[m].kind = "invalid" \/ (s.pte[m].kind = "present" /\ s.pte[m].page = f)
    PROVE  Exclusive(r) /\ Clean(r, U \cup Lost(s, m, f)) /\ Keeps(s, r, m)
<1>1. /\ r.page = s.page /\ r.disk = s.disk /\ \A k \in Mm : k # m => r.pte[k] = s.pte[k]
      /\ r.pte[m].kind = "present" /\ r.pte[m].page = f /\ r.pte[m].W = w /\ r.pte[m].D = FALSE
  BY DEF EntryPut, Maps1
<1>2. Exclusive(r)
  <2> SUFFICES ASSUME NEW a \in Mm, NEW b \in Mm, NEW g \in Frame, MayWrite(r, a, g), b # a,
                      Reaches(r, b, g)
               PROVE  FALSE
    BY DEF Exclusive
  <2>1. CASE a = m
    <3>1. w /\ g = f /\ Reaches(s, b, f)
      BY <1>1, <2>1 DEF MayWrite, Reaches
    <3>q. QED
      BY <2>1, <3>1 DEF Admits
  <2>2. CASE b = m
    <3>1. g = f /\ MayWrite(s, a, f)
      BY <1>1, <2>2 DEF MayWrite, Reaches
    <3>q. QED
      BY <2>2, <3>1 DEF Admits
  <2>3. CASE a # m /\ b # m
    <3>1. MayWrite(s, a, g) /\ Reaches(s, b, g)
      BY <1>1, <2>3 DEF MayWrite, Reaches
    <3>q. QED
      BY <3>1 DEF Exclusive
  <2>q. QED
    BY <2>1, <2>2, <2>3
<1>3. Clean(r, U \cup Lost(s, m, f))
  <2> SUFFICES ASSUME NEW g \in Frame, g \notin U, g \notin Lost(s, m, f),
                      r.page[g].index # NoSlot, ~r.page[g].dirty,
                      \A k \in Mm : r.pte[k].kind = "present" /\ r.pte[k].page = g => ~r.pte[k].D
               PROVE  r.disk[r.page[g].index] = r.page[g].data
    BY DEF Clean
  <2>1. s.pte[m].kind = "present" /\ s.pte[m].page = g => ~s.pte[m].D
    BY DEF Lost
  <2>2. \A k \in Mm : s.pte[k].kind = "present" /\ s.pte[k].page = g => ~s.pte[k].D
    BY <1>1, <2>1
  <2>3. s.page[g].index # NoSlot /\ ~s.page[g].dirty
    BY <1>1
  <2>4. s.disk[s.page[g].index] = s.page[g].data
    BY <2>2, <2>3 DEF Clean
  <2>q. QED
    BY <1>1, <2>4
<1>5. ASSUME NEW k \in Mm, k # m PROVE Undisturbed(s, r, k)
  BY <1>1, <1>5 DEF Undisturbed, OnlyOnDisk
<1>q. QED
  BY <1>2, <1>3, <1>5, UndisturbedKeeps

\* The page f with the content d has been mapped for m.
Placed(s, r, m, f, d, U) ==
    /\ Exclusive(r) /\ Clean(r, U \cup Lost(s, m, f)) /\ Keeps(s, r, m)
    /\ r.page[f].data = d

LEMMA InsertData ==
    ASSUME NEW U, NEW s, NEW H, NEW m \in Mm, NEW f \in Frame, NEW w \in BOOLEAN, NEW r,
           Good(s, H, NoFrame), InsertSteps(s, r, m, f, w, H),
           Admits(s, m, f, w), Exclusive(s), Clean(s, U)
    PROVE  Placed(s, r, m, f, s.page[f].data, U)
<1>1. PICK t \in Pte :
        /\ Maps1(t, f, w)
        /\ \/ s.pte[m].kind = "present" /\ s.pte[m].page = f /\ EntryPut(s, r, m, t)
           \/ /\ ~(s.pte[m].kind = "present" /\ s.pte[m].page = f)
              /\ \E u, v : /\ Counted(s, u, f) /\ Good(u, H \ {f}, f)
                           /\ v = page_remove_pte(u, m) /\ EntryPut(v, r, m, t)
  BY DEF InsertSteps
<1>2. CASE s.pte[m].kind = "present" /\ s.pte[m].page = f /\ EntryPut(s, r, m, t)
  <2>1. Exclusive(r) /\ Clean(r, U \cup Lost(s, m, f)) /\ Keeps(s, r, m)
    BY <1>1, <1>2, EntryData
  <2>q. QED
    BY <1>2, <2>1 DEF Placed, EntryPut
<1>3. ASSUME ~(s.pte[m].kind = "present" /\ s.pte[m].page = f), NEW u, NEW v,
             Counted(s, u, f), Good(u, H \ {f}, f), v = page_remove_pte(u, m), EntryPut(v, r, m, t)
      PROVE  Placed(s, r, m, f, s.page[f].data, U)
  <2>1. PICK G : G = H \ {f}
    OBVIOUS
  <2>2. Good(u, G, f)
    BY <1>3, <2>1, Zenon
  <2>3. Alike(s, u)
    BY <1>3 DEF Counted, Alike
  <2>4. Exclusive(u) /\ Clean(u, U) /\ Keeps(s, u, m)
    BY <2>3, AlikeData
  <2>5. u.pte[m].kind = "present" => u.pte[m].page # f
    BY <1>3 DEF Counted
  <2>6. /\ Exclusive(v) /\ Clean(v, U) /\ Keeps(u, v, m) /\ v.page[f] = u.page[f]
    BY <1>3, <2>2, <2>4, <2>5, RemoveData
  <2>7. /\ v.pte[m].kind = "invalid" /\ \A k \in Mm : k # m => v.pte[k] = s.pte[k]
    <3>1. /\ Good(v, G, f) /\ v.pte[m] = Invalid
          /\ \A k \in Mm : k # m => v.pte[k] = u.pte[k]
      BY <1>3, <2>2, <2>5, RemoveGood
    <3>q. QED
      BY <1>3, <3>1, PteKinds DEF Counted
  <2>8. v.page[f].data = s.page[f].data /\ v.page[f].index = s.page[f].index
    BY <1>3, <2>6 DEF Counted
  <2>9. Admits(v, m, f, w)
    BY <2>7, <2>8 DEF Admits, MayWrite, Reaches
  <2>10. Exclusive(r) /\ Clean(r, U \cup Lost(v, m, f)) /\ Keeps(v, r, m)
    BY <1>1, <1>3, <2>6, <2>7, <2>9, EntryData
  <2>12. Lost(v, m, f) = {} /\ Lost(s, m, f) = {}
    BY <1>3, <2>7 DEF Lost
  <2>11. Keeps(s, r, m)
    BY <2>4, <2>6, <2>10 DEF Keeps
  <2>q. QED
    BY <1>3, <2>8, <2>10, <2>11, <2>12 DEF Placed, EntryPut
<1>q. QED
  BY <1>1, <1>2, <1>3

-----------------------------------------------------------------------------
(* The end of do_pgfault                                                    *)

\* The access w can be made.
Ready(s, m, w, U) ==
    Exclusive(s) /\ Clean(s, U) /\ s.pte[m].kind = "present" /\ (w => s.pte[m].W)

After(w, v) == IF w THEN (v + 1) % (MaxData + 1) ELSE v

\* m has made the access w and nobody else sees it.
Stepped(s, r, m, w, U) ==
    /\ Exclusive(r) /\ Clean(r, U) /\ Keeps(s, r, m)
    /\ \A v : Reads(s, m, v) => Reads(r, m, After(w, v))

LEMMA TouchData ==
    ASSUME NEW U, NEW s, NEW H, NEW m \in Mm, NEW w \in BOOLEAN, NEW r, Good(s, H, NoFrame),
           Touched(s, r, m, w), Ready(s, m, w, U)
    PROVE  Stepped(s, r, m, w, U)
<1>1. Coherent(s, H)
  BY GoodCoherent
<1>2. PICK f \in Frame : /\ f = s.pte[m].page /\ s.pte[m].W \in BOOLEAN /\ s.pte[m].D \in BOOLEAN
                         /\ s.pte[m].kind = "present"
  BY MappedFrame DEF Ready
<1>3. /\ r.pte[m].kind = "present" /\ r.pte[m].page = f /\ r.pte[m].W = s.pte[m].W
      /\ r.pte[m].D = (s.pte[m].D \/ w)
  <2>1. PICK d \in BOOLEAN : d = (s.pte[m].D \/ w)
    OBVIOUS
  <2>2. r.pte[m] = Present(f, s.pte[m].W, d)
    BY <1>2, <2>1 DEF Touched
  <2>q. QED
    BY <1>2, <2>1, <2>2, PteKinds
<1>4. /\ \A k \in Mm : k # m => r.pte[k] = s.pte[k]
      /\ \A g \in Frame : r.page[g].index = s.page[g].index /\ r.page[g].dirty = s.page[g].dirty
      /\ r.disk = s.disk
      /\ \A g \in Frame : ~w \/ g # f => r.page[g].data = s.page[g].data
      /\ w => r.page[f].data = (s.page[f].data + 1) % (MaxData + 1)
  BY <1>2 DEF Touched, SameCounts
<1>5. \A k \in Mm, g \in Frame : /\ Reaches(r, k, g) <=> Reaches(s, k, g)
                                 /\ MayWrite(r, k, g) <=> MayWrite(s, k, g)
  BY <1>2, <1>3, <1>4 DEF Reaches, MayWrite
<1>6. Exclusive(r)
  BY <1>5 DEF Exclusive, Ready
<1>7. Clean(r, U)
  <2> SUFFICES ASSUME NEW g \in Frame, g \notin U, r.page[g].index # NoSlot, ~r.page[g].dirty,
                      \A k \in Mm : r.pte[k].kind = "present" /\ r.pte[k].page = g => ~r.pte[k].D
               PROVE  r.disk[r.page[g].index] = r.page[g].data
    BY DEF Clean
  <2>1. g = f => ~w
    BY <1>3
  <2>2. \A k \in Mm : s.pte[k].kind = "present" /\ s.pte[k].page = g => ~s.pte[k].D
    BY <1>2, <1>3, <1>4
  <2>3. s.page[g].index # NoSlot /\ ~s.page[g].dirty
    BY <1>4
  <2>4. s.disk[s.page[g].index] = s.page[g].data
    BY <2>2, <2>3 DEF Ready, Clean
  <2>q. QED
    BY <1>4, <2>1, <2>4
<1>8. ASSUME NEW k \in Mm, k # m PROVE Undisturbed(s, r, k)
  <2>1. OnlyOnDisk(s, s.pte[k].entry) => OnlyOnDisk(r, s.pte[k].entry)
    BY <1>4 DEF OnlyOnDisk
  <2>2. w => ~Reaches(s, k, f)
    BY <1>2, <1>8 DEF Exclusive, Ready, MayWrite
  <2>3. s.pte[k].kind = "present" => r.page[s.pte[k].page].data = s.page[s.pte[k].page].data
    BY <1>1, <1>4, <2>2 DEF Coherent, Reaches
  <2>4. s.pte[k].kind = "swap" => \A g \in Frame : s.page[g].index = s.pte[k].entry =>
            r.page[g].index = s.pte[k].entry /\ r.page[g].data = s.page[g].data
    BY <1>4, <2>2 DEF Reaches
  <2>q. QED
    BY <1>4, <1>8, <2>1, <2>3, <2>4 DEF Undisturbed
<1>9. ASSUME NEW v, Reads(s, m, v) PROVE Reads(r, m, After(w, v))
  <2>1. v = s.page[f].data
    BY <1>2, <1>9 DEF Reads
  <2>2. r.page[f].data = After(w, v)
    BY <1>4, <2>1 DEF After
  <2>q. QED
    BY <1>3, <2>2 DEF Reads
<1>q. QED
  BY <1>6, <1>7, <1>8, <1>9, UndisturbedKeeps DEF Stepped

LEMMA InsertFreeData ==
    ASSUME NEW U, NEW s, NEW H, NEW m \in Mm, NEW f \in Frame, NEW n \in H, NEW w \in BOOLEAN, NEW r,
           Good(s, H, NoFrame), f \notin s.free, f \notin H,
           r = free_page(page_insert(s, m, f, w), n),
           Admits(s, m, f, w), Exclusive(s), Clean(s, U)
    PROVE  Placed(s, r, m, f, s.page[f].data, U) /\ Installed(s, r, m, f, w)
<1>1. PICK u : u = page_insert(s, m, f, w)
  OBVIOUS
<1>2. Good(u, H \ {f}, NoFrame)
  BY <1>1, InsertGood
<1>0. Installed(s, r, m, f, w)
  <2>1. Good(r, H \ {n}, NoFrame) /\ Installed(s, r, m, f, w)
    BY InsertFreeGood
  <2>q. QED
    BY <2>1
<1>3. H \ {f} = H
  OBVIOUS
<1>4. Good(u, H, NoFrame)
  BY <1>2, <1>3, Zenon
<1>5. InsertSteps(s, u, m, f, w, H)
  BY <1>1, InsertEffect
<1>6. Placed(s, u, m, f, s.page[f].data, U)
  BY <1>5, InsertData
<1>7. u \in Mem /\ n \in Frame /\ Coherent(u, H)
  BY <1>4, GoodCoherent DEF Good
<1>8. Freed(u, free_page(u, n), n) /\ free_page(u, n) = r
  BY <1>1, <1>7, FreeEffect
<1>9. Idle(u, r, n)
  BY <1>7, <1>8 DEF Freed, Idle, Coherent
<1>10. Exclusive(r) /\ Clean(r, U \cup Lost(s, m, f)) /\ Keeps(u, r, m)
  <2>1. PICK V : V = U \cup Lost(s, m, f)
    OBVIOUS
  <2>2. Exclusive(u) /\ Clean(u, V)
    BY <1>6, <2>1 DEF Placed
  <2>3. Exclusive(r) /\ Clean(r, V) /\ Keeps(u, r, m)
    BY <1>4, <1>9, <2>2, IdleData
  <2>q. QED
    BY <2>1, <2>3
<1>11. Keeps(s, r, m)
  BY <1>6, <1>10 DEF Keeps, Placed
<1>12. r.page[f] = u.page[f]
  BY <1>9 DEF Idle
<1>q. QED
  BY <1>0, <1>6, <1>10, <1>11, <1>12 DEF Placed

LEMMA CopyData ==
    ASSUME NEW U, NEW s, NEW H, NEW m \in Mm, NEW d \in 0 .. MaxData, NEW n \in H, NEW r,
           Good(s, H, NoFrame), r = page_insert(Filled(s, n, d), m, n, TRUE),
           Exclusive(s), Clean(s, U)
    PROVE  Placed(s, r, m, n, d, U) /\ Installed(s, r, m, n, TRUE)
<1>1. s \in Mem /\ n \in Frame /\ FrameOK(s, H, NoFrame, n) /\ Coherent(s, H)
  BY GoodCoherent DEF Good
<1>2. PICK u : u = Filled(s, n, d)
  OBVIOUS
<1>3. PICK a \in Page : SameCounts(s.page[n], a) /\ a.data = d /\ PagePut(s, u, n, a)
  BY <1>1, <1>2, DataEffect DEF Filled
<1>4. Good(u, H, NoFrame)
  BY <1>1, <1>3, SamePageGood
<1>5. n \notin u.free /\ u.pte = s.pte /\ u.page[n].data = d
  BY <1>1, <1>3 DEF FrameOK, PagePut
<1>6. PICK w \in BOOLEAN : w = TRUE
  OBVIOUS
<1>7. PICK g \in Frame : g = n
  BY <1>1
<1>8. r = page_insert(u, m, g, w)
  BY <1>2, <1>6, <1>7, Zenon
<1>9. InsertSteps(u, r, m, g, w, H)
  <2>1. PICK q : q = page_insert(u, m, g, w)
    OBVIOUS
  <2>2. InsertSteps(u, q, m, g, w, H)
    BY <1>4, <1>5, <1>7, <2>1, InsertEffect
  <2>q. QED
    BY <1>8, <2>1, <2>2, Zenon
<1>10. Idle(s, u, n)
  BY <1>1, <1>3 DEF PagePut, SameCounts, Idle, Coherent
<1>11. Exclusive(u) /\ Clean(u, U) /\ Keeps(s, u, m)
  BY <1>10, IdleData
<1>12. Admits(u, m, g, w)
  <2>1. Coherent(u, H)
    BY <1>4, GoodCoherent
  <2>q. QED
    BY <1>1, <1>7, <2>1 DEF Admits, MayWrite, Reaches, Coherent
<1>13. Placed(u, r, m, g, u.page[g].data, U)
  BY <1>4, <1>9, <1>11, <1>12, InsertData
<1>14. Keeps(s, r, m)
  BY <1>11, <1>13 DEF Keeps, Placed
<1>15. Placed(s, r, m, n, d, U)
  <2>1. Lost(u, m, g) = Lost(s, m, n)
    BY <1>5, <1>7 DEF Lost
  <2>q. QED
    BY <1>5, <1>7, <1>13, <1>14, <2>1 DEF Placed
<1>q. QED
  BY <1>15, CopyGood

\* Not shared: whoever finds the page has it alone.
LEMMA AloneAdmits ==
    ASSUME NEW s, NEW H, NEW m \in Mm, NEW f \in Frame, NEW w \in BOOLEAN, Good(s, H, NoFrame),
           Reaches(s, m, f), ~Shared(s, f)
    PROVE  Admits(s, m, f, w)
<1>1. Coherent(s, H) /\ s \in Mem
  BY GoodCoherent DEF Good
<1>2. s.page[f].ref \in Nat /\ f # NoFrame
  BY <1>1, PageFacts
<1>3. CASE s.pte[m].kind = "present" /\ s.pte[m].page = f
  <2>1. s.page[f].ref # 0
    BY <1>1, <1>3 DEF Coherent
  <2>2. s.page[f].index # NoSlot => s.mem_map[s.page[f].index] \in {0, UNUSED}
    <3>1. ASSUME s.page[f].index # NoSlot PROVE s.mem_map[s.page[f].index] \in {0, UNUSED}
      <4>1. PICK c : c = s.mem_map[s.page[f].index]
        OBVIOUS
      <4>2. c \in Nat \cup {UNUSED}
        BY <1>1, <3>1, <4>1 DEF Coherent, Mem
      <4>3. ~(s.page[f].ref + c > 1)
        BY <3>1, <4>1 DEF Shared, swap_page_count, PageSwap
      <4>q. QED
        BY <1>2, <2>1, <4>1, <4>2, <4>3
    <3>q. QED
      BY <3>1
  <2>3. s.page[f].ref = 1
    <3>1. CASE s.page[f].index = NoSlot
      <4>1. ~(s.page[f].ref + 0 > 1)
        BY <3>1 DEF Shared, swap_page_count, PageSwap
      <4>q. QED
        BY <1>2, <2>1, <4>1
    <3>2. CASE s.page[f].index # NoSlot
      <4>1. PICK e \in Slot : e = s.page[f].index
        BY <1>1, <3>2 DEF Coherent
      <4>2. s.mem_map[e] = 0
        <5>1. EntryOK(s, e) /\ f \in swap_hash_find(s, e)
          BY <4>1 DEF Good, swap_hash_find
        <5>q. QED
          BY <2>2, <3>2, <4>1, <5>1 DEF EntryOK
      <4>3. ~(s.page[f].ref + 0 > 1)
        BY <3>2, <4>1, <4>2 DEF Shared, swap_page_count, PageSwap
      <4>q. QED
        BY <1>2, <2>1, <4>3
    <3>q. QED
      BY <3>1, <3>2
  <2>4. ASSUME NEW k \in Mm, k # m PROVE ~Reaches(s, k, f)
    <3>1. ~(s.pte[k].kind = "present" /\ s.pte[k].page = f)
      BY <1>2, <1>3, <2>3, <2>4, OnlyMapper
    <3>2. ~(s.pte[k].kind = "swap" /\ s.pte[k].entry = s.page[f].index)
      BY <1>1, <2>2 DEF Coherent
    <3>q. QED
      BY <3>1, <3>2 DEF Reaches
  <2>q. QED
    BY <2>4 DEF Admits, MayWrite, Reaches
<1>4. CASE s.pte[m].kind = "swap" /\ s.pte[m].entry = s.page[f].index
  <2>1. PICK e \in Slot : e = s.page[f].index /\ e # NoSlot /\ s.pte[m].entry = e
    BY <1>1, <1>4 DEF Coherent
  <2>2. s.mem_map[e] \in Nat /\ s.mem_map[e] # 0
    BY <1>4, <2>1, HeldEntry
  <2>3. ~(s.page[f].ref + s.mem_map[e] > 1)
    BY <2>1 DEF Shared, swap_page_count, PageSwap
  <2>4. s.page[f].ref = 0 /\ s.mem_map[e] = 1
    BY <1>2, <2>2, <2>3
  <2>5. ASSUME NEW k \in Mm, k # m PROVE ~Reaches(s, k, f)
    <3>1. ~(s.pte[k].kind = "present" /\ s.pte[k].page = f)
      BY <1>1, <2>4 DEF Coherent
    <3>2. ~(s.pte[k].kind = "swap" /\ s.pte[k].entry = e)
      BY <1>4, <2>1, <2>4, <2>5, OnlyHolder
    <3>q. QED
      BY <2>1, <3>1, <3>2 DEF Reaches
  <2>q. QED
    BY <2>5 DEF Admits, MayWrite, Reaches
<1>q. QED
  BY <1>3, <1>4 DEF Reaches

\* The pages to which somebody may write again, without the dirty bit
Relapsed(s, r) ==
    {f \in Frame : \E m \in Mm : /\ s.pte[m] = Present(f, FALSE, TRUE)
                                 /\ r.pte[m] = Present(f, TRUE, FALSE)}

\* m has its page back, and everybody reads what they have read before.
Restored(s, r, U) ==
    Exclusive(r) /\ Clean(r, U \cup Relapsed(s, r)) /\ Keeps(s, r, NoMm)

LEMMA PlacedRestored ==
    ASSUME NEW U, NEW s, NEW H, NEW r, NEW G, NEW m \in Mm, NEW f \in Frame, NEW d,
           NEW w \in BOOLEAN, Good(s, H, NoFrame), Good(r, G, NoFrame), Placed(s, r, m, f, d, U), Installed(s, r, m, f, w),
           s.pte[m].kind = "present" => w /\ ~s.pte[m].W, \A v : Reads(s, m, v) => v = d
    PROVE  Restored(s, r, U)
<1>1. Lost(s, m, f) \subseteq Relapsed(s, r)
  <2> SUFFICES ASSUME s.pte[m].kind = "present", s.pte[m].page = f, s.pte[m].D
               PROVE  f \in Relapsed(s, r)
    BY DEF Lost
  <2>1. s.pte[m] \in Pte
    BY DEF Good, Mem
  <2>2. s.pte[m] = Present(f, FALSE, TRUE)
    BY <2>1, PteFacts DEF Present
  <2>3. r.pte[m] = Present(f, TRUE, FALSE)
    <3>1. r.pte[m] \in Pte
      BY DEF Good, Mem
    <3>2. r.pte[m].kind = "present" /\ r.pte[m].page = f /\ r.pte[m].W = TRUE /\ r.pte[m].D = FALSE
      BY DEF Installed
    <3>q. QED
      BY <3>1, <3>2, PteFacts DEF Present
  <2>q. QED
    BY <2>2, <2>3 DEF Relapsed
<1>2. Clean(r, U \cup Relapsed(s, r))
  BY <1>1 DEF Placed, Clean
<1>3. ASSUME NEW v, Reads(s, m, v) PROVE Reads(r, m, v)
  <2>1. v = r.page[r.pte[m].page].data /\ r.pte[m].kind = "present"
    BY <1>3 DEF Placed, Installed
  <2>q. QED
    BY <2>1 DEF Reads
<1>q. QED
  BY <1>2, <1>3 DEF Restored, Placed, Keeps

LEMMA ReachedReads ==
    ASSUME NEW s, NEW H, NEW x, NEW m \in Mm, NEW f \in Frame, NEW v, Good(s, H, x),
           Reaches(s, m, f), Reads(s, m, v)
    PROVE  v = s.page[f].data
<1>1. Coherent(s, H)
  BY GoodCoherent
<1>2. CASE s.pte[m].kind = "present" /\ s.pte[m].page = f
  BY <1>2 DEF Reads
<1>3. CASE s.pte[m].kind = "swap" /\ s.pte[m].entry = s.page[f].index
  <2>1. s.page[f].index # NoSlot
    BY <1>1, <1>3 DEF Coherent
  <2>2. ~OnlyOnDisk(s, s.pte[m].entry)
    BY <1>3 DEF OnlyOnDisk
  <2>3. PICK g \in Frame : s.page[g].index = s.pte[m].entry /\ v = s.page[g].data
    BY <1>3, <2>2 DEF Reads
  <2>4. g = f
    BY <1>1, <1>3, <2>1, <2>3 DEF Coherent
  <2>q. QED
    BY <2>3, <2>4
<1>q. QED
  BY <1>2, <1>3 DEF Reaches

\* The page f is the one that the entry of p's address space leads to.
LEMMA MapPageData ==
    ASSUME NEW U, NEW s, NEW H, NEW p \in Proc, NEW m \in Mm, NEW c \in BOOLEAN, NEW f \in Frame,
           NEW n \in H, NEW r, m = mm[p], c = write[p], Good(s, H, NoFrame),
           f \notin s.free, f \notin H, r = MapPage(s, p, f, n), Reaches(s, m, f),
           s.pte[m].kind = "present" => c /\ ~s.pte[m].W, Exclusive(s), Clean(s, U)
    PROVE  Restored(s, r, U)
<1>1. s \in Mem /\ Coherent(s, H)
  BY GoodCoherent DEF Good
<1>2. PICK d \in 0 .. MaxData : d = s.page[f].data
  BY <1>1, PageFacts
<1>3. \A v : Reads(s, m, v) => v = d
  BY <1>2, ReachedReads
<1>4. \/ s.pte[m].kind = "swap" /\ ~c /\ r = free_page(page_insert(s, m, f, FALSE), n)
      \/ /\ r = page_insert(Filled(s, n, s.page[f].data), m, n, TRUE)
         /\ ~(s.pte[m].kind = "swap" /\ ~c)
      \/ /\ ~Shared(s, f) /\ ~(s.pte[m].kind = "swap" /\ ~c)
         /\ r = free_page(page_insert(s, m, f, TRUE), n)
  BY Zenon DEF MapPage, Filled
<1>6. PICK G : Good(r, G, NoFrame)
  <2>1. Good(r, H \ {n}, NoFrame) /\ Mapped(s, r, mm[p])
    BY MapPageGood
  <2>q. QED
    BY <2>1
<1>5. ASSUME NEW w \in BOOLEAN, r = free_page(page_insert(s, m, f, w), n), Admits(s, m, f, w),
             c => w
      PROVE  Restored(s, r, U)
  <2>1. PICK q : q = free_page(page_insert(s, m, f, w), n)
    OBVIOUS
  <2>2. Placed(s, q, m, f, s.page[f].data, U) /\ Installed(s, q, m, f, w)
    BY <1>5, <2>1, InsertFreeData
  <2>3. Placed(s, r, m, f, d, U) /\ Installed(s, r, m, f, w)
    BY <1>2, <1>5, <2>1, <2>2, Zenon
  <2>q. QED
    BY <1>3, <1>5, <1>6, <2>3, PlacedRestored
<1>7. CASE s.pte[m].kind = "swap" /\ ~c /\ r = free_page(page_insert(s, m, f, FALSE), n)
  <2>1. PICK w \in BOOLEAN : w = FALSE
    OBVIOUS
  <2>2. Admits(s, m, f, w)
    BY <2>1 DEF Admits, Exclusive
  <2>3. r = free_page(page_insert(s, m, f, w), n)
    BY <1>7, <2>1, Zenon
  <2>q. QED
    BY <1>5, <1>7, <2>2, <2>3
<1>8. CASE /\ ~Shared(s, f) /\ ~(s.pte[m].kind = "swap" /\ ~c)
           /\ r = free_page(page_insert(s, m, f, TRUE), n)
  <2>1. PICK w \in BOOLEAN : w = TRUE
    OBVIOUS
  <2>2. Admits(s, m, f, w)
    BY <1>8, AloneAdmits
  <2>3. r = free_page(page_insert(s, m, f, w), n)
    BY <1>8, <2>1, Zenon
  <2>q. QED
    BY <1>5, <2>1, <2>2, <2>3
<1>9. CASE /\ r = page_insert(Filled(s, n, s.page[f].data), m, n, TRUE)
           /\ ~(s.pte[m].kind = "swap" /\ ~c)
  <2>1. PICK q : q = page_insert(Filled(s, n, d), m, n, TRUE)
    OBVIOUS
  <2>2. Placed(s, q, m, n, d, U) /\ Installed(s, q, m, n, TRUE)
    BY <2>1, CopyData
  <2>3. PICK w \in BOOLEAN : w = TRUE
    OBVIOUS
  <2>4. PICK g \in Frame : g = n
    BY DEF Good
  <2>5. Placed(s, r, m, g, d, U) /\ Installed(s, r, m, g, w) /\ (c => w)
    BY <1>2, <1>9, <2>1, <2>2, <2>3, <2>4, Zenon
  <2>q. QED
    BY <1>3, <1>6, <2>5, PlacedRestored
<1>q. QED
  BY <1>4, <1>7, <1>8, <1>9

-----------------------------------------------------------------------------
(* copy_range                                                               *)

\* n has become a copy of m, for all that they and others read.
Copied(s, r, m, n, U) ==
    /\ Exclusive(r) /\ Clean(r, U) /\ Keeps(s, r, n)
    /\ \A v : Reads(s, m, v) => Reads(r, n, v)

LEMMA ShareEntryData ==
    ASSUME NEW U, NEW s, NEW m \in Mm, NEW n \in Mm, NEW e \in Slot, NEW u, NEW r, m # n,
           s.pte[n].kind = "invalid", s.pte[m].kind = "swap", s.pte[m].entry = e,
           MapPut(s, u, e, s.mem_map[e] + 1), EntryPut(u, r, n, SwapEntry(e)),
           Exclusive(s), Clean(s, U)
    PROVE  Copied(s, r, m, n, U)
<1>1. /\ r.page = s.page /\ r.disk = s.disk /\ \A k \in Mm : k # n => r.pte[k] = s.pte[k]
      /\ r.pte[n].kind = "swap" /\ r.pte[n].entry = e
  BY PteKinds DEF MapPut, EntryPut
<1>2. Exclusive(r)
  <2> SUFFICES ASSUME NEW a \in Mm, NEW b \in Mm, NEW g \in Frame, MayWrite(r, a, g), b # a,
                      Reaches(r, b, g)
               PROVE  FALSE
    BY DEF Exclusive
  <2>1. a # n /\ MayWrite(s, a, g) /\ a # m
    BY <1>1 DEF MayWrite
  <2>2. CASE b = n
    <3>1. Reaches(s, m, g)
      BY <1>1, <2>2 DEF Reaches
    <3>q. QED
      BY <2>1, <3>1 DEF Exclusive
  <2>3. CASE b # n
    <3>1. Reaches(s, b, g)
      BY <1>1, <2>3 DEF Reaches
    <3>q. QED
      BY <2>1, <3>1 DEF Exclusive
  <2>q. QED
    BY <2>2, <2>3
<1>3. Clean(r, U)
  <2> SUFFICES ASSUME NEW g \in Frame, g \notin U, r.page[g].index # NoSlot, ~r.page[g].dirty,
                      \A k \in Mm : r.pte[k].kind = "present" /\ r.pte[k].page = g => ~r.pte[k].D
               PROVE  r.disk[r.page[g].index] = r.page[g].data
    BY DEF Clean
  <2>1. \A k \in Mm : s.pte[k].kind = "present" /\ s.pte[k].page = g => ~s.pte[k].D
    BY <1>1
  <2>2. s.disk[s.page[g].index] = s.page[g].data
    BY <1>1, <2>1 DEF Clean
  <2>q. QED
    BY <1>1, <2>2
<1>4. ASSUME NEW k \in Mm, k # n PROVE Undisturbed(s, r, k)
  BY <1>1, <1>4 DEF Undisturbed, OnlyOnDisk
<1>5. ASSUME NEW v, Reads(s, m, v) PROVE Reads(r, n, v)
  BY <1>1, <1>5 DEF Reads, OnlyOnDisk
<1>q. QED
  BY <1>2, <1>3, <1>4, <1>5, UndisturbedKeeps DEF Copied

LEMMA SharePageData ==
    ASSUME NEW U, NEW s, NEW H, NEW m \in Mm, NEW n \in Mm, NEW f \in Frame, NEW t \in Pte,
           NEW w \in BOOLEAN, NEW u, NEW r, m # n,
           s.pte[n].kind = "invalid", s.pte[m].kind = "present", s.pte[m].page = f,
           t.kind = "present", t.page = f, t.W = FALSE, t.D = s.pte[m].D, w = FALSE,
           EntryPut(s, u, m, t), Good(u, H, NoFrame), InsertSteps(u, r, n, f, w, H),
           Installed(u, r, n, f, w), Exclusive(s), Clean(s, U)
    PROVE  Copied(s, r, m, n, U)
<1>1. /\ u.page = s.page /\ u.disk = s.disk /\ \A k \in Mm : k # m => u.pte[k] = s.pte[k]
      /\ u.pte[m] = t
  BY DEF EntryPut
<1>2. Exclusive(u)
  <2>1. \A k \in Mm, g \in Frame : /\ MayWrite(u, k, g) => MayWrite(s, k, g)
                                   /\ Reaches(u, k, g) => Reaches(s, k, g)
    BY <1>1 DEF MayWrite, Reaches
  <2>q. QED
    BY <2>1 DEF Exclusive
<1>3. Clean(u, U)
  <2> SUFFICES ASSUME NEW g \in Frame, g \notin U, u.page[g].index # NoSlot, ~u.page[g].dirty,
                      \A k \in Mm : u.pte[k].kind = "present" /\ u.pte[k].page = g => ~u.pte[k].D
               PROVE  u.disk[u.page[g].index] = u.page[g].data
    BY DEF Clean
  <2>1. \A k \in Mm : s.pte[k].kind = "present" /\ s.pte[k].page = g => ~s.pte[k].D
    BY <1>1
  <2>2. s.disk[s.page[g].index] = s.page[g].data
    BY <1>1, <2>1 DEF Clean
  <2>q. QED
    BY <1>1, <2>2
<1>4. Keeps(s, u, n)
  <2>1. ASSUME NEW k \in Mm, NEW v, Reads(s, k, v) PROVE Reads(u, k, v)
    <3>1. CASE k = m
      BY <1>1, <2>1, <3>1 DEF Reads
    <3>2. CASE k # m
      BY <1>1, <2>1, <3>2 DEF Reads, OnlyOnDisk
    <3>q. QED
      BY <3>1, <3>2
  <2>q. QED
    BY <2>1 DEF Keeps
<1>5. Admits(u, n, f, w)
  <2>1. ASSUME NEW k \in Mm, k # n PROVE ~MayWrite(u, k, f)
    <3>1. CASE k = m
      BY <1>1, <3>1 DEF MayWrite
    <3>2. CASE k # m
      <4>1. Reaches(s, m, f)
        BY DEF Reaches
      <4>2. MayWrite(u, k, f) => MayWrite(s, k, f)
        BY <1>1, <3>2 DEF MayWrite
      <4>q. QED
        BY <3>2, <4>1, <4>2 DEF Exclusive
    <3>q. QED
      BY <3>1, <3>2
  <2>q. QED
    BY <2>1 DEF Admits
<1>6. Placed(u, r, n, f, u.page[f].data, U)
  BY <1>2, <1>3, <1>5, InsertData
<1>7. Exclusive(r) /\ Clean(r, U) /\ Keeps(u, r, n) /\ r.page[f].data = s.page[f].data
  <2>1. Lost(u, n, f) = {}
    BY <1>1 DEF Lost
  <2>q. QED
    BY <1>1, <1>6, <2>1 DEF Placed
<1>8. Keeps(s, r, n)
  BY <1>4, <1>7 DEF Keeps
<1>9. ASSUME NEW v, Reads(s, m, v) PROVE Reads(r, n, v)
  <2>1. v = s.page[f].data
    BY <1>9 DEF Reads
  <2>2. r.pte[n].kind = "present" /\ r.pte[n].page = f
    BY DEF Installed
  <2>q. QED
    BY <1>7, <2>1, <2>2 DEF Reads
<1>q. QED
  BY <1>7, <1>8, <1>9 DEF Copied

LEMMA CopyRangeData ==
    ASSUME NEW U, NEW s, NEW H, NEW m \in Mm, NEW n \in Mm, NEW r, Good(s, H, NoFrame), m # n,
           s.pte[n] = Invalid, CopySteps(s, r, m, n, H), Exclusive(s), Clean(s, U)
    PROVE  Copied(s, r, m, n, U)
<1>1. s.pte[n].kind = "invalid"
  BY PteKinds
<1>2. CASE s.pte[m].kind = "invalid" /\ r = s
  <2>1. \A v : Reads(s, m, v) => Reads(s, n, v)
    BY <1>1, <1>2 DEF Reads
  <2>q. QED
    BY <1>2, <2>1 DEF Copied, Keeps
<1>3. ASSUME NEW e \in Slot, NEW u, s.pte[m].kind = "swap", s.pte[m].entry = e,
             MapPut(s, u, e, s.mem_map[e] + 1), EntryPut(u, r, n, SwapEntry(e))
      PROVE  Copied(s, r, m, n, U)
  BY <1>1, <1>3, ShareEntryData
<1>4. ASSUME NEW f \in Frame, NEW t \in Pte, NEW w \in BOOLEAN, NEW u,
             s.pte[m].kind = "present", s.pte[m].page = f,
             t.kind = "present", t.page = f, t.W = FALSE, t.D = s.pte[m].D, w = FALSE,
             EntryPut(s, u, m, t), Good(u, H, NoFrame), InsertSteps(u, r, n, f, w, H)
      PROVE  Copied(s, r, m, n, U)
  <2>1. f \notin u.free
    <3>1. f \notin s.free
      BY <1>4, MappedFrame
    <3>q. QED
      BY <1>4, <3>1 DEF EntryPut
  <2>2. Installed(u, r, n, f, w)
    BY <1>4, <2>1, InsertStepsGood
  <2>q. QED
    BY <1>1, <1>4, <2>2, SharePageData
<1>q. QED
  BY <1>2, <1>3, <1>4 DEF CopySteps

-----------------------------------------------------------------------------
(* kswapd                                                                   *)

\* Nobody reads anything else.
Quiet(s, r, U) == Exclusive(r) /\ Clean(r, U) /\ Keeps(s, r, NoMm)

LEMMA VacateData ==
    ASSUME NEW U, NEW s, NEW H, NEW e \in Slot, NEW r, Good(s, H, NoFrame),
           s.mem_map[e] \in {0, UNUSED}, Vacated(s, r, e), Exclusive(s), Clean(s, U)
    PROVE  Quiet(s, r, U)
<1>1. Coherent(s, H)
  BY GoodCoherent
<1>2. /\ r.pte = s.pte
      /\ \A k \in Mm : s.pte[k].kind = "swap" => s.pte[k].entry # e /\ s.pte[k].entry \in Slot
      /\ \A g \in Frame : r.page[g].index # NoSlot =>
            r.page[g] = s.page[g] /\ s.page[g].index # e /\ s.page[g].index \in Slot
      /\ \A g \in Frame : s.page[g].index # e => r.page[g] = s.page[g]
      /\ \A i \in Slot : i # e => r.disk[i] = s.disk[i]
  BY <1>1 DEF Vacated, Coherent
<1>3. Exclusive(r)
  <2>1. \A k \in Mm, g \in Frame : /\ MayWrite(r, k, g) => MayWrite(s, k, g)
                                   /\ Reaches(r, k, g) => Reaches(s, k, g)
    BY <1>1, <1>2 DEF MayWrite, Reaches, Coherent
  <2>q. QED
    BY <2>1 DEF Exclusive
<1>4. Clean(r, U)
  <2> SUFFICES ASSUME NEW g \in Frame, g \notin U, r.page[g].index # NoSlot, ~r.page[g].dirty,
                      \A k \in Mm : r.pte[k].kind = "present" /\ r.pte[k].page = g => ~r.pte[k].D
               PROVE  r.disk[r.page[g].index] = r.page[g].data
    BY DEF Clean
  <2>1. \A k \in Mm : s.pte[k].kind = "present" /\ s.pte[k].page = g => ~s.pte[k].D
    BY <1>2
  <2>2. r.page[g] = s.page[g] /\ s.page[g].index # e /\ s.page[g].index \in Slot
    BY <1>2
  <2>3. s.disk[s.page[g].index] = s.page[g].data
    BY <2>1, <2>2 DEF Clean
  <2>q. QED
    BY <1>2, <2>2, <2>3
<1>5. ASSUME NEW k \in Mm PROVE Undisturbed(s, r, k)
  <2>1. s.pte[k].kind = "present" => r.page[s.pte[k].page].data = s.page[s.pte[k].page].data
    BY <1>1, <1>2 DEF Coherent, Vacated
  <2>2. s.pte[k].kind = "swap" => \A g \in Frame : s.page[g].index = s.pte[k].entry =>
            r.page[g].index = s.pte[k].entry /\ r.page[g].data = s.page[g].data
    BY <1>2
  <2>3. s.pte[k].kind = "swap" /\ OnlyOnDisk(s, s.pte[k].entry) =>
            OnlyOnDisk(r, s.pte[k].entry) /\ r.disk[s.pte[k].entry] = s.disk[s.pte[k].entry]
    BY <1>2 DEF OnlyOnDisk
  <2>q. QED
    BY <1>2, <2>1, <2>2, <2>3 DEF Undisturbed
<1>q. QED
  BY <1>3, <1>4, <1>5, UndisturbedKeeps DEF Quiet

LEMMA NewEntryData ==
    ASSUME NEW U, NEW s, NEW H, NEW f \in Frame, NEW e \in Slot, NEW r, Good(s, H, NoFrame),
           s.page[f].ref # 0, s.page[f].index = NoSlot, s.mem_map[e] = UNUSED,
           NewlyListed(s, r, f, e), Exclusive(s), Clean(s, U)
    PROVE  Quiet(s, r, U)
<1>1. Coherent(s, H)
  BY GoodCoherent
<1>2. /\ r.pte = s.pte /\ r.disk = s.disk
      /\ \A k \in Mm : s.pte[k].kind = "swap" => s.pte[k].entry # e /\ s.pte[k].entry \in Slot
      /\ \A g \in Frame : g # f => r.page[g] = s.page[g]
      /\ r.page[f].index = e /\ r.page[f].dirty /\ r.page[f].data = s.page[f].data
  BY <1>1 DEF NewlyListed, Coherent
<1>3. Exclusive(r)
  <2>1. \A k \in Mm, g \in Frame : /\ MayWrite(r, k, g) => MayWrite(s, k, g)
                                   /\ Reaches(r, k, g) => Reaches(s, k, g)
    BY <1>2 DEF MayWrite, Reaches
  <2>q. QED
    BY <2>1 DEF Exclusive
<1>4. Clean(r, U)
  BY <1>2 DEF Clean
<1>5. ASSUME NEW k \in Mm PROVE Undisturbed(s, r, k)
  <2>1. s.pte[k].kind = "swap" /\ OnlyOnDisk(s, s.pte[k].entry) => OnlyOnDisk(r, s.pte[k].entry)
    BY <1>2 DEF OnlyOnDisk
  <2>2. s.pte[k].kind = "present" => r.page[s.pte[k].page].data = s.page[s.pte[k].page].data
    BY <1>1, <1>2 DEF Coherent
  <2>3. s.pte[k].kind = "swap" => \A g \in Frame : s.page[g].index = s.pte[k].entry =>
            r.page[g].index = s.pte[k].entry /\ r.page[g].data = s.page[g].data
    BY <1>2
  <2>q. QED
    BY <1>2, <2>1, <2>2, <2>3 DEF Undisturbed
<1>q. QED
  BY <1>3, <1>4, <1>5, UndisturbedKeeps DEF Quiet

LEMMA SwappedData ==
    ASSUME NEW U, NEW s, NEW H, NEW m \in Mm, NEW f \in Frame, NEW e \in Slot, NEW r,
           Good(s, H, NoFrame), s.pte[m].kind = "present", s.pte[m].page = f,
           s.page[f].index = e, s.pte[m].D => s.page[f].dirty, Swapped(s, r, m, f, e),
           Exclusive(s), Clean(s, U)
    PROVE  Quiet(s, r, U)
<1>1. Coherent(s, H)
  BY GoodCoherent
<1>2. /\ r.disk = s.disk /\ \A k \in Mm : k # m => r.pte[k] = s.pte[k]
      /\ \A g \in Frame : /\ r.page[g].index = s.page[g].index
                          /\ r.page[g].dirty = s.page[g].dirty /\ r.page[g].data = s.page[g].data
      /\ r.pte[m].kind = "swap" /\ r.pte[m].entry = e
  BY PteKinds DEF Swapped
<1>3. Exclusive(r)
  <2>1. \A k \in Mm, g \in Frame : /\ MayWrite(r, k, g) => MayWrite(s, k, g)
                                   /\ Reaches(r, k, g) => Reaches(s, k, g)
    BY <1>1, <1>2 DEF MayWrite, Reaches, Coherent
  <2>q. QED
    BY <2>1 DEF Exclusive
<1>4. Clean(r, U)
  <2> SUFFICES ASSUME NEW g \in Frame, g \notin U, r.page[g].index # NoSlot, ~r.page[g].dirty,
                      \A k \in Mm : r.pte[k].kind = "present" /\ r.pte[k].page = g => ~r.pte[k].D
               PROVE  r.disk[r.page[g].index] = r.page[g].data
    BY DEF Clean
  <2>1. \A k \in Mm : s.pte[k].kind = "present" /\ s.pte[k].page = g => ~s.pte[k].D
    BY <1>2
  <2>2. s.disk[s.page[g].index] = s.page[g].data
    BY <1>2, <2>1 DEF Clean
  <2>q. QED
    BY <1>2, <2>2
<1>5. ASSUME NEW k \in Mm, NEW v, Reads(s, k, v) PROVE Reads(r, k, v)
  <2>1. CASE k = m
    <3>1. v = s.page[f].data
      BY <1>5, <2>1 DEF Reads
    <3>q. QED
      BY <1>2, <2>1, <3>1 DEF Reads
  <2>2. CASE k # m
    <3>1. Undisturbed(s, r, k)
      BY <1>1, <1>2, <2>2 DEF Undisturbed, OnlyOnDisk, Coherent
    <3>q. QED
      BY <1>5, <3>1, UndisturbedReads
  <2>q. QED
    BY <2>1, <2>2
<1>q. QED
  BY <1>3, <1>4, <1>5 DEF Quiet, Keeps

LEMMA QuietQuiet ==
    ASSUME NEW U, NEW s, NEW u, NEW r, Quiet(s, u, U), Quiet(u, r, U)
    PROVE  Quiet(s, r, U)
BY DEF Quiet, Keeps

LEMMA AlikeQuiet ==
    ASSUME NEW U, NEW s, NEW H, NEW r, Good(s, H, NoFrame), Alike(s, r), Exclusive(s), Clean(s, U)
    PROVE  Quiet(s, r, U)
BY AlikeData DEF Quiet

LEMMA IdleQuiet ==
    ASSUME NEW U, NEW s, NEW H, NEW r, NEW n, Good(s, H, NoFrame), Idle(s, r, n),
           Exclusive(s), Clean(s, U)
    PROVE  Quiet(s, r, U)
BY IdleData DEF Quiet

LEMMA NewSwapOutData ==
    ASSUME NEW U, NEW s, NEW H, NEW m \in Mm, NEW f \in Frame, NEW e \in Slot, NEW r,
           Good(s, H, NoFrame), s.pte[m].kind = "present", s.pte[m].page = f,
           s.page[f].index = NoSlot, s.mem_map[e] \in {0, UNUSED}, SwapOutNew(s, r, m, f, e),
           Exclusive(s), Clean(s, U)
    PROVE  Quiet(s, r, U)
<1>1. PICK u, v : Vacated(s, u, e) /\ NewlyListed(u, v, f, e) /\ Swapped(v, r, m, f, e)
  BY DEF SwapOutNew
<1>2. Good(u, H, NoFrame) /\ Quiet(s, u, U)
  BY <1>1, VacateGood, VacateData
<1>3. u.page[f].ref # 0 /\ u.page[f].index = NoSlot /\ u.mem_map[e] = UNUSED /\ u.pte = s.pte
  <2>1. s.page[f].ref # 0 /\ e # NoSlot
    BY GoodCoherent DEF Coherent
  <2>q. QED
    BY <1>1, <2>1 DEF Vacated
<1>4. Good(v, H, NoFrame) /\ Quiet(u, v, U)
  <2>1. Exclusive(u) /\ Clean(u, U)
    BY <1>2 DEF Quiet
  <2>2. u.page[f].ref # 0 /\ u.page[f].index = NoSlot /\ u.mem_map[e] = UNUSED
    BY <1>3
  <2>q. QED
    BY <1>1, <1>2, <2>1, <2>2, NewEntryGood, NewEntryData
<1>5. /\ v.pte[m].kind = "present" /\ v.pte[m].page = f /\ v.page[f].index = e
      /\ v.page[f].dirty /\ Exclusive(v) /\ Clean(v, U)
  BY <1>1, <1>3, <1>4 DEF NewlyListed, Quiet
<1>6. Quiet(v, r, U)
  BY <1>1, <1>4, <1>5, SwappedData
<1>q. QED
  BY <1>2, <1>4, <1>6, QuietQuiet

LEMMA OldSwapOutData ==
    ASSUME NEW U, NEW s, NEW H, NEW m \in Mm, NEW f \in Frame, NEW r,
           Good(s, H, NoFrame), s.pte[m].kind = "present", s.pte[m].page = f,
           SwapOutOld(s, r, m, f), Exclusive(s), Clean(s, U)
    PROVE  Quiet(s, r, U)
<1>a. PICK e \in Slot, a \in Page : \E v :
        /\ e = s.page[f].index /\ PagePut(s, v, f, a)
        /\ SameCounts(s.page[f], a) /\ a.data = s.page[f].data
        /\ a.dirty = (s.page[f].dirty \/ s.pte[m].D)
        /\ Swapped(v, r, m, f, e)
  BY DEF SwapOutOld
<1>1. PICK v :
        /\ e = s.page[f].index /\ PagePut(s, v, f, a)
        /\ SameCounts(s.page[f], a) /\ a.data = s.page[f].data
        /\ a.dirty = (s.page[f].dirty \/ s.pte[m].D)
        /\ Swapped(v, r, m, f, e)
  BY <1>a
<1>2. Good(v, H, NoFrame)
  BY <1>1, SamePageGood
<1>3. Alike(s, v)
  BY <1>1 DEF PagePut, SameCounts, Alike
<1>4. Quiet(s, v, U)
  BY <1>3, AlikeQuiet
<1>5. /\ v.pte[m].kind = "present" /\ v.pte[m].page = f /\ v.page[f].index = e
      /\ (v.pte[m].D => v.page[f].dirty) /\ Exclusive(v) /\ Clean(v, U)
  BY <1>1, <1>4 DEF PagePut, SameCounts, Quiet
<1>6. Quiet(v, r, U)
  BY <1>1, <1>2, <1>5, SwappedData
<1>q. QED
  BY <1>4, <1>6, QuietQuiet

\* k reads the copy on disk of a page of U that it has swapped out.
Back(s, r, k, U) ==
    \E f \in Frame : /\ f \in U
                     /\ s.pte[k].kind = "swap" /\ s.pte[k].entry = s.page[f].index
                     /\ Reads(r, k, s.disk[s.page[f].index])

SetsBack(s, r, U) ==
    \A k \in Mm : (\A v : Reads(s, k, v) => Reads(r, k, v)) \/ Back(s, r, k, U)

LEMMA ScanData ==
    ASSUME NEW U, NEW s, NEW H, NEW D, NEW r, Good(s, H, NoFrame), Scanned(s, r, D),
           Exclusive(s), Clean(s, U)
    PROVE  Exclusive(r) /\ Clean(r, U) /\ SetsBack(s, r, U)
<1>1. Coherent(s, H)
  BY GoodCoherent
<1>2. /\ r.pte = s.pte
      /\ \A g \in Frame : g \in D => s.page[g].ref = 0 /\ r.page[g].index = NoSlot
                                     /\ s.page[g].index # NoSlot
      /\ \A g \in Frame : g \notin D => /\ r.page[g].index = s.page[g].index
                                        /\ r.page[g].dirty = s.page[g].dirty
                                        /\ r.page[g].data = s.page[g].data
      /\ \A i \in Slot : ~(\E f \in D : s.page[f].index = i) => r.disk[i] = s.disk[i]
  BY <1>1, FreshFacts DEF Scanned, Coherent
<1>3. Exclusive(r)
  <2>1. \A k \in Mm, g \in Frame : /\ MayWrite(r, k, g) => MayWrite(s, k, g)
                                   /\ Reaches(r, k, g) => Reaches(s, k, g)
    BY <1>1, <1>2 DEF MayWrite, Reaches, Coherent
  <2>q. QED
    BY <2>1 DEF Exclusive
<1>4. Clean(r, U)
  <2> SUFFICES ASSUME NEW g \in Frame, g \notin U, r.page[g].index # NoSlot, ~r.page[g].dirty,
                      \A k \in Mm : r.pte[k].kind = "present" /\ r.pte[k].page = g => ~r.pte[k].D
               PROVE  r.disk[r.page[g].index] = r.page[g].data
    BY DEF Clean
  <2>1. g \notin D
    BY <1>2
  <2>2. \A k \in Mm : s.pte[k].kind = "present" /\ s.pte[k].page = g => ~s.pte[k].D
    BY <1>2
  <2>3. s.disk[s.page[g].index] = s.page[g].data
    BY <1>2, <2>1, <2>2 DEF Clean
  <2>4. PICK i \in Slot : i = s.page[g].index /\ i # NoSlot
    BY <1>1, <1>2, <2>1 DEF Coherent
  <2>5. ~(\E f \in D : s.page[f].index = i)
    BY <1>1, <2>1, <2>4 DEF Coherent, Scanned
  <2>q. QED
    BY <1>2, <2>1, <2>3, <2>4, <2>5
<1>5. ASSUME NEW k \in Mm, NEW v, Reads(s, k, v) PROVE Reads(r, k, v) \/ Back(s, r, k, U)
  <2>1. CASE s.pte[k].kind = "invalid" /\ v = Untouched
    BY <1>2, <2>1 DEF Reads
  <2>2. CASE s.pte[k].kind = "present" /\ v = s.page[s.pte[k].page].data
    <3>1. s.pte[k].page \in Frame /\ s.pte[k].page \notin D
      BY <1>1, <1>2, <2>2 DEF Coherent
    <3>q. QED
      BY <1>2, <2>2, <3>1 DEF Reads
  <2>3. ASSUME NEW f \in Frame, s.pte[k].kind = "swap", s.page[f].index = s.pte[k].entry,
               v = s.page[f].data
        PROVE  Reads(r, k, v) \/ Back(s, r, k, U)
    <3>1. CASE f \notin D
      BY <1>2, <2>3, <3>1 DEF Reads
    <3>2. CASE f \in D
      <4>1. PICK i \in Slot : i = s.pte[k].entry /\ s.mem_map[i] # 0 /\ i # NoSlot
        BY <1>1, <2>3 DEF Coherent
      <4>2. OnlyOnDisk(r, i)
        BY <1>1, <1>2, <2>3, <3>2, <4>1 DEF OnlyOnDisk, Coherent
      <4>3. r.disk[i] = IF s.page[f].dirty THEN s.page[f].data ELSE s.disk[i]
        BY <2>3, <3>2, <4>1 DEF Scanned
      <4>4. CASE ~s.page[f].dirty /\ f \in U
        <5>1. Reads(r, k, s.disk[i])
          BY <1>2, <2>3, <4>1, <4>2, <4>3, <4>4 DEF Reads
        <5>q. QED
          BY <2>3, <4>1, <4>4, <5>1 DEF Back
      <4>5. CASE s.page[f].dirty \/ f \notin U
        <5>1. ~s.page[f].dirty => s.disk[i] = s.page[f].data
          <6>1. \A j \in Mm : ~(s.pte[j].kind = "present" /\ s.pte[j].page = f)
            BY <1>1, <1>2, <3>2 DEF Coherent
          <6>q. QED
            BY <2>3, <4>1, <4>5, <6>1 DEF Clean
        <5>2. v = r.disk[i]
          BY <2>3, <4>3, <5>1
        <5>q. QED
          BY <1>2, <2>3, <4>1, <4>2, <5>2 DEF Reads
      <4>q. QED
        BY <4>4, <4>5
    <3>q. QED
      BY <3>1, <3>2
  <2>4. CASE /\ s.pte[k].kind = "swap"
             /\ OnlyOnDisk(s, s.pte[k].entry) /\ v = s.disk[s.pte[k].entry]
    <3>1. PICK i \in Slot : i = s.pte[k].entry /\ i # NoSlot
      BY <1>1, <2>4 DEF Coherent
    <3>2. OnlyOnDisk(r, i)
      BY <1>2, <2>4, <3>1 DEF OnlyOnDisk
    <3>3. r.disk[i] = s.disk[i]
      <4>1. ~(\E f \in D : s.page[f].index = i)
        BY <2>4, <3>1 DEF OnlyOnDisk, Scanned
      <4>q. QED
        BY <1>2, <4>1
    <3>q. QED
      BY <1>2, <2>4, <3>1, <3>2, <3>3 DEF Reads
  <2>q. QED
    BY <1>5, <2>1, <2>2, <2>3, <2>4 DEF Reads
<1>q. QED
  BY <1>3, <1>4, <1>5 DEF SetsBack

-----------------------------------------------------------------------------
(* swap_in_page                                                             *)

LEMMA ReadData ==
    ASSUME NEW U, NEW s, NEW H, NEW f \in Frame, NEW e \in Slot, NEW r, Good(s, H, NoFrame),
           f \in H, OnlyOnDisk(s, e), ReadInto(s, r, f, e), Exclusive(s), Clean(s, U)
    PROVE  Quiet(s, r, U)
<1>1. Coherent(s, H)
  BY GoodCoherent
<1>2. /\ r.pte = s.pte /\ r.disk = s.disk /\ s.page[f].index = NoSlot /\ s.page[f].ref = 0
      /\ \A g \in Frame : g # f => r.page[g] = s.page[g]
      /\ r.page[f].index = e /\ r.page[f].data = s.disk[e]
      /\ \A k \in Mm : s.pte[k].kind = "present" => s.pte[k].page # f
      /\ \A k \in Mm : s.pte[k].kind = "swap" => s.pte[k].entry # NoSlot
  BY <1>1 DEF ReadInto, Coherent
<1>3. Exclusive(r)
  <2>1. \A k \in Mm, g \in Frame : MayWrite(r, k, g) => MayWrite(s, k, g) /\ g # f
    BY <1>2 DEF MayWrite
  <2>2. \A k \in Mm, g \in Frame : g # f /\ Reaches(r, k, g) => Reaches(s, k, g)
    BY <1>2 DEF Reaches
  <2>q. QED
    BY <2>1, <2>2 DEF Exclusive
<1>4. Clean(r, U)
  BY <1>2 DEF Clean
<1>5. ASSUME NEW k \in Mm, NEW v, Reads(s, k, v) PROVE Reads(r, k, v)
  <2>1. CASE s.pte[k].kind = "swap" /\ s.pte[k].entry = e
    <3>1. v = s.disk[e]
      BY <1>5, <2>1 DEF Reads, OnlyOnDisk
    <3>q. QED
      BY <1>2, <2>1, <3>1 DEF Reads
  <2>2. CASE ~(s.pte[k].kind = "swap" /\ s.pte[k].entry = e)
    <3>1. Undisturbed(s, r, k)
      <4>1. s.pte[k].kind = "present" => r.page[s.pte[k].page].data = s.page[s.pte[k].page].data
        BY <1>1, <1>2 DEF Coherent
      <4>2. s.pte[k].kind = "swap" => \A g \in Frame : s.page[g].index = s.pte[k].entry =>
                r.page[g].index = s.pte[k].entry /\ r.page[g].data = s.page[g].data
        BY <1>2
      <4>3. s.pte[k].kind = "swap" /\ OnlyOnDisk(s, s.pte[k].entry) =>
                OnlyOnDisk(r, s.pte[k].entry)
        BY <1>2, <2>2 DEF OnlyOnDisk
      <4>q. QED
        BY <1>2, <4>1, <4>2, <4>3 DEF Undisturbed
    <3>q. QED
      BY <1>5, <3>1, UndisturbedReads
  <2>q. QED
    BY <2>1, <2>2
<1>q. QED
  BY <1>3, <1>4, <1>5 DEF Quiet, Keeps

LEMMA QuietRestored ==
    ASSUME NEW U, NEW s, NEW u, NEW r, \A k \in Mm : u.pte[k] = s.pte[k],
           Quiet(s, u, U), Restored(u, r, U)
    PROVE  Restored(s, r, U)
<1>1. Relapsed(u, r) = Relapsed(s, r)
  BY DEF Relapsed
<1>q. QED
  BY <1>1 DEF Quiet, Restored, Keeps

-----------------------------------------------------------------------------
(* Steps of the abstract specification                                      *)

\* What the refinement mapping says is what the address space reads.
Value(s, m) ==
    LET t == s.pte[m]
    IN  CASE t.kind = "invalid" -> Untouched
          [] t.kind = "present" -> s.page[t.page].data
          [] t.kind = "swap" ->
                IF swap_hash_find(s, t.entry) = {} THEN s.disk[t.entry]
                ELSE s.page[CHOOSE f \in swap_hash_find(s, t.entry) : TRUE].data

\* v is the only thing that m reads.
ReadsJust(s, m, v) == Reads(s, m, v) /\ \A x : Reads(s, m, x) => x = v

LEMMA ValueReads ==
    ASSUME NEW s, NEW H, NEW m \in Mm, Good(s, H, NoFrame)
    PROVE  ReadsJust(s, m, Value(s, m))
<1>2. s \in Mem /\ s.pte[m] \in Pte /\ Coherent(s, H)
  BY GoodCoherent DEF Good, Mem
<1>3. CASE s.pte[m].kind = "invalid"
  <2>1. Value(s, m) = Untouched
    BY <1>3 DEF Value
  <2>q. QED
    BY <1>3, <2>1 DEF Reads, ReadsJust
<1>4. CASE s.pte[m].kind = "present"
  <2>1. Value(s, m) = s.page[s.pte[m].page].data
    BY <1>4 DEF Value
  <2>q. QED
    BY <1>4, <2>1 DEF Reads, ReadsJust
<1>5. CASE s.pte[m].kind = "swap"
  <2>1. PICK e \in Slot : e = s.pte[m].entry /\ e # NoSlot
    BY <1>2, <1>5 DEF Coherent
  <2>2. CASE swap_hash_find(s, e) = {}
    <3>1. Value(s, m) = s.disk[e]
      BY <1>5, <2>1, <2>2 DEF Value
    <3>2. OnlyOnDisk(s, e)
      BY <2>2 DEF OnlyOnDisk, swap_hash_find
    <3>q. QED
      BY <1>5, <2>1, <3>1, <3>2 DEF Reads, ReadsJust, OnlyOnDisk
  <2>3. CASE swap_hash_find(s, e) # {}
    <3>1. PICK f \in Frame : /\ (CHOOSE g \in swap_hash_find(s, e) : TRUE) = f
                             /\ s.page[f].index = e
                             /\ \A g \in Frame : s.page[g].index = e => g = f
      BY <2>3, HashFacts
    <3>2. Value(s, m) = s.page[CHOOSE g \in swap_hash_find(s, e) : TRUE].data
      BY <1>5, <2>1, <2>3 DEF Value
    <3>3. Value(s, m) = s.page[f].data
      BY <3>1, <3>2, Zenon
    <3>q. QED
      BY <1>5, <2>1, <3>1, <3>3 DEF Reads, ReadsJust, OnlyOnDisk
  <2>q. QED
    BY <2>2, <2>3
<1>q. QED
  BY <1>2, <1>3, <1>4, <1>5, PteFacts

\* What is read from a page is data.
LEMMA ValueType ==
    ASSUME NEW s, NEW H, NEW m \in Mm, Good(s, H, NoFrame), s.pte[m].kind # "invalid"
    PROVE  Value(s, m) \in 0 .. MaxData
<1>1. s \in Mem /\ Coherent(s, H) /\ Reads(s, m, Value(s, m))
  BY GoodCoherent, ValueReads DEF Good, ReadsJust
<1>2. PICK v : v = Value(s, m)
  OBVIOUS
<1>3. Reads(s, m, v)
  BY <1>1, <1>2
<1>4. \A e \in Slot : s.disk[e] \in 0 .. MaxData
  BY <1>1 DEF Mem
<1>5. /\ s.pte[m].kind = "present" => s.pte[m].page \in Frame
      /\ s.pte[m].kind = "swap" => s.pte[m].entry \in Slot
  BY <1>1 DEF Coherent
<1>6. \A f \in Frame : s.page[f].data \in 0 .. MaxData
  BY <1>1, PageFacts
<1>7. v \in 0 .. MaxData
  BY <1>3, <1>4, <1>5, <1>6 DEF Reads
<1>q. QED
  BY <1>2, <1>7

LEMMA ContentIs == [m \in Mm |-> Content(m)] = [m \in Mm |-> Value(mem, m)]
BY DEF Content, Value

LEMMA ContentIsNext == [m \in Mm |-> Content(m)]' = [m \in Mm |-> Value(mem', m)]
BY DEF Content, Value, swap_hash_find

\* A step as the users of the memory see it: nothing, or the page of m is new,
\* written to, gone, or a copy of another one.
Observed(s, r) ==
    \/ Keeps(s, r, NoMm)
    \/ \E m \in Mm :
        /\ Keeps(s, r, m)
        /\ \/ Reads(s, m, Untouched) /\ \E d \in 0 .. MaxData : Reads(r, m, d)
           \/ s.pte[m].kind # "invalid" /\ \A v : Reads(s, m, v) => Reads(r, m, After(TRUE, v))
           \/ Reads(r, m, Untouched)
           \/ \E k \in Mm : /\ k # m /\ Reads(s, m, Untouched)
                            /\ \A v : Reads(s, k, v) => Reads(r, m, v)

LEMMA ObservedStep ==
    ASSUME NEW s, NEW r, NEW G, NEW H, s = mem, r = mem',
           Good(s, G, NoFrame), Good(r, H, NoFrame), Observed(s, r)
    PROVE  [M!Next]_[m \in Mm |-> Content(m)]
<1>1. PICK a : a = [m \in Mm |-> Content(m)]
  OBVIOUS
<1>2. PICK b : b = [m \in Mm |-> Content(m)]'
  OBVIOUS
<1>3. /\ a = [m \in Mm |-> Value(s, m)] /\ b = [m \in Mm |-> Value(r, m)]
  BY <1>1, <1>2, ContentIs, ContentIsNext, Zenon
<1>4. \A m \in Mm : ReadsJust(s, m, a[m]) /\ ReadsJust(r, m, b[m])
  BY <1>3, ValueReads
<1>5. \A m \in Mm : \A v : /\ Reads(s, m, v) <=> v = a[m]
                           /\ Reads(r, m, v) <=> v = b[m]
  BY <1>4 DEF ReadsJust
<1>6. CASE Keeps(s, r, NoMm)
  <2>1. \A m \in Mm : b[m] = a[m]
    BY <1>5, <1>6 DEF Keeps
  <2>2. b = a
    BY <1>3, <2>1
  <2>q. QED
    BY <1>1, <1>2, <2>2, Zenon
<1>7. ASSUME NEW m \in Mm, NEW d, Keeps(s, r, m), Reads(r, m, d)
      PROVE  b = [a EXCEPT ![m] = d]
  <2>1. \A k \in Mm : k # m => b[k] = a[k]
    BY <1>5, <1>7 DEF Keeps
  <2>2. b[m] = d
    BY <1>5, <1>7
  <2>q. QED
    BY <1>3, <2>1, <2>2
<1>8. ASSUME NEW m \in Mm, Keeps(s, r, m), Reads(s, m, Untouched), NEW d \in 0 .. MaxData,
             Reads(r, m, d)
      PROVE  M!Next
  <2>1. a[m] = Untouched /\ b = [a EXCEPT ![m] = d]
    BY <1>5, <1>7, <1>8
  <2>2. M!Touch(m)
    BY <1>1, <1>2, <2>1, Zenon DEF M!Touch
  <2>q. QED
    BY <2>2, Zenon DEF M!Next
<1>9. ASSUME NEW m \in Mm, Keeps(s, r, m), s.pte[m].kind # "invalid",
             \A v : Reads(s, m, v) => Reads(r, m, After(TRUE, v))
      PROVE  M!Next
  <2>1. a[m] \in 0 .. MaxData
    BY <1>3, <1>9, ValueType
  <2>2. b = [a EXCEPT ![m] = After(TRUE, a[m])]
    BY <1>5, <1>7, <1>9
  <2>3. After(TRUE, a[m]) = M!Changed(a[m])
    BY DEF After, M!Changed
  <2>4. b = [a EXCEPT ![m] = M!Changed(a[m])] /\ a[m] # Untouched
    BY <2>1, <2>2, <2>3
  <2>5. M!Write(m)
    BY <1>1, <1>2, <2>4, Zenon DEF M!Write
  <2>q. QED
    BY <2>5, Zenon DEF M!Next
<1>10. ASSUME NEW m \in Mm, Keeps(s, r, m), Reads(r, m, Untouched) PROVE M!Next
  <2>1. b = [a EXCEPT ![m] = Untouched]
    BY <1>7, <1>10
  <2>2. M!Unmap(m)
    BY <1>1, <1>2, <2>1, Zenon DEF M!Unmap
  <2>q. QED
    BY <2>2, Zenon DEF M!Next
<1>11. ASSUME NEW m \in Mm, Keeps(s, r, m), NEW k \in Mm, k # m, Reads(s, m, Untouched),
              \A v : Reads(s, k, v) => Reads(r, m, v)
       PROVE  M!Next
  <2>1. a[m] = Untouched /\ b = [a EXCEPT ![m] = a[k]]
    BY <1>5, <1>7, <1>11
  <2>2. M!Fork(k, m)
    BY <1>1, <1>2, <2>1, Zenon DEF M!Fork
  <2>3. m \in Mm \ {k}
    BY <1>11
  <2>q. QED
    BY <2>2, <2>3, Zenon DEF M!Next
<1>q. QED
  BY <1>6, <1>8, <1>9, <1>10, <1>11 DEF Observed

-----------------------------------------------------------------------------
(* The steps of Vm                                                          *)

\* A fault on a page that is there is a write, and the entry does not allow it.
FaultsOK ==
    \A p \in Proc : ~panicked /\ pc[p] = "cow" /\ mem.pte[mm[p]].kind = "present" =>
        write[p] /\ ~mem.pte[mm[p]].W

DataInv == Inv /\ Exclusive(mem) /\ FaultsOK

\* What a step leaves in order, and how it looks from outside
Sound(s, r, U) ==
    /\ Exclusive(r) /\ Clean(r, U \cup Relapsed(s, r))
    /\ Observed(s, r) \/ SetsBack(s, r, U)

LEMMA CleanMore ==
    ASSUME NEW r, NEW U, NEW V, Clean(r, U)
    PROVE  Clean(r, U \cup V)
BY DEF Clean

LEMMA QuietSound ==
    ASSUME NEW U, NEW s, NEW r, Quiet(s, r, U)
    PROVE  Sound(s, r, U)
BY CleanMore DEF Quiet, Sound, Observed

LEMMA RestoredSound ==
    ASSUME NEW U, NEW s, NEW r, Restored(s, r, U)
    PROVE  Sound(s, r, U)
BY DEF Restored, Sound, Observed

LEMMA SteppedSound ==
    ASSUME NEW U, NEW s, NEW r, NEW m \in Mm, NEW w \in BOOLEAN, Stepped(s, r, m, w, U),
           s.pte[m].kind # "invalid"
    PROVE  Sound(s, r, U)
<1>0. Exclusive(r) /\ Clean(r, U \cup Relapsed(s, r)) /\ Keeps(s, r, m)
  BY CleanMore DEF Stepped
<1>1. CASE w = TRUE
  <2>1. \A v : Reads(s, m, v) => Reads(r, m, After(TRUE, v))
    BY <1>1, Zenon DEF Stepped
  <2>2. Observed(s, r)
    BY <1>0, <2>1 DEF Observed
  <2>q. QED
    BY <1>0, <2>2 DEF Sound
<1>2. CASE w = FALSE
  <2>1. \A v : After(w, v) = v
    BY <1>2 DEF After
  <2>2. \A v : Reads(s, m, v) => Reads(r, m, v)
    BY <2>1 DEF Stepped
  <2>3. Keeps(s, r, NoMm)
    BY <1>0, <2>2 DEF Keeps
  <2>q. QED
    BY <1>0, <2>3 DEF Sound, Observed
<1>q. QED
  BY <1>1, <1>2

LEMMA SameSound ==
    ASSUME NEW U, NEW s, Exclusive(s), Clean(s, U)
    PROVE  Sound(s, s, U)
<1>1. Quiet(s, s, U)
  BY DEF Quiet, Keeps
<1>q. QED
  BY <1>1, QuietSound

\* No fault gets as far as newpage, and no entry gets a page or the right to write.
LEMMA FaultsKept ==
    ASSUME DataInv, ~panicked,
           \A p \in Proc : pc'[p] = "cow" =>
              /\ pc[p] = "cow" /\ write'[p] = write[p]
              /\ mem'.pte[mm'[p]].kind = "present" =>
                    mem.pte[mm[p]].kind = "present" /\ (mem'.pte[mm'[p]].W => mem.pte[mm[p]].W)
    PROVE  FaultsOK'
BY DEF DataInv, FaultsOK

LEMMA AccessSound ==
    ASSUME NEW U, DataInv, Clean(mem, U), NEW p \in Proc, NEW w \in BOOLEAN, Access(p, w)
    PROVE  Sound(mem, mem', U) /\ FaultsOK'
<1>0. Inv /\ Exclusive(mem) /\ Clean(mem, U)
  BY DEF DataInv
<1>1. /\ mm[p] # NoMm /\ mm[p] \in Mm /\ pc[p] \in {"user", "retry"} /\ ~panicked
      /\ mem.pte[mm[p]].kind = "present" /\ (w => mem.pte[mm[p]].W)
  BY <1>0, ProcFacts DEF Access, Executes, CanRun, Allows
<1>2. PICK m \in Mm : m = mm[p]
  BY <1>1
<1>3. mem' = Accessed(mem, m, w)
  BY <1>2 DEF Access
<1>4. PICK s, r, H : s = mem /\ r = mem' /\ H = Held
  OBVIOUS
<1>5. Good(s, H, NoFrame) /\ Exclusive(s) /\ Clean(s, U) /\ s.pte[m].kind = "present"
  BY <1>0, <1>1, <1>2, <1>4 DEF Inv
<1>6. Touched(s, r, m, w)
  BY <1>3, <1>4, <1>5, AccessedGood
<1>7. Ready(s, m, w, U)
  BY <1>1, <1>2, <1>4, <1>5 DEF Ready
<1>8. Stepped(s, r, m, w, U)
  BY <1>5, <1>6, <1>7, TouchData
<1>9. Sound(s, r, U)
  BY <1>5, <1>8, SteppedSound
<1>10. FaultsOK'
  <2>1. /\ pc'[p] = "user" /\ mm' = mm
        /\ \A q \in Proc : q # p => pc'[q] = pc[q] /\ write'[q] = write[q]
    BY <1>0 DEF Access, Inv, ProcsOK
  <2>2. \A k \in Mm : r.pte[k].kind = "present" =>
            s.pte[k].kind = "present" /\ (r.pte[k].W => s.pte[k].W)
    <3>0. s.pte[m].page \in Frame /\ s.pte[m].W \in BOOLEAN /\ s.pte[m].D \in BOOLEAN
      BY <1>5, MappedFrame
    <3>1. PICK f \in Frame : f = s.pte[m].page
      BY <3>0
    <3>2. PICK d \in BOOLEAN : d = (s.pte[m].D \/ w)
      BY <3>0
    <3>3. r.pte[m] = Present(f, s.pte[m].W, d)
      BY <3>1, <3>2, <1>6 DEF Touched
    <3>4. r.pte[m].W = s.pte[m].W
      BY <3>0, <3>3, PteKinds
    <3>q. QED
      BY <1>5, <1>6, <3>4 DEF Touched
  <2>3. ASSUME NEW q \in Proc, pc'[q] = "cow"
        PROVE  /\ pc[q] = "cow" /\ write'[q] = write[q]
               /\ mem'.pte[mm'[q]].kind = "present" =>
                    mem.pte[mm[q]].kind = "present" /\ (mem'.pte[mm'[q]].W => mem.pte[mm[q]].W)
    <3>1. q # p /\ pc[q] = "cow" /\ write'[q] = write[q] /\ mm'[q] = mm[q] /\ mm[q] \in Mm
      BY <1>0, <2>1, <2>3, ProcFacts
    <3>q. QED
      BY <1>4, <2>2, <3>1
  <2>q. QED
    BY <1>1, <2>3, FaultsKept
<1>q. QED
  BY <1>4, <1>9, <1>10

LEMMA FaultSound ==
    ASSUME NEW U, DataInv, Clean(mem, U), NEW p \in Proc, NEW w \in BOOLEAN, Fault(p, w)
    PROVE  Sound(mem, mem', U) /\ FaultsOK'
<1>0. Inv /\ Exclusive(mem) /\ Clean(mem, U) /\ FaultsOK /\ ProcsOK
  BY DEF DataInv, Inv
<1>1. Sound(mem, mem', U)
  BY <1>0, SameSound DEF Fault
<1>2. FaultsOK'
  <2>1. /\ mem.pte[mm[p]].kind = "present" => write'[p] /\ ~mem.pte[mm[p]].W
        /\ \A q \in Proc : q # p => pc'[q] = pc[q] /\ write'[q] = write[q]
    BY <1>0 DEF Fault, Allows, ProcsOK
  <2>2. UNCHANGED <<mem, mm, panicked>>
    BY DEF Fault
  <2>q. QED
    BY <1>0, <2>1, <2>2 DEF FaultsOK
<1>q. QED
  BY <1>1, <1>2

LEMMA PgfaultSound ==
    ASSUME NEW U, DataInv, Clean(mem, U), NEW p \in Proc, do_pgfault(p)
    PROVE  Sound(mem, mem', U) /\ FaultsOK'
<1>0. Inv /\ Exclusive(mem) /\ Clean(mem, U) /\ FaultsOK /\ ProcsOK
  BY DEF DataInv, Inv
<1>1. Sound(mem, mem', U)
  BY <1>0, SameSound DEF do_pgfault
<1>2. FaultsOK'
  <2>1. /\ UNCHANGED <<mem, mm, write>> /\ ~panicked
        /\ ~panicked' => (mem.pte[mm[p]].kind = "present" => write[p] /\ ~mem.pte[mm[p]].W)
        /\ \A q \in Proc : q # p => pc'[q] = pc[q]
    BY <1>0 DEF do_pgfault, CanRun, ProcsOK
  <2>q. QED
    BY <1>0, <2>1 DEF FaultsOK
<1>q. QED
  BY <1>1, <1>2

\* The end of a fault does not disturb the faults of others.
LEMMA FaultDoneFaults ==
    ASSUME DataInv, NEW p \in Proc, InAlloc(p), ~panicked, NEW s, FaultDone(p, s),
           Mapped(mem, s, mm[p])
    PROVE  FaultsOK'
<1>0. Inv /\ ProcsOK
  BY DEF DataInv, Inv
<1>1. PICK m \in Mm : m = mm[p]
  BY <1>0, ProcFacts DEF InAlloc
<1>2. \A k \in Mm : k # m => mem'.pte[k] = mem.pte[k]
  BY <1>1 DEF FaultDone, Mapped
<1>3. /\ pc'[p] = "retry" /\ mm' = mm /\ write' = write
      /\ \A q \in Proc : q # p => pc'[q] = pc[q]
  BY <1>0 DEF FaultDone, ProcsOK
<1>4. ASSUME NEW q \in Proc, pc'[q] = "cow"
      PROVE  /\ pc[q] = "cow" /\ write'[q] = write[q]
             /\ mem'.pte[mm'[q]].kind = "present" =>
                    mem.pte[mm[q]].kind = "present" /\ (mem'.pte[mm'[q]].W => mem.pte[mm[q]].W)
  <2>1. q # p /\ pc[q] = "cow" /\ write'[q] = write[q] /\ mm'[q] = mm[q] /\ mm[q] \in Mm
    BY <1>0, <1>3, <1>4, ProcFacts
  <2>2. mm[q] # m
    BY <1>0, <1>1, <2>1 DEF ProcsOK, InAlloc
  <2>q. QED
    BY <1>2, <2>1, <2>2
<1>q. QED
  BY <1>4, FaultsKept

LEMMA TakenAlike ==
    ASSUME NEW U, NEW s, NEW H, NEW n \in Frame, NEW r, Good(s, H, NoFrame), n \in s.free, r = Taken(s, n),
           Exclusive(s), Clean(s, U)
    PROVE  Quiet(s, r, U)
<1>0. s \in Mem
  BY DEF Good
<1>1. r.page = s.page /\ r.pte = s.pte /\ r.disk = s.disk
  BY <1>0 DEF Taken, Mem
<1>2. PICK q : q = r
  OBVIOUS
<1>3. Alike(s, q)
  BY <1>1, <1>2 DEF Alike
<1>4. Quiet(s, q, U)
  BY <1>3, AlikeQuiet
<1>q. QED
  BY <1>2, <1>4

LEMMA AllocPageSound ==
    ASSUME NEW U, DataInv, Clean(mem, U), NEW p \in Proc, NEW f \in Frame, pgdir_alloc_page(p, f)
    PROVE  Sound(mem, mem', U) /\ FaultsOK'
<1>0. Inv /\ Exclusive(mem) /\ Clean(mem, U)
  BY DEF DataInv
<1>1. PICK m \in Mm : m = mm[p]
  BY <1>0, ProcFacts DEF pgdir_alloc_page
<1>2. PICK d \in 0 .. MaxData :
          FaultDone(p, page_insert(Filled(Taken(mem, f), f, d), mm[p], f, TRUE))
  BY Zenon DEF pgdir_alloc_page, Filled
<1>3. f \in mem.free /\ InAlloc(p) /\ ~panicked /\ mem.pte[m].kind = "invalid"
  BY <1>0, <1>1 DEF pgdir_alloc_page, InAlloc, CanRun, Inv, EntriesOK
<1>4. PICK s : s = Taken(mem, f)
  OBVIOUS
<1>5. PICK H, c : H = Held /\ c = mem
  OBVIOUS
<1>6. Good(s, H \cup {f}, NoFrame) /\ s.pte = mem.pte
  BY <1>0, <1>3, <1>4, <1>5, TakenGood DEF Inv
<1>7. PICK G : G = H \cup {f}
  OBVIOUS
<1>8. Good(s, G, NoFrame) /\ f \in G
  BY <1>6, <1>7, Zenon
<1>9. PICK r : r = page_insert(Filled(s, f, d), m, f, TRUE)
  OBVIOUS
<1>10. Good(r, G \ {f}, NoFrame) /\ Installed(s, r, m, f, TRUE)
  BY <1>8, <1>9, CopyGood
<1>11. PICK F : F = G \ {f}
  OBVIOUS
<1>12. Good(r, F, NoFrame) /\ Mapped(mem, r, mm[p])
  BY <1>1, <1>6, <1>10, <1>11 DEF Installed, Mapped
<1>13. FaultDone(p, r)
  BY <1>1, <1>2, <1>4, <1>9, Zenon
<1>14. Quiet(c, s, U)
  <2>1. Good(c, H, NoFrame) /\ f \in c.free /\ s = Taken(c, f) /\ Exclusive(c) /\ Clean(c, U)
    BY <1>0, <1>3, <1>4, <1>5 DEF Inv
  <2>q. QED
    BY <2>1, TakenAlike
<1>15. Placed(s, r, m, f, d, U)
  <2>1. Exclusive(s) /\ Clean(s, U)
    BY <1>14 DEF Quiet
  <2>q. QED
    BY <1>8, <1>9, <2>1, CopyData
<1>16. Lost(s, m, f) = {}
  BY <1>3, <1>6 DEF Lost
<1>17. Exclusive(r) /\ Clean(r, U) /\ Keeps(s, r, m)
  BY <1>15, <1>16 DEF Placed
<1>18. Clean(r, U \cup Relapsed(c, r))
  BY <1>17, CleanMore
<1>19. Reads(r, m, d)
  BY <1>10, <1>15 DEF Installed, Placed, Reads
<1>20. Keeps(c, r, m)
  BY <1>14, <1>17 DEF Quiet, Keeps
<1>21. Reads(c, m, Untouched)
  BY <1>3, <1>5 DEF Reads
<1>22. Observed(c, r)
  BY <1>19, <1>20, <1>21 DEF Observed
<1>23. Sound(c, r, U)
  BY <1>17, <1>18, <1>22 DEF Sound
<1>24. mem' = r
  BY <1>13 DEF FaultDone
<1>25. FaultsOK'
  BY <1>3, <1>12, <1>13, FaultDoneFaults
<1>q. QED
  BY <1>5, <1>23, <1>24, <1>25

\* do_pgfault has found the page f, in the state u that looks like mem.
LEMMA FoundSound ==
    ASSUME NEW U, DataInv, NEW p \in Proc, NEW m \in Mm, m = mm[p], InAlloc(p), ~panicked,
           mem.pte[m].kind # "invalid",
           mem.pte[m].kind = "present" => write[p] /\ ~mem.pte[m].W,
           NEW c, c = mem, NEW u, NEW H, NEW f \in Frame, NEW n \in H, Quiet(c, u, U),
           Good(u, H, NoFrame), \A k \in Mm : u.pte[k] = c.pte[k], f \notin u.free, f \notin H,
           Reaches(u, m, f), FaultDone(p, MapPage(u, p, f, n))
    PROVE  Sound(mem, mem', U) /\ FaultsOK'
<1>1. PICK w \in BOOLEAN : w = write[p]
  BY DEF DataInv, Inv, ProcsOK
<1>2. PICK r : r = MapPage(u, p, f, n)
  OBVIOUS
<1>3. Restored(u, r, U)
  <2>1. Exclusive(u) /\ Clean(u, U) /\ (u.pte[m].kind = "present" => w /\ ~u.pte[m].W)
    BY <1>1 DEF Quiet
  <2>q. QED
    BY <1>1, <1>2, <2>1, MapPageData
<1>4. Good(r, H \ {n}, NoFrame) /\ Mapped(u, r, mm[p])
  BY <1>2, MapPageGood
<1>5. Mapped(mem, r, mm[p])
  BY <1>4 DEF Mapped
<1>6. FaultDone(p, r)
  BY <1>2, Zenon
<1>7. FaultsOK'
  BY <1>5, <1>6, FaultDoneFaults
<1>8. mem' = r
  BY <1>6 DEF FaultDone
<1>9. Restored(c, r, U)
  BY <1>3, QuietRestored
<1>10. Sound(c, r, U)
  BY <1>9, RestoredSound
<1>q. QED
  BY <1>7, <1>8, <1>10

LEMMA CowSound ==
    ASSUME NEW U, DataInv, Clean(mem, U), NEW p \in Proc, NEW n \in Frame, CowPage(p, n)
    PROVE  Sound(mem, mem', U) /\ FaultsOK'
<1>0. Inv /\ Exclusive(mem) /\ Clean(mem, U) /\ FaultsOK
  BY DEF DataInv
<1>1. PICK m \in Mm : m = mm[p]
  BY <1>0, ProcFacts DEF CowPage
<1>2. /\ n \in mem.free /\ InAlloc(p) /\ pc[p] = "cow" /\ ~panicked
      /\ mem.pte[m].kind # "invalid"
      /\ mem.pte[m].kind = "present" => write[p] /\ ~mem.pte[m].W
  BY <1>0, <1>1 DEF CowPage, InAlloc, CanRun, Inv, EntriesOK, FaultsOK
<1>3. PICK s, c : s = Taken(mem, n) /\ c = mem
  OBVIOUS
<1>4. PICK H : H = Held
  OBVIOUS
<1>5. /\ Good(s, H \cup {n}, NoFrame) /\ n \notin H /\ s.pte = mem.pte
  BY <1>0, <1>2, <1>3, <1>4, TakenGood DEF Inv
<1>6. PICK G : G = H \cup {n}
  OBVIOUS
<1>7. Good(s, G, NoFrame) /\ n \in G
  BY <1>5, <1>6, Zenon
<1> DEFINE found == IF s.pte[m].kind = "present" THEN {s.pte[m].page}
                    ELSE swap_hash_find(s, s.pte[m].entry)
<1>9. \/ \E f \in found : FaultDone(p, MapPage(s, p, f, n))
      \/ /\ found = {} /\ mem' = s
         /\ pc' = [pc EXCEPT ![p] = "swapin"]
         /\ UNCHANGED <<mm, write>>
  BY <1>1, <1>3, <1>5 DEF CowPage
<1>10. s.pte[m].kind # "invalid" /\ s.pte[m] \in Pte /\ \A k \in Mm : s.pte[k] = c.pte[k]
  <2>1. s \in Mem
    BY <1>7 DEF Good
  <2>q. QED
    BY <1>2, <1>3, <1>5, <2>1 DEF Mem
<1>14. Quiet(c, s, U)
  <2>1. Good(c, H, NoFrame) /\ n \in c.free /\ s = Taken(c, n) /\ Exclusive(c) /\ Clean(c, U)
    BY <1>0, <1>2, <1>3, <1>4 DEF Inv
  <2>q. QED
    BY <2>1, TakenAlike
<1>11. ASSUME NEW f \in found, FaultDone(p, MapPage(s, p, f, n))
       PROVE  Sound(mem, mem', U) /\ FaultsOK'
  <2>1. f \in Frame /\ f \notin s.free /\ f \notin G /\ Reaches(s, m, f)
    <3>1. CASE s.pte[m].kind = "present"
      <4> HIDE DEF found
      <4>1. PICK g \in Frame : g = s.pte[m].page /\ s.page[g].ref # 0
        BY <1>7, <3>1, GoodCoherent DEF Coherent
      <4>2. f = g /\ Reaches(s, m, g)
        BY <3>1, <4>1 DEF Reaches, found
      <4>q. QED
        BY <1>7, <4>1, <4>2, FoundFrame
    <3>2. CASE s.pte[m].kind # "present"
      <4>1. s.pte[m].entry \in Slot /\ s.pte[m].kind = "swap"
        BY <1>10, <3>2, PteFacts
      <4>2. f \in Frame /\ s.page[f].index # NoSlot /\ s.page[f].index = s.pte[m].entry
        BY <3>2, <4>1 DEF swap_hash_find
      <4>3. Reaches(s, m, f)
        BY <4>1, <4>2 DEF Reaches
      <4>q. QED
        BY <1>7, <4>2, <4>3, FoundFrame
    <3>q. QED
      BY <3>1, <3>2
  <2>2. PICK g \in Frame : g = f
    BY <2>1
  <2> HIDE DEF found
  <2>3. FaultDone(p, MapPage(s, p, g, n)) /\ g \notin s.free /\ g \notin G /\ Reaches(s, m, g)
    BY <1>11, <2>1, <2>2, Zenon
  <2>q. QED
    BY <1>1, <1>2, <1>3, <1>7, <1>10, <1>14, <2>3, FoundSound
<1>12. ASSUME mem' = s, pc' = [pc EXCEPT ![p] = "swapin"], UNCHANGED <<mm, write>>
       PROVE  Sound(mem, mem', U) /\ FaultsOK'
  <2>1. Sound(c, s, U)
    BY <1>14, QuietSound
  <2>2. Sound(mem, mem', U)
    BY <1>3, <1>12, <2>1
  <2>3. ASSUME NEW q \in Proc, pc'[q] = "cow"
        PROVE  /\ pc[q] = "cow" /\ write'[q] = write[q]
               /\ mem'.pte[mm'[q]].kind = "present" =>
                    mem.pte[mm[q]].kind = "present" /\ (mem'.pte[mm'[q]].W => mem.pte[mm[q]].W)
    <3>1. q # p /\ pc[q] = "cow" /\ write'[q] = write[q] /\ mm'[q] = mm[q]
      BY <1>0, <1>12, <2>3 DEF Inv, ProcsOK
    <3>q. QED
      BY <1>5, <1>12, <3>1
  <2>4. FaultsOK'
    BY <1>2, <2>3, FaultsKept
  <2>q. QED
    BY <2>2, <2>4
<1>q. QED
  BY <1>9, <1>11, <1>12

LEMMA SwapInSound ==
    ASSUME NEW U, DataInv, Clean(mem, U), NEW p \in Proc, NEW f \in Frame, swap_in_page(p, f)
    PROVE  Sound(mem, mem', U) /\ FaultsOK'
<1>0. Inv /\ Exclusive(mem) /\ Clean(mem, U)
  BY DEF DataInv
<1>1. PICK m \in Mm : m = mm[p]
  BY <1>0, ProcFacts DEF swap_in_page
<1>2. /\ f \in mem.free /\ InAlloc(p) /\ pc[p] = "swapin" /\ newpage[p] \in Held /\ ~panicked
      /\ mem.pte[m].kind = "swap"
  BY <1>0, <1>1, ProcFacts DEF swap_in_page, InAlloc, CanRun, Inv, EntriesOK
<1>3. PICK s, c : s = Taken(mem, f) /\ c = mem
  OBVIOUS
<1>4. PICK H, n : H = Held /\ n = newpage[p]
  OBVIOUS
<1>5. /\ Good(s, H \cup {f}, NoFrame) /\ f \notin H /\ f \notin s.free /\ s.pte = mem.pte
      /\ n \in H
  BY <1>0, <1>2, <1>3, <1>4, TakenGood DEF Inv
<1>6. PICK G : G = H \cup {f}
  OBVIOUS
<1>7. Good(s, G, NoFrame) /\ f \in G /\ G \ {f} = H
  BY <1>5, <1>6
<1>8. PICK e \in Slot : /\ e = s.pte[m].entry /\ s.pte[m].kind = "swap"
                        /\ s.mem_map[e] \in Nat /\ s.mem_map[e] # 0
  <2>1. s.pte[m].kind = "swap"
    BY <1>2, <1>5
  <2>q. QED
    BY <1>7, <2>1, HeldEntry
<1>9. \/ \E g \in swap_hash_find(s, e) : FaultDone(p, MapPage(free_page(s, f), p, g, n))
      \/ /\ swap_hash_find(s, e) = {}
         /\ FaultDone(p, MapPage(swap_page_add(Filled(s, f, s.disk[e]), f, e), p, f, n))
  <2>1. mem.pte[mm[p]].entry = e
    BY <1>1, <1>5, <1>8
  <2>q. QED
    BY <1>3, <1>4, <2>1, Zenon DEF swap_in_page, Filled
<1>13. \A k \in Mm : s.pte[k] = c.pte[k]
  BY <1>3, <1>5
<1>14. Quiet(c, s, U) /\ Exclusive(s) /\ Clean(s, U)
  <2>1. Good(c, H, NoFrame) /\ f \in c.free /\ s = Taken(c, f) /\ Exclusive(c) /\ Clean(c, U)
    BY <1>0, <1>2, <1>3, <1>4 DEF Inv
  <2>q. QED
    BY <2>1, TakenAlike DEF Quiet
<1>10. ASSUME NEW g \in Frame, NEW u, Good(u, H, NoFrame), \A k \in Mm : u.pte[k] = s.pte[k],
              g \notin u.free, g \notin H, Quiet(s, u, U), u.page[g].index = e,
              FaultDone(p, MapPage(u, p, g, n))
       PROVE  Sound(mem, mem', U) /\ FaultsOK'
  <2>1. Quiet(c, u, U)
    BY <1>10, <1>14, QuietQuiet
  <2>2. Reaches(u, m, g)
    BY <1>8, <1>10 DEF Reaches
  <2>3. \A k \in Mm : u.pte[k] = c.pte[k]
    BY <1>10, <1>13
  <2>q. QED
    <3>1. /\ mem.pte[m].kind # "invalid"
          /\ mem.pte[m].kind = "present" => write[p] /\ ~mem.pte[m].W
      BY <1>2
    <3>2. InAlloc(p) /\ ~panicked /\ c = mem /\ n \in H /\ m = mm[p]
      BY <1>1, <1>2, <1>3, <1>5
    <3>q. QED
      BY <1>10, <2>1, <2>2, <2>3, <3>1, <3>2, FoundSound
<1>11. ASSUME NEW g \in swap_hash_find(s, e), FaultDone(p, MapPage(free_page(s, f), p, g, n))
       PROVE  Sound(mem, mem', U) /\ FaultsOK'
  <2>1. PICK u : u = free_page(s, f)
    OBVIOUS
  <2>2. Good(u, G \ {f}, NoFrame)
    BY <1>7, <2>1, FreeGood
  <2>3. Good(u, H, NoFrame)
    BY <1>7, <2>2, Zenon
  <2>4. g \in Frame /\ s.page[g].index # NoSlot /\ s.page[g].index = e
    BY DEF swap_hash_find
  <2>5. g \notin s.free /\ g \notin G /\ s \in Mem
    BY <1>7, <2>4, FoundFrame DEF Good
  <2>6. Freed(s, u, f)
    BY <2>1, <2>5, FreeEffect
  <2>7. /\ \A k \in Mm : u.pte[k] = s.pte[k]
        /\ g \notin u.free /\ g \notin H /\ u.page[g].index = e
    BY <1>6, <2>4, <2>5, <2>6 DEF Freed
  <2>8. FaultDone(p, MapPage(u, p, g, n))
    BY <1>11, <2>1
  <2>9. Quiet(s, u, U)
    <3>1. s.page[f].ref = 0 /\ s.page[f].index = NoSlot
      BY <1>7, GoodCoherent DEF Coherent
    <3>2. Idle(s, u, f)
      BY <2>6, <3>1 DEF Idle, Freed
    <3>q. QED
      BY <1>7, <1>14, <3>2, IdleQuiet
  <2>q. QED
    BY <1>10, <2>3, <2>4, <2>7, <2>8, <2>9
<1>12. ASSUME swap_hash_find(s, e) = {},
              FaultDone(p, MapPage(swap_page_add(Filled(s, f, s.disk[e]), f, e), p, f, n))
       PROVE  Sound(mem, mem', U) /\ FaultsOK'
  <2>1. PICK u : u = swap_page_add(Filled(s, f, s.disk[e]), f, e)
    OBVIOUS
  <2>0. ReadInto(s, u, f, e)
    <3>1. s \in Mem
      BY <1>7 DEF Good
    <3>q. QED
      BY <2>1, <3>1, ReadEffect
  <2>2. s.mem_map[e] # UNUSED /\ OnlyOnDisk(s, e)
    BY <1>8, <1>12 DEF UNUSED, OnlyOnDisk, swap_hash_find
  <2>3. Good(u, H, NoFrame)
    <3>1. Good(u, G \ {f}, NoFrame)
      BY <1>7, <2>0, <2>2, ReadGood
    <3>q. QED
      BY <1>7, <3>1, Zenon
  <2>4. FaultDone(p, MapPage(u, p, f, n))
    BY <1>12, <2>1
  <2>5. f \notin u.free /\ (\A k \in Mm : u.pte[k] = s.pte[k]) /\ u.page[f].index = e
    BY <1>5, <2>0 DEF ReadInto
  <2>6. Quiet(s, u, U)
    BY <1>7, <1>14, <2>0, <2>2, ReadData
  <2>q. QED
    BY <1>5, <1>10, <2>3, <2>4, <2>5, <2>6
<1>q. QED
  BY <1>9, <1>11, <1>12

-----------------------------------------------------------------------------
(* Ends of processes, fork and kswapd                                       *)

\* page_remove_pte, for an address space whose page nobody is faulting on
LEMMA UnmapSound ==
    ASSUME NEW U, NEW s, NEW H, NEW m \in Mm, NEW r, Good(s, H, NoFrame), r = page_remove_pte(s, m),
           Exclusive(s), Clean(s, U)
    PROVE  Exclusive(r) /\ Clean(r, U) /\ Keeps(s, r, m) /\ Reads(r, m, Untouched)
<1>1. PICK x : x = NoFrame
  OBVIOUS
<1>2. Good(s, H, x) /\ (s.pte[m].kind = "present" => s.pte[m].page # x)
  <2>1. ASSUME s.pte[m].kind = "present" PROVE s.pte[m].page # x
    <3>1. PICK f \in Frame : f = s.pte[m].page
      BY <2>1, MappedFrame
    <3>q. QED
      BY <1>1, <3>1
  <2>q. QED
    BY <1>1, <2>1
<1>3. Exclusive(r) /\ Clean(r, U) /\ Keeps(s, r, m)
  BY <1>2, RemoveData
<1>4. /\ Good(r, H, NoFrame) /\ r.pte[m].kind = "invalid"
      /\ \A k \in Mm : k # m => r.pte[k] = s.pte[k]
  BY UnmappedGood
<1>q. QED
  BY <1>3, <1>4 DEF Reads

LEMMA EndSound ==
    ASSUME NEW U, NEW c, NEW s, NEW H, NEW p \in Proc, NEW m \in Mm, NEW r, m = mm[p],
           Good(s, H, NoFrame), r = Ended(s, p), Quiet(c, s, U)
    PROVE  Sound(c, r, U)
<1>1. Exclusive(s) /\ Clean(s, U)
  BY DEF Quiet
<1>2. CASE \E q \in Proc \ {p} : mm[q] = m
  <2>1. r = s
    BY <1>2, Zenon DEF Ended
  <2>q. QED
    BY <2>1, QuietSound
<1>3. CASE ~ \E q \in Proc \ {p} : mm[q] = m
  <2>1. r = page_remove_pte(s, m)
    BY <1>3, Zenon DEF Ended
  <2>2. Exclusive(r) /\ Clean(r, U) /\ Keeps(s, r, m) /\ Reads(r, m, Untouched)
    BY <1>1, <2>1, UnmapSound
  <2>3. PICK q : q = r
    OBVIOUS
  <2>4. Keeps(c, q, m)
    BY <2>2, <2>3 DEF Quiet, Keeps
  <2>5. Sound(c, q, U)
    BY <2>2, <2>3, <2>4, CleanMore DEF Sound, Observed
  <2>q. QED
    BY <2>3, <2>5
<1>q. QED
  BY <1>2, <1>3

\* The entries of everybody but the ending process are as they were.
EntriesKept(s, r, p, m) ==
    /\ \A k \in Mm : k # m => r.pte[k] = s.pte[k]
    /\ \A q \in Proc : q # p /\ mm[q] = m => r.pte[m] = s.pte[m]

LEMMA EndedEntries ==
    ASSUME NEW s, NEW H, NEW p \in Proc, NEW m \in Mm, NEW r, m = mm[p],
           Good(s, H, NoFrame), r = Ended(s, p)
    PROVE  EntriesKept(s, r, p, m)
<1>1. CASE \E q \in Proc \ {p} : mm[q] = m
  <2>1. r = s
    BY <1>1, Zenon DEF Ended
  <2>q. QED
    BY <2>1 DEF EntriesKept
<1>2. CASE ~ \E q \in Proc \ {p} : mm[q] = m
  <2>1. r = page_remove_pte(s, m)
    BY <1>2, Zenon DEF Ended
  <2>2. /\ Good(r, H, NoFrame) /\ r.pte[m].kind = "invalid"
        /\ \A k \in Mm : k # m => r.pte[k] = s.pte[k]
    BY <2>1, UnmappedGood
  <2>q. QED
    BY <1>2, <2>2 DEF EntriesKept
<1>q. QED
  BY <1>1, <1>2

\* An ending process does not disturb the faults of others.
LEMMA EndFaults ==
    ASSUME DataInv, NEW p \in Proc, NEW m \in Mm, NEW s, NEW H, m = mm[p], ~panicked,
           Good(s, H, NoFrame), \A k \in Mm : s.pte[k] = mem.pte[k], mem' = Ended(s, p),
           \A q \in Proc : q # p => pc'[q] = pc[q] /\ write'[q] = write[q] /\ mm'[q] = mm[q],
           pc'[p] = "user"
    PROVE  FaultsOK'
<1>1. PICK r : r = mem' /\ r = Ended(s, p)
  OBVIOUS
<1>e. EntriesKept(s, r, p, m)
  BY <1>1, EndedEntries
<1>2. /\ \A k \in Mm : k # m => r.pte[k] = s.pte[k]
      /\ \A q \in Proc : q # p /\ mm[q] = m => r.pte[m] = s.pte[m]
  BY <1>e DEF EntriesKept
<1>3. ASSUME NEW q \in Proc, pc'[q] = "cow"
      PROVE  /\ pc[q] = "cow" /\ write'[q] = write[q]
             /\ mem'.pte[mm'[q]].kind = "present" =>
                    mem.pte[mm[q]].kind = "present" /\ (mem'.pte[mm'[q]].W => mem.pte[mm[q]].W)
  <2>1. q # p /\ pc[q] = "cow" /\ write'[q] = write[q] /\ mm'[q] = mm[q]
    BY <1>3
  <2>2. mm[q] \in Mm
    BY <2>1, ProcFacts DEF DataInv
  <2>3. r.pte[mm[q]] = s.pte[mm[q]]
    BY <1>2, <2>1, <2>2
  <2>q. QED
    BY <1>1, <2>1, <2>2, <2>3
<1>q. QED
  BY <1>3, FaultsKept

LEMMA ExitSound ==
    ASSUME NEW U, DataInv, Clean(mem, U), NEW p \in Proc, do_exit(p)
    PROVE  Sound(mem, mem', U) /\ FaultsOK'
<1>0. Inv /\ Exclusive(mem) /\ Clean(mem, U)
  BY DEF DataInv
<1>1. PICK m \in Mm : m = mm[p]
  BY <1>0, ProcFacts DEF do_exit, CanRun
<1>2. /\ ~panicked /\ pc'[p] = "user" /\ mem' = Ended(mem, p)
      /\ \A q \in Proc : q # p => pc'[q] = pc[q] /\ write'[q] = write[q] /\ mm'[q] = mm[q]
  BY <1>0 DEF do_exit, CanRun, Inv, ProcsOK
<1>3. PICK s, H, r : s = mem /\ H = Held /\ r = mem'
  OBVIOUS
<1>4. Good(s, H, NoFrame) /\ r = Ended(s, p) /\ Quiet(s, s, U)
  BY <1>0, <1>2, <1>3 DEF Inv, Quiet, Keeps
<1>5. Sound(s, r, U)
  BY <1>1, <1>4, EndSound
<1>6. FaultsOK'
  <2>1. (\A k \in Mm : s.pte[k] = mem.pte[k]) /\ mem' = Ended(s, p)
    BY <1>2, <1>3
  <2>q. QED
    BY <1>1, <1>2, <1>4, <2>1, EndFaults
<1>q. QED
  BY <1>3, <1>5, <1>6

LEMMA SwapInFailsSound ==
    ASSUME NEW U, DataInv, Clean(mem, U), NEW p \in Proc, swap_in_fails(p)
    PROVE  Sound(mem, mem', U) /\ FaultsOK'
<1>0. Inv /\ Exclusive(mem) /\ Clean(mem, U)
  BY DEF DataInv
<1>1. PICK m \in Mm : m = mm[p]
  BY <1>0, ProcFacts DEF swap_in_fails, CanRun
<1>2. /\ ~panicked /\ pc'[p] = "user" /\ newpage[p] \in Held
      /\ \A q \in Proc : q # p => pc'[q] = pc[q] /\ write'[q] = write[q] /\ mm'[q] = mm[q]
  BY <1>0, ProcFacts DEF swap_in_fails, CanRun, Inv, ProcsOK
<1>3. PICK c, s, n, H, r : /\ s = free_page(c, n) /\ n = newpage[p] /\ H = Held /\ c = mem
                           /\ r = mem'
  OBVIOUS
<1>4. Good(c, H, NoFrame) /\ n \in H /\ Exclusive(c) /\ Clean(c, U)
  BY <1>0, <1>2, <1>3 DEF Inv
<1>5. PICK G : G = H \ {n}
  OBVIOUS
<1>6. Good(s, G, NoFrame)
  <2>1. Good(s, H \ {n}, NoFrame)
    BY <1>3, <1>4, FreeGood
  <2>q. QED
    BY <1>5, <2>1, Zenon
<1>7. Freed(c, s, n) /\ n \in Frame
  <2>1. c \in Mem /\ n \in Frame
    BY <1>4 DEF Good
  <2>q. QED
    BY <1>3, <2>1, FreeEffect
<1>8. Quiet(c, s, U)
  <2>1. c.page[n].ref = 0 /\ c.page[n].index = NoSlot
    BY <1>4, <1>7, GoodCoherent DEF Coherent
  <2>2. Idle(c, s, n)
    BY <1>7, <2>1 DEF Idle, Freed
  <2>q. QED
    BY <1>4, <2>2, IdleQuiet
<1>9. mem' = Ended(s, p)
  BY <1>3 DEF swap_in_fails
<1>10. r = Ended(s, p)
  BY <1>3, <1>9, Zenon
<1>11. Sound(c, r, U)
  BY <1>1, <1>6, <1>8, <1>10, EndSound
<1>12. FaultsOK'
  <2>1. \A k \in Mm : s.pte[k] = mem.pte[k]
    BY <1>3, <1>7 DEF Freed
  <2>q. QED
    BY <1>1, <1>2, <1>6, <1>9, <2>1, EndFaults
<1>q. QED
  BY <1>3, <1>11, <1>12

\* A step that leaves the processes alone and gives no page to a fault
LEMMA MemoryFaults ==
    ASSUME DataInv, ~panicked, UNCHANGED <<pc, write, mm>>, NEW m \in Mm,
           \A k \in Mm : k # m => mem'.pte[k] = mem.pte[k],
           mem'.pte[m].kind # "present" \/ mem'.pte[m] = mem.pte[m]
    PROVE  FaultsOK'
<1>1. ASSUME NEW q \in Proc, pc'[q] = "cow"
      PROVE  /\ pc[q] = "cow" /\ write'[q] = write[q]
             /\ mem'.pte[mm'[q]].kind = "present" =>
                    mem.pte[mm[q]].kind = "present" /\ (mem'.pte[mm'[q]].W => mem.pte[mm[q]].W)
  <2>1. pc[q] = "cow" /\ mm[q] \in Mm
    BY <1>1, ProcFacts DEF DataInv
  <2>q. QED
    BY <2>1
<1>q. QED
  BY <1>1, FaultsKept

LEMMA MmUnmapSound ==
    ASSUME NEW U, DataInv, Clean(mem, U), NEW p \in Proc, mm_unmap(p)
    PROVE  Sound(mem, mem', U) /\ FaultsOK'
<1>0. Inv /\ Exclusive(mem) /\ Clean(mem, U)
  BY DEF DataInv
<1>1. PICK m \in Mm : m = mm[p]
  BY <1>0, ProcFacts DEF mm_unmap, CanRun
<1>2. ~panicked /\ mem' = page_remove_pte(mem, m) /\ UNCHANGED <<mm, pc, write>>
  BY <1>1 DEF mm_unmap, procVars, CanRun
<1>3. PICK s, r, H : s = mem /\ r = mem' /\ H = Held
  OBVIOUS
<1>4. Good(s, H, NoFrame) /\ r = page_remove_pte(s, m) /\ Exclusive(s) /\ Clean(s, U)
  BY <1>0, <1>2, <1>3 DEF Inv
<1>5. Exclusive(r) /\ Clean(r, U) /\ Keeps(s, r, m) /\ Reads(r, m, Untouched)
  BY <1>4, UnmapSound
<1>6. Sound(mem, mem', U)
  <2>1. PICK q : q = r
    OBVIOUS
  <2>2. Sound(s, q, U)
    BY <1>5, <2>1, CleanMore DEF Sound, Observed
  <2>q. QED
    BY <1>3, <2>1, <2>2
<1>7. /\ Good(r, H, NoFrame) /\ r.pte[m].kind = "invalid"
      /\ \A k \in Mm : k # m => r.pte[k] = s.pte[k]
  BY <1>4, UnmappedGood
<1>8. FaultsOK'
  <2>1. mem'.pte[m].kind # "present" /\ \A k \in Mm : k # m => mem'.pte[k] = mem.pte[k]
    BY <1>3, <1>7
  <2>q. QED
    BY <1>2, <2>1, MemoryFaults
<1>q. QED
  BY <1>6, <1>8

LEMMA NewProcFaults ==
    ASSUME DataInv, ~panicked, NEW q \in Proc, mm[q] = NoMm,
           \A o \in Proc : o # q => mm'[o] = mm[o], UNCHANGED <<pc, write>>,
           \A o \in Proc : pc[o] = "cow" => mem'.pte[mm[o]] = mem.pte[mm[o]]
    PROVE  FaultsOK'
<1>1. ASSUME NEW o \in Proc, pc'[o] = "cow"
      PROVE  /\ pc[o] = "cow" /\ write'[o] = write[o]
             /\ mem'.pte[mm'[o]].kind = "present" =>
                    mem.pte[mm[o]].kind = "present" /\ (mem'.pte[mm'[o]].W => mem.pte[mm[o]].W)
  <2>1. pc[o] = "cow" /\ mm[o] # NoMm
    BY <1>1 DEF DataInv, Inv, ProcsOK
  <2>q. QED
    BY <2>1
<1>q. QED
  BY <1>1, FaultsKept

LEMMA CloneSound ==
    ASSUME NEW U, DataInv, Clean(mem, U), NEW p \in Proc, NEW q \in Proc, do_clone(p, q)
    PROVE  Sound(mem, mem', U) /\ FaultsOK'
<1>1. /\ ~panicked /\ mm[q] = NoMm /\ UNCHANGED <<mem, pc, write>>
      /\ \A o \in Proc : o # q => mm'[o] = mm[o]
  BY DEF do_clone, CanRun, DataInv, Inv, ProcsOK
<1>2. FaultsOK'
  BY <1>1, NewProcFaults
<1>3. Sound(mem, mem', U)
  BY <1>1, SameSound DEF DataInv
<1>q. QED
  BY <1>2, <1>3

LEMMA ForkSound ==
    ASSUME NEW U, DataInv, Clean(mem, U), NEW p \in Proc, NEW q \in Proc, NEW n \in Mm, do_fork(p, q, n)
    PROVE  Sound(mem, mem', U) /\ FaultsOK'
<1>0. Inv /\ Exclusive(mem) /\ Clean(mem, U)
  BY DEF DataInv
<1>1. PICK m \in Mm : m = mm[p]
  BY <1>0, ProcFacts DEF do_fork, CanRun
<1>2. /\ ~panicked /\ mm[q] = NoMm /\ UNCHANGED <<pc, write>>
      /\ \A o \in Proc : o # q => mm'[o] = mm[o]
      /\ mem' = copy_range(mem, m, n) /\ (\A o \in Proc : mm[o] # n) /\ m # n
  BY <1>0, <1>1 DEF do_fork, CanRun, Inv, ProcsOK
<1>3. mem.pte[n] = Invalid
  <2>1. mem.pte[n].kind = "invalid"
    BY <1>0, <1>2 DEF Inv, EntriesOK
  <2>2. mem.pte[n] \in Pte
    BY <1>0 DEF Inv, Good, Mem
  <2>q. QED
    BY <2>1, <2>2, PteFacts
<1>4. PICK s, r, H : s = mem /\ r = mem' /\ H = Held
  OBVIOUS
<1>5. /\ Good(s, H, NoFrame) /\ s.pte[n] = Invalid /\ r = copy_range(s, m, n)
      /\ Exclusive(s) /\ Clean(s, U)
  BY <1>0, <1>2, <1>3, <1>4 DEF Inv
<1>6. Good(r, H, NoFrame) /\ Forked(s, r, m, n) /\ CopySteps(s, r, m, n, H)
  BY <1>2, <1>5, ForkGood
<1>7. PICK u : u = r
  OBVIOUS
<1>8. CopySteps(s, u, m, n, H)
  BY <1>6, <1>7
<1>9. Copied(s, u, m, n, U)
  BY <1>2, <1>5, <1>8, CopyRangeData
<1>10. Sound(s, u, U)
  <2>1. Reads(s, n, Untouched)
    BY <1>5, PteKinds DEF Reads
  <2>q. QED
    BY <1>2, <1>9, <2>1, CleanMore DEF Copied, Sound, Observed
<1>11. FaultsOK'
  <2>1. \A k \in Mm : k # n /\ k # m => mem'.pte[k] = mem.pte[k]
    BY <1>4, <1>6 DEF Forked
  <2>2. \A o \in Proc : pc[o] = "cow" => mm[o] \in Mm /\ mm[o] # m
    BY <1>0, <1>1, ProcFacts DEF do_fork, Inv, ProcsOK, InAlloc
  <2>3. \A o \in Proc : pc[o] = "cow" => mem'.pte[mm[o]] = mem.pte[mm[o]]
    BY <1>2, <2>1, <2>2
  <2>q. QED
    BY <1>2, <2>3, NewProcFaults
<1>q. QED
  BY <1>4, <1>7, <1>10, <1>11

LEMMA SwapOutSound ==
    ASSUME NEW U, DataInv, Clean(mem, U), NEW m \in Mm, swap_out_vma(m)
    PROVE  Sound(mem, mem', U) /\ FaultsOK'
<1>0. Inv /\ Exclusive(mem) /\ Clean(mem, U)
  BY DEF DataInv
<1>1. mem.pte[m].kind = "present" /\ ~panicked /\ UNCHANGED <<mm, pc, write>>
  BY DEF swap_out_vma, procVars
<1>2. PICK s, r, H, f : s = mem /\ r = mem' /\ H = Held /\ f = s.pte[m].page
  OBVIOUS
<1>3. /\ Good(s, H, NoFrame) /\ s.pte[m].kind = "present" /\ Exclusive(s) /\ Clean(s, U)
  BY <1>0, <1>1, <1>2 DEF Inv
<1>4. f \in Frame /\ s.pte[m].page = f
  BY <1>2, <1>3, MappedFrame
<1>5. \/ ~PageSwap(s, f) /\ \E e \in SwapEntries(s) : r = SwappedOut(swap_page_add_new(s, f, e), m)
      \/ PageSwap(s, f) /\ r = SwappedOut(DirtyPage(s, f, s.pte[m].D), m)
  BY <1>2, Zenon DEF swap_out_vma, DirtyPage
<1>6. /\ Quiet(s, r, U) /\ r.pte[m].kind = "swap"
      /\ \A k \in Mm : k # m => r.pte[k] = s.pte[k]
  <2>1. ASSUME NEW e \in SwapEntries(s), ~PageSwap(s, f),
               r = SwappedOut(swap_page_add_new(s, f, e), m)
        PROVE  /\ Quiet(s, r, U) /\ r.pte[m].kind = "swap"
               /\ \A k \in Mm : k # m => r.pte[k] = s.pte[k]
    <3>1. Good(r, H, NoFrame) /\ SwapOutNew(s, r, m, f, e)
      BY <1>2, <1>3, <1>4, <2>1, NewSwapOutGood
    <3>2. e \in Slot /\ s.mem_map[e] \in {0, UNUSED} /\ s.page[f].index = NoSlot
      BY <2>1 DEF SwapEntries, Unused, Unneeded, PageSwap
    <3>3. PICK q : q = r
      OBVIOUS
    <3>4. SwapOutNew(s, q, m, f, e)
      BY <3>1, <3>3
    <3>5. Quiet(s, q, U)
      BY <1>3, <1>4, <3>2, <3>4, NewSwapOutData
    <3>6. q.pte[m].kind = "swap" /\ \A k \in Mm : k # m => q.pte[k] = s.pte[k]
      BY <3>2, <3>4, PteKinds DEF SwapOutNew, Vacated, NewlyListed, Swapped
    <3>q. QED
      BY <3>3, <3>5, <3>6
  <2>2. ASSUME PageSwap(s, f), r = SwappedOut(DirtyPage(s, f, s.pte[m].D), m)
        PROVE  /\ Quiet(s, r, U) /\ r.pte[m].kind = "swap"
               /\ \A k \in Mm : k # m => r.pte[k] = s.pte[k]
    <3>1. Good(r, H, NoFrame) /\ SwapOutOld(s, r, m, f)
      BY <1>2, <1>3, <1>4, <2>2, OldSwapOutGood
    <3>3. PICK q : q = r
      OBVIOUS
    <3>4. SwapOutOld(s, q, m, f)
      BY <3>1, <3>3
    <3>5. Quiet(s, q, U)
      BY <1>3, <1>4, <3>4, OldSwapOutData
    <3>6. q.pte[m].kind = "swap" /\ \A k \in Mm : k # m => q.pte[k] = s.pte[k]
      BY <3>4, PteKinds DEF SwapOutOld, PagePut, Swapped
    <3>q. QED
      BY <3>3, <3>5, <3>6
  <2>q. QED
    BY <1>5, <2>1, <2>2
<1>7. Sound(s, r, U)
  BY <1>6, QuietSound
<1>8. FaultsOK'
  <2>1. mem'.pte[m].kind # "present" /\ \A k \in Mm : k # m => mem'.pte[k] = mem.pte[k]
    BY <1>2, <1>6
  <2>q. QED
    BY <1>1, <2>1, MemoryFaults
<1>q. QED
  BY <1>2, <1>7, <1>8

LEMMA KswapdSound ==
    ASSUME NEW U, DataInv, Clean(mem, U), kswapd_main
    PROVE  Sound(mem, mem', U) /\ FaultsOK'
<1>0. Inv /\ Exclusive(mem) /\ Clean(mem, U)
  BY DEF DataInv
<1>1. PICK fails : mem' = refill_inactive_scan(page_launder(mem, fails))
  BY DEF kswapd_main
<1>2. UNCHANGED <<mm, pc, write>> /\ ~panicked
  BY DEF kswapd_main
<1>3. PICK s, r, H : s = mem /\ r = mem' /\ H = Held
  OBVIOUS
<1>4. /\ Good(s, H, NoFrame) /\ r = refill_inactive_scan(page_launder(s, fails))
      /\ Exclusive(s) /\ Clean(s, U)
  BY <1>0, <1>1, <1>3 DEF Inv
<1>5. PICK D : Scanned(s, r, D)
  BY <1>4, ScanEffect
<1>6. PICK q : q = r
  OBVIOUS
<1>7. Scanned(s, q, D)
  BY <1>5, <1>6
<1>8. Sound(s, q, U)
  <2>1. Exclusive(q) /\ Clean(q, U) /\ SetsBack(s, q, U)
    BY <1>4, <1>7, ScanData
  <2>q. QED
    BY <2>1, CleanMore DEF Sound
<1>9. q.pte = s.pte
  BY <1>7 DEF Scanned
<1>10. FaultsOK'
  <2>1. \A p \in Proc : pc'[p] = "cow" =>
            /\ pc[p] = "cow" /\ write'[p] = write[p]
            /\ mem'.pte[mm'[p]].kind = "present" =>
                    mem.pte[mm[p]].kind = "present" /\ (mem'.pte[mm'[p]].W => mem.pte[mm[p]].W)
    BY <1>2, <1>3, <1>6, <1>9
  <2>q. QED
    BY <1>2, <2>1, FaultsKept
<1>q. QED
  BY <1>3, <1>6, <1>8, <1>10

\* Steps that leave the memory and the faults alone
LEMMA StillSound ==
    ASSUME NEW U, DataInv, Clean(mem, U), UNCHANGED <<mem, mm, pc, write, panicked>>
    PROVE  Sound(mem, mem', U) /\ FaultsOK'
<1>1. FaultsOK'
  BY DEF DataInv, FaultsOK
<1>2. Sound(mem, mem', U)
  BY SameSound DEF DataInv
<1>q. QED
  BY <1>1, <1>2

LEMMA NextSound ==
    ASSUME NEW U, DataInv, Clean(mem, U), [Next]_vars
    PROVE  Sound(mem, mem', U) /\ FaultsOK'
<1>1. ASSUME NEW p \in Proc, NEW w \in BOOLEAN, Access(p, w) \/ Fault(p, w)
      PROVE  Sound(mem, mem', U) /\ FaultsOK'
  BY <1>1, AccessSound, FaultSound
<1>2. ASSUME NEW p \in Proc, do_pgfault(p) PROVE Sound(mem, mem', U) /\ FaultsOK'
  BY <1>2, PgfaultSound
<1>3. ASSUME NEW p \in Proc, try_free_pages(p) PROVE Sound(mem, mem', U) /\ FaultsOK'
  BY <1>3, StillSound DEF try_free_pages
<1>4. ASSUME NEW p \in Proc, NEW f \in Frame,
             pgdir_alloc_page(p, f) \/ CowPage(p, f) \/ swap_in_page(p, f)
      PROVE  Sound(mem, mem', U) /\ FaultsOK'
  BY <1>4, AllocPageSound, CowSound, SwapInSound
<1>5. ASSUME NEW p \in Proc, swap_in_fails(p) \/ do_exit(p) \/ mm_unmap(p)
      PROVE  Sound(mem, mem', U) /\ FaultsOK'
  BY <1>5, SwapInFailsSound, ExitSound, MmUnmapSound
<1>6. ASSUME NEW p \in Proc, NEW q \in Proc, do_clone(p, q)
      PROVE  Sound(mem, mem', U) /\ FaultsOK'
  BY <1>6, CloneSound
<1>7. ASSUME NEW p \in Proc, NEW q \in Proc, NEW n \in Mm, do_fork(p, q, n)
      PROVE  Sound(mem, mem', U) /\ FaultsOK'
  BY <1>7, ForkSound
<1>8. ASSUME NEW m \in Mm, swap_out_vma(m) PROVE Sound(mem, mem', U) /\ FaultsOK'
  BY <1>8, SwapOutSound
<1>9. ASSUME kswapd_main PROVE Sound(mem, mem', U) /\ FaultsOK'
  BY <1>9, KswapdSound
<1>10. ASSUME UNCHANGED vars PROVE Sound(mem, mem', U) /\ FaultsOK'
  BY <1>10, StillSound DEF vars, procVars
<1>q. QED
  BY <1>1, <1>2, <1>3, <1>4, <1>5, <1>6, <1>7, <1>8, <1>9, <1>10 DEF Next

LEMMA InitData == Init => DataInv /\ M!Init
<1> SUFFICES ASSUME Init PROVE DataInv /\ M!Init
  OBVIOUS
<1>1. Inv
  BY InitInv
<1>2. mem.pte = [m \in Mm |-> Invalid] /\ \A m \in Mm : mem.pte[m].kind = "invalid"
  BY PteKinds DEF Init
<1>3. Exclusive(mem)
  BY <1>2 DEF Exclusive, MayWrite
<1>4. FaultsOK
  BY DEF Init, FaultsOK
<1>5. \A m \in Mm : Content(m) = Untouched
  BY <1>2 DEF Content
<1>6. [m \in Mm |-> Content(m)] = [m \in Mm |-> Untouched]
  BY <1>5
<1>q. QED
  BY <1>1, <1>3, <1>4, <1>6, Zenon DEF DataInv, M!Init

\* The exceptions are the unsaved pages.
Unsaveds == {f \in Frame : Unsaved(f)}

LEMMA UnsavedClean == Clean(mem, Unsaveds)
BY DEF Clean, Unsaveds, Unsaved, PageSwap, Mapping

LEMMA BackSetBack ==
    ASSUME Inv, Inv', NEW k \in Mm, NEW s, NEW r, s = mem, r = mem', Back(s, r, k, Unsaveds)
    PROVE  SetBack(k)
<1>1. PICK f \in Frame : /\ f \in Unsaveds
                         /\ s.pte[k].kind = "swap" /\ s.pte[k].entry = s.page[f].index
                         /\ Reads(r, k, s.disk[s.page[f].index])
  BY DEF Back
<1>2. mem.pte[k] = SwapEntry(mem.page[f].index)
  <2>1. mem.pte[k] \in Pte
    BY DEF Inv, Good, Mem
  <2>q. QED
    BY <1>1, <2>1, PteFacts DEF SwapEntry
<1>3. PICK d : d = mem.disk[mem.page[f].index]
  OBVIOUS
<1>4. PICK H : H = Held'
  OBVIOUS
<1>5. ReadsJust(r, k, Value(r, k))
  <2>1. Good(r, H, NoFrame)
    BY <1>4 DEF Inv
  <2>q. QED
    BY <2>1, ValueReads
<1>6. Value(r, k) = d
  BY <1>1, <1>3, <1>5 DEF ReadsJust
<1>7. Content(k)' = Value(r, k)
  BY DEF Content, Value, swap_hash_find
<1>8. Content(k)' = mem.disk[mem.page[f].index]
  BY <1>3, <1>6, <1>7
<1>9. Unsaved(f)
  BY <1>1 DEF Unsaveds
<1>q. QED
  BY <1>2, <1>8, <1>9 DEF SetBack

LEMMA SetsBackStep ==
    ASSUME Inv, Inv', NEW s, NEW r, s = mem, r = mem', SetsBack(s, r, Unsaveds), NEW k \in Mm
    PROVE  Content(k)' = Content(k) \/ SetBack(k)
<1>1. CASE Back(s, r, k, Unsaveds)
  BY <1>1, BackSetBack
<1>2. CASE \A v : Reads(s, k, v) => Reads(r, k, v)
  <2>1. PICK G, H : G = Held /\ H = Held'
    OBVIOUS
  <2>2. Good(s, G, NoFrame) /\ Good(r, H, NoFrame)
    BY <2>1 DEF Inv
  <2>3. ReadsJust(s, k, Value(s, k)) /\ ReadsJust(r, k, Value(r, k))
    BY <2>2, ValueReads
  <2>4. Value(r, k) = Value(s, k)
    BY <1>2, <2>3 DEF ReadsJust
  <2>5. Content(k) = Value(s, k)
    BY DEF Content, Value
  <2>6. Content(k)' = Value(r, k)
    BY DEF Content, Value, swap_hash_find
  <2>q. QED
    BY <2>4, <2>5, <2>6
<1>q. QED
  BY <1>1, <1>2 DEF SetsBack

\* What PrivateButForDroppedBits says of a step
PrivateStep ==
    /\ M!Next \/ \A m \in Mm : Content(m)' = Content(m) \/ SetBack(m)
    /\ \A f \in Frame :
        Unsaved(f)' => Unsaved(f) \/ \E m \in Mm : DirtyBitDropped(m, f)

LEMMA NextPrivate ==
    ASSUME DataInv, [Next]_vars
    PROVE  DataInv' /\ PrivateStep
<1>1. Inv /\ Inv'
  BY NextInv DEF DataInv
<1>2. PICK U : U = Unsaveds
  OBVIOUS
<1>3. Clean(mem, U)
  BY <1>2, UnsavedClean
<1>4. Sound(mem, mem', U) /\ FaultsOK'
  BY <1>3, NextSound
<1>5. DataInv'
  BY <1>1, <1>4 DEF Sound, DataInv
<1>6. PICK s, r, G, H : s = mem /\ r = mem' /\ G = Held /\ H = Held'
  OBVIOUS
<1>7. M!Next \/ \A m \in Mm : Content(m)' = Content(m) \/ SetBack(m)
  <2>1. CASE Observed(s, r)
    <3>1. Good(s, G, NoFrame) /\ Good(r, H, NoFrame)
      BY <1>1, <1>6 DEF Inv
    <3>2. [M!Next]_[m \in Mm |-> Content(m)]
      BY <1>6, <2>1, <3>1, ObservedStep
    <3>3. CASE [m \in Mm |-> Content(m)]' = [m \in Mm |-> Content(m)]
      <4>1. PICK a, b : a = [m \in Mm |-> Content(m)] /\ b = [m \in Mm |-> Content(m)]'
        OBVIOUS
      <4>2. a = [m \in Mm |-> Content(m)] /\ b = [m \in Mm |-> Content(m)'] /\ a = b
        BY <3>3, <4>1
      <4>q. QED
        BY <4>2
    <3>q. QED
      BY <3>2, <3>3
  <2>2. CASE SetsBack(s, r, U)
    BY <1>1, <1>2, <1>6, <2>2, SetsBackStep
  <2>q. QED
    BY <1>4, <1>6, <2>1, <2>2 DEF Sound
<1>8. ASSUME NEW f \in Frame, Unsaved(f)'
      PROVE  Unsaved(f) \/ \E m \in Mm : DirtyBitDropped(m, f)
  <2>1. Clean(r, U \cup Relapsed(s, r))
    BY <1>4, <1>6 DEF Sound
  <2>2. /\ r.page[f].index # NoSlot /\ ~r.page[f].dirty
        /\ \A k \in Mm : r.pte[k].kind = "present" /\ r.pte[k].page = f => ~r.pte[k].D
        /\ r.disk[r.page[f].index] # r.page[f].data
    BY <1>6, <1>8 DEF Unsaved, PageSwap, Mapping
  <2>3. f \in U \cup Relapsed(s, r)
    BY <2>1, <2>2 DEF Clean
  <2>q. QED
    BY <1>2, <1>6, <2>3 DEF Unsaveds, Relapsed, DirtyBitDropped
<1>q. QED
  BY <1>5, <1>7, <1>8 DEF PrivateStep

\* do_pgfault, copy_range, exit_mmap and kswapd together keep memory private,
\* across copy on write, sharing after fork, swapping and the races between
\* them, for any number of processes, address spaces, frames and swap entries,
\* whatever runs between a fault and its access.  The one way in which content
\* can be lost starts with the dirty bit that page_insert drops.
THEOREM MemoryIsPrivateButForDroppedBits == Spec => PrivateButForDroppedBits
<1>1. Init => DataInv /\ M!Init
  BY InitData
<1>2. DataInv /\ [Next]_vars => DataInv' /\ [PrivateStep]_vars
  BY NextPrivate
<1>q. QED
  BY <1>1, <1>2, PTL DEF Spec, PrivateButForDroppedBits, PrivateStep
=============================================================================
