----------------------------- MODULE MboxProofs -----------------------------
(***************************************************************************)
(* A mailbox loses, doubles and frees twice no message, is opened again    *)
(* only when nobody is left in it, and leaves nobody asleep beside what it *)
(* waits for: for any number of processes, slots and messages, any sizes   *)
(* and timeouts.                                                           *)
(***************************************************************************)
EXTENDS Mbox, QueueLemmas

USE MboxAssumption

TypeOK ==
    /\ state \in {"CLOSED", "OPENED", "CLOSING"}
    /\ slots \in Nat /\ inuse \in Nat /\ made \in Nat
    /\ msg_link \in Seq(Msg)
    /\ senders \in Seq(Proc) /\ receivers \in Seq(Proc)
    /\ pc \in [Proc -> {"user", "send", "recv", "copy", "dead"}]
    /\ msg \in [Proc -> Msg \cup {NoMsg}]
    /\ max_bytes \in [Proc -> Nat]
    /\ asleep \in [Proc -> BOOLEAN] /\ wakeup_flags \in [Proc -> BOOLEAN]
    /\ timer \in [Proc -> Nat] /\ timeout \in [Proc -> Nat] /\ elapsed \in [Proc -> Nat]
    /\ exiting \in [Proc -> BOOLEAN]
    /\ panicked \in {"no", "add_timer"}

\* Who is in a queue is inside that call and has not been woken by a message or
\* a free slot.  A mailbox that is not open holds nothing.
QueuesOK ==
    /\ IsInjective(senders) /\ IsInjective(receivers)
    /\ \A p \in ToSet(senders) : pc[p] = "send" /\ wakeup_flags[p] = FALSE
    /\ \A p \in ToSet(receivers) : pc[p] = "recv" /\ wakeup_flags[p] = FALSE
    /\ state # "OPENED" => msg_link = <<>> /\ senders = <<>> /\ receivers = <<>>

\* The first n messages are each in one place: in the list, of which L is the
\* set, in somebody's hands H, or freed (F).
Places(L, H, F, n) ==
    /\ \A m \in L : m.id \in 1..n /\ m.id \notin F
    /\ \A p \in Proc : H[p] # NoMsg => H[p].id \in 1..n /\ H[p].id \notin F
    /\ F \subseteq 1..n
    /\ \A m, k \in L : m.id = k.id => m = k
    /\ \A p, q \in Proc : H[p] # NoMsg /\ H[q] # NoMsg /\ H[p].id = H[q].id => p = q
    /\ \A m \in L : \A p \in Proc : H[p] # NoMsg => H[p].id # m.id
    /\ \A i \in 1..n : \/ i \in F
                       \/ \E m \in L : m.id = i
                       \/ \E p \in Proc : H[p] # NoMsg /\ H[p].id = i

MessagesOK ==
    /\ IsInjective(msg_link)
    /\ Places(ToSet(msg_link), msg, freed, made)
    /\ \A p \in Proc : msg[p] # NoMsg <=> pc[p] \in {"send", "copy"}

\* The processes inside send_msg and recv_msg
Inside == {p \in Proc : pc[p] \in {"send", "recv"}}

CountsOK ==
    /\ inuse = Cardinality(Inside)
    /\ state = "OPENED" => slots = Len(msg_link)
    /\ state = "CLOSED" => inuse = 0 /\ slots = 0

\* NobodyStuck, also of a mailbox that has just made the kernel panic
WakeupsOK ==
    state = "OPENED" =>
        /\ receivers # <<>> => slots <= Cardinality(OnTheWay("recv"))
        /\ senders # <<>> => MaxSlots <= slots + Cardinality(OnTheWay("send"))

Inv == TypeOK /\ QueuesOK /\ MessagesOK /\ CountsOK /\ WakeupsOK

-----------------------------------------------------------------------------
(* Where messages are                                                       *)

\* load_msg: a new message, in the list or in the hands of its sender
LEMMA NewInList ==
    ASSUME NEW n \in Nat, NEW L \in SUBSET Msg, NEW H \in [Proc -> Msg \cup {NoMsg}], NEW F,
           NEW m, m.id = n + 1, Places(L, H, F, n)
    PROVE  Places(L \cup {m}, H, F, n + 1)
<1>1. \A i \in 1..n : i \in 1..(n + 1) /\ i # n + 1
  OBVIOUS
<1>2. \A i \in 1..(n + 1) : i \in 1..n \/ i = n + 1
  OBVIOUS
<1>3. n + 1 \in 1..(n + 1) /\ n + 1 \notin 1..n
  OBVIOUS
<1>q. QED
  BY <1>1, <1>2, <1>3 DEF Places

LEMMA NewInHands ==
    ASSUME NEW n \in Nat, NEW L \in SUBSET Msg, NEW H \in [Proc -> Msg \cup {NoMsg}], NEW F,
           NEW m \in Msg, m.id = n + 1, NEW p \in Proc, H[p] = NoMsg, Places(L, H, F, n)
    PROVE  Places(L, [H EXCEPT ![p] = m], F, n + 1)
<1> DEFINE G == [H EXCEPT ![p] = m]
<1>0. G[p] = m /\ m # NoMsg /\ \A q \in Proc : q # p => G[q] = H[q]
  BY DEF Msg
<1> HIDE DEF G
<1>1. \A i \in 1..n : i \in 1..(n + 1) /\ i # n + 1
  OBVIOUS
<1>2. \A i \in 1..(n + 1) : i \in 1..n \/ i = n + 1
  OBVIOUS
<1>3. n + 1 \in 1..(n + 1) /\ n + 1 \notin 1..n
  OBVIOUS
<1>q. QED
  BY <1>0, <1>1, <1>2, <1>3 DEF Places, G

\* add_msg of what a process has in its hands
LEMMA HandsToList ==
    ASSUME NEW n \in Nat, NEW L \in SUBSET Msg, NEW H \in [Proc -> Msg \cup {NoMsg}], NEW F,
           NEW p \in Proc, H[p] # NoMsg, Places(L, H, F, n)
    PROVE  Places(L \cup {H[p]}, [H EXCEPT ![p] = NoMsg], F, n)
<1> DEFINE G == [H EXCEPT ![p] = NoMsg]
<1>0. G[p] = NoMsg /\ \A q \in Proc : q # p => G[q] = H[q]
  OBVIOUS
<1> HIDE DEF G
<1>q. QED
  BY <1>0 DEF Places, G

\* pick_msg
LEMMA ListToHands ==
    ASSUME NEW n \in Nat, NEW L \in SUBSET Msg, NEW H \in [Proc -> Msg \cup {NoMsg}], NEW F,
           NEW p \in Proc, H[p] = NoMsg, NEW m \in L, Places(L, H, F, n)
    PROVE  Places(L \ {m}, [H EXCEPT ![p] = m], F, n)
<1> DEFINE G == [H EXCEPT ![p] = m]
<1>0. G[p] = m /\ m # NoMsg /\ \A q \in Proc : q # p => G[q] = H[q]
  BY DEF Msg
<1> HIDE DEF G
<1>q. QED
  BY <1>0 DEF Places, G

\* free_msg of what a process has in its hands, ...
LEMMA HandsToFreed ==
    ASSUME NEW n \in Nat, NEW L \in SUBSET Msg, NEW H \in [Proc -> Msg \cup {NoMsg}], NEW F,
           NEW p \in Proc, H[p] # NoMsg, Places(L, H, F, n)
    PROVE  Places(L, [H EXCEPT ![p] = NoMsg], F \cup {H[p].id}, n)
<1> DEFINE G == [H EXCEPT ![p] = NoMsg]
           d == H[p].id
<1>0. G[p] = NoMsg /\ \A q \in Proc : q # p => G[q] = H[q]
  OBVIOUS
<1>1. d \in 1..n /\ \A m \in L : m.id # d
  BY DEF Places
<1>2. \A q \in Proc : q # p /\ H[q] # NoMsg => H[q].id # d
  BY DEF Places
<1>3. \A q \in Proc : H[q] # NoMsg /\ H[q].id # d => q # p
  OBVIOUS
<1> HIDE DEF G, d
<1>4. ASSUME NEW i \in 1..n
      PROVE  \/ i \in F \cup {d}
             \/ \E m \in L : m.id = i
             \/ \E q \in Proc : G[q] # NoMsg /\ G[q].id = i
  <2>1. CASE \E q \in Proc : H[q] # NoMsg /\ H[q].id = i
    <3>1. PICK q \in Proc : H[q] # NoMsg /\ H[q].id = i
      BY <2>1
    <3>2. CASE q = p
      BY <3>1, <3>2 DEF d
    <3>3. CASE q # p
      BY <1>0, <3>1, <3>3
    <3>q. QED
      BY <3>2, <3>3
  <2>q. QED
    BY <2>1 DEF Places
<1>5. \A m \in L : m.id \in 1..n /\ m.id \notin F \cup {d}
  BY <1>1 DEF Places
<1>6. \A q \in Proc : G[q] # NoMsg => q # p /\ G[q] = H[q]
  BY <1>0
<1>7. \A q \in Proc : G[q] # NoMsg => G[q].id \in 1..n /\ G[q].id \notin F \cup {d}
  BY <1>2, <1>6 DEF Places
<1>8. F \cup {d} \subseteq 1..n
  BY <1>1 DEF Places
<1>9. /\ \A q, r \in Proc : G[q] # NoMsg /\ G[r] # NoMsg /\ G[q].id = G[r].id => q = r
      /\ \A m \in L : \A q \in Proc : G[q] # NoMsg => G[q].id # m.id
      /\ \A m, k \in L : m.id = k.id => m = k
  BY <1>6 DEF Places
<1>10. Places(L, G, F \cup {d}, n)
  BY <1>4, <1>5, <1>7, <1>8, <1>9 DEF Places
<1>q. QED
  BY <1>10 DEF G, d

\* ... and of the whole list
LEMMA ListToFreed ==
    ASSUME NEW n \in Nat, NEW L \in SUBSET Msg, NEW H \in [Proc -> Msg \cup {NoMsg}], NEW F,
           Places(L, H, F, n)
    PROVE  Places({}, H, F \cup {m.id : m \in L}, n)
<1> DEFINE D == {m.id : m \in L}
<1>0. /\ \A x \in D : \E m \in L : x = m.id
      /\ \A m \in L : m.id \in D
  OBVIOUS
<1> HIDE DEF D
<1>1. F \cup D \subseteq 1..n
  <2>1. ASSUME NEW x \in D PROVE x \in 1..n
    <3>1. PICK m \in L : x = m.id
      BY <1>0
    <3>2. m.id \in 1..n
      BY DEF Places
    <3>q. QED
      BY <3>1, <3>2
  <2>2. F \subseteq 1..n
    BY DEF Places
  <2>q. QED
    BY <2>1, <2>2
<1>2. \A p \in Proc : H[p] # NoMsg => H[p].id \in 1..n /\ H[p].id \notin F \cup D
  BY <1>0 DEF Places
<1>3. ASSUME NEW i \in 1..n
      PROVE  i \in F \cup D \/ \E p \in Proc : H[p] # NoMsg /\ H[p].id = i
  <2>1. CASE \E m \in L : m.id = i
    BY <1>0, <2>1
  <2>q. QED
    BY <2>1 DEF Places
<1>4. \A p, q \in Proc : H[p] # NoMsg /\ H[q] # NoMsg /\ H[p].id = H[q].id => p = q
  BY DEF Places
<1>5. Places({}, H, F \cup D, n)
  BY <1>1, <1>2, <1>3, <1>4 DEF Places
<1>q. QED
  BY <1>5 DEF D
-----------------------------------------------------------------------------
(* The parts of the invariant that a step changes                           *)

LEMMA Counts ==
    /\ Cardinality(Inside) \in Nat
    /\ \A w : OnTheWay(w) \in SUBSET Proc /\ Cardinality(OnTheWay(w)) \in Nat
    /\ Inside \in SUBSET Proc
<1>1. Inside \in SUBSET Proc /\ \A w : OnTheWay(w) \in SUBSET Proc
  BY DEF Inside, OnTheWay
<1>q. QED
  BY <1>1, Count

\* The wait queue that a wakeup takes its first record from, if it has one
LEMMA FirstAndRest ==
    ASSUME NEW S, NEW q \in Seq(S), IsInjective(q)
    PROVE  /\ Rest(q) \in Seq(S) /\ IsInjective(Rest(q))
           /\ ToSet(Rest(q)) = ToSet(q) \ First(q)
           /\ First(q) \subseteq ToSet(q) /\ First(q) \subseteq S
           /\ q = <<>> => First(q) = {} /\ Rest(q) = <<>>
           /\ q # <<>> => \E h \in S : First(q) = {h} /\ h \in ToSet(q)
<1>1. CASE q = <<>>
  BY <1>1, QueueEmpty DEF First, Rest
<1>2. CASE q # <<>>
  <2>1. First(q) = {Head(q)} /\ Rest(q) = Tail(q)
    BY <1>2 DEF First, Rest
  <2>q. QED
    BY <1>2, <2>1, QueueTail
<1>q. QED
  BY <1>1, <1>2

\* add_msg by p, which leaves the mailbox or was not in it
LEMMA AddMsgOK ==
    ASSUME Inv, NEW p \in Proc, NEW list, add_msg(p, list), Return(p), state = "OPENED",
           pc[p] \in {"user", "copy"} \/ (pc[p] = "send" /\ wakeup_flags[p] = TRUE),
           list \in Seq(Msg), Len(list) = Len(msg_link) + 1, IsInjective(list),
           Places(ToSet(list), msg', freed', made'), made' \in Nat,
           msg' \in [Proc -> Msg \cup {NoMsg}], msg'[p] = NoMsg,
           \A x \in Proc : x # p => msg'[x] = msg[x],
           inuse' = IF pc[p] = "send" THEN inuse - 1 ELSE inuse,
           UNCHANGED <<state, senders, exiting, panicked>>
    PROVE  Inv'
<1> DEFINE W == First(receivers)
<1>0. TypeOK
  BY DEF Inv
<1>1. /\ receivers' \in Seq(Proc) /\ IsInjective(receivers')
      /\ ToSet(receivers') = ToSet(receivers) \ W
      /\ W \subseteq ToSet(receivers) /\ W \subseteq Proc
      /\ receivers = <<>> => receivers' = <<>>
      /\ receivers # <<>> => \E h \in Proc : W = {h} /\ h \in ToSet(receivers)
  BY <1>0, FirstAndRest DEF Inv, TypeOK, QueuesOK, add_msg
<1>2. /\ slots' = slots + 1 /\ msg_link' = list /\ Wake(p, W, TRUE)
  BY DEF add_msg
<1>3. /\ pc' \in [Proc -> {"user", "send", "recv", "copy", "dead"}]
      /\ pc'[p] \in {"user", "dead"} /\ \A x \in Proc : x # p => pc'[x] = pc[x]
      /\ timer' \in [Proc -> Nat] /\ timeout' \in [Proc -> Nat] /\ elapsed' \in [Proc -> Nat]
      /\ max_bytes' \in [Proc -> Nat]
  BY <1>0 DEF Return, TypeOK
<1>4. /\ asleep' \in [Proc -> BOOLEAN] /\ wakeup_flags' \in [Proc -> BOOLEAN]
      /\ \A x \in Proc : x \notin W /\ x # p => wakeup_flags'[x] = wakeup_flags[x]
      /\ \A x \in Proc : x \in W => wakeup_flags'[x] = TRUE
  BY <1>0, <1>2 DEF Wake, TypeOK
<1>5. /\ \A x \in ToSet(senders) : x \in Proc /\ pc[x] = "send" /\ wakeup_flags[x] = FALSE
      /\ \A x \in ToSet(receivers) : x \in Proc /\ pc[x] = "recv" /\ wakeup_flags[x] = FALSE
  BY <1>0, QueueType DEF Inv, TypeOK, QueuesOK
<1>6. p \notin W /\ W \in SUBSET Proc /\ \A x \in W : pc[x] = "recv"
  BY <1>1, <1>5
<1> HIDE DEF W
<1>7. QueuesOK'
  <2>1. \A x \in ToSet(senders) : pc'[x] = "send" /\ wakeup_flags'[x] = FALSE
    BY <1>3, <1>4, <1>5, <1>6
  <2>2. \A x \in ToSet(receivers') : pc'[x] = "recv" /\ wakeup_flags'[x] = FALSE
    BY <1>1, <1>3, <1>4, <1>5
  <2>q. QED
    BY <1>1, <2>1, <2>2 DEF Inv, QueuesOK
<1>8. MessagesOK'
  <2>1. \A x \in Proc : msg'[x] # NoMsg <=> pc'[x] \in {"send", "copy"}
    BY <1>3 DEF Inv, MessagesOK
  <2>q. QED
    BY <1>2, <2>1 DEF MessagesOK
<1>9. CountsOK' /\ inuse' \in Nat
  <2>1. CASE pc[p] = "send"
    <3>1. Inside' = Inside \ {p} /\ p \in Inside
      BY <1>3, <2>1 DEF Inside
    <3>2. Cardinality(Inside') = Cardinality(Inside) - 1
      BY <3>1, Counts, Count
    <3>3. Cardinality(Inside') \in Nat
      BY <3>1, Counts, Count
    <3>q. QED
      BY <1>2, <2>1, <3>2, <3>3 DEF Inv, CountsOK
  <2>2. CASE pc[p] # "send"
    <3>1. Inside' = Inside
      BY <1>3, <2>2 DEF Inside
    <3>q. QED
      BY <1>0, <1>2, <2>2, <3>1 DEF Inv, CountsOK, TypeOK
  <2>q. QED
    BY <2>1, <2>2
<1>10. TypeOK'
  <2>1. slots' \in Nat /\ msg_link' \in Seq(Msg)
    BY <1>0, <1>2 DEF TypeOK
  <2>2. /\ state' \in {"CLOSED", "OPENED", "CLOSING"} /\ senders' \in Seq(Proc)
        /\ exiting' \in [Proc -> BOOLEAN] /\ panicked' \in {"no", "add_timer"}
    BY <1>0 DEF TypeOK
  <2>3. receivers' \in Seq(Proc) /\ inuse' \in Nat
    BY <1>1, <1>9
  <2>q. QED
    BY <1>3, <1>4, <2>1, <2>2, <2>3 DEF TypeOK
<1>11. WakeupsOK'
  <2>0. /\ slots \in Nat /\ Cardinality(OnTheWay("recv")) \in Nat
        /\ Cardinality(OnTheWay("send")) \in Nat
    BY <1>0, Counts DEF TypeOK
  <2>1. ASSUME receivers' # <<>>
        PROVE  slots' <= Cardinality(OnTheWay("recv")')
    <3>1. PICK h \in Proc : W = {h} /\ h \in ToSet(receivers)
      BY <1>1, <2>1
    <3>3. p \notin OnTheWay("recv") /\ h \notin OnTheWay("recv")
      BY <1>5, <3>1 DEF OnTheWay
    <3>4. OnTheWay("recv")' = OnTheWay("recv") \cup {h}
      BY <1>3, <1>4, <1>6, <3>1, <3>3 DEF OnTheWay
    <3>5. Cardinality(OnTheWay("recv")') = Cardinality(OnTheWay("recv")) + 1
      BY <3>3, <3>4, Counts, Count
    <3>6. slots <= Cardinality(OnTheWay("recv"))
      BY <1>1, <2>1 DEF Inv, WakeupsOK
    <3>q. QED
      BY <1>2, <2>0, <3>5, <3>6
  <2>2. ASSUME senders' # <<>>
        PROVE  MaxSlots <= slots' + Cardinality(OnTheWay("send")')
    <3>1. OnTheWay("send")' = OnTheWay("send") \ {p}
      BY <1>3, <1>4, <1>6 DEF OnTheWay
    <3>2. MaxSlots <= slots + Cardinality(OnTheWay("send"))
      BY <2>2 DEF Inv, WakeupsOK
    <3>3. CASE p \in OnTheWay("send")
      <4>1. Cardinality(OnTheWay("send")') = Cardinality(OnTheWay("send")) - 1
        BY <3>1, <3>3, Counts, Count
      <4>q. QED
        BY <1>2, <2>0, <3>2, <4>1
    <3>4. CASE p \notin OnTheWay("send")
      <4>1. OnTheWay("send")' = OnTheWay("send")
        BY <3>1, <3>4
      <4>q. QED
        BY <1>2, <2>0, <3>2, <4>1
    <3>q. QED
      BY <3>3, <3>4
  <2>q. QED
    BY <2>1, <2>2 DEF WakeupsOK
<1>q. QED
  BY <1>7, <1>8, <1>9, <1>10, <1>11 DEF Inv
\* A process that is not inside send_msg or recv_msg any more, or was not
LEMMA LeftInside ==
    ASSUME NEW p \in Proc, pc'[p] \notin {"send", "recv"}, inuse = Cardinality(Inside),
           \A x \in Proc : x # p => pc'[x] = pc[x],
           inuse' = IF pc[p] \in {"send", "recv"} THEN inuse - 1 ELSE inuse
    PROVE  inuse' \in Nat /\ inuse' = Cardinality(Inside)'
<1>1. CASE pc[p] \in {"send", "recv"}
  <2>1. Inside' = Inside \ {p} /\ p \in Inside
    BY <1>1 DEF Inside
  <2>2. /\ Cardinality(Inside') = Cardinality(Inside) - 1
        /\ Cardinality(Inside') \in Nat
    BY <2>1, Counts, Count
  <2>q. QED
    BY <1>1, <2>2
<1>2. CASE pc[p] \notin {"send", "recv"}
  <2>1. Inside' = Inside
    BY <1>2 DEF Inside
  <2>q. QED
    BY <1>2, <2>1, Counts
<1>q. QED
  BY <1>1, <1>2

\* One that is now, and was not
LEMMA CameInside ==
    ASSUME NEW p \in Proc, pc'[p] \in {"send", "recv"}, inuse = Cardinality(Inside),
           \A x \in Proc : x # p => pc'[x] = pc[x],
           pc[p] \notin {"send", "recv"}, Enter
    PROVE  inuse' \in Nat /\ inuse' = Cardinality(Inside)'
<1>1. Inside' = Inside \cup {p} /\ p \notin Inside
  BY DEF Inside
<1>2. Cardinality(Inside') = Cardinality(Inside) + 1
  BY <1>1, Counts, Count
<1>q. QED
  BY <1>2, Counts DEF Enter

\* pick_msg by p, which leaves the mailbox or was not in it
LEMMA PickMsgOK ==
    ASSUME Inv, NEW p \in Proc, pick_msg(p), state = "OPENED", slots > 0,
           pc[p] = "user" \/ (pc[p] = "recv" /\ wakeup_flags[p] = TRUE),
           pc' = [pc EXCEPT ![p] = "copy"], msg' = [msg EXCEPT ![p] = Head(msg_link)],
           timer' = [timer EXCEPT ![p] = 0], timeout' = [timeout EXCEPT ![p] = 0],
           elapsed' = [elapsed EXCEPT ![p] = 0],
           inuse' = IF pc[p] = "recv" THEN inuse - 1 ELSE inuse,
           UNCHANGED <<state, receivers, max_bytes, exiting, made, freed, panicked>>
    PROVE  Inv'
<1> DEFINE W == First(senders)
<1>0. TypeOK
  BY DEF Inv
<1>1. /\ senders' \in Seq(Proc) /\ IsInjective(senders')
      /\ ToSet(senders') = ToSet(senders) \ W
      /\ W \subseteq ToSet(senders) /\ W \subseteq Proc
      /\ senders = <<>> => senders' = <<>>
      /\ senders # <<>> => \E h \in Proc : W = {h} /\ h \in ToSet(senders)
  BY <1>0, FirstAndRest DEF Inv, TypeOK, QueuesOK, pick_msg
<1>2. /\ slots' = slots - 1 /\ msg_link' = Tail(msg_link) /\ Wake(p, W, TRUE)
  BY DEF pick_msg
<1>3. /\ pc' \in [Proc -> {"user", "send", "recv", "copy", "dead"}]
      /\ pc'[p] = "copy" /\ \A x \in Proc : x # p => pc'[x] = pc[x]
      /\ timer' \in [Proc -> Nat] /\ timeout' \in [Proc -> Nat] /\ elapsed' \in [Proc -> Nat]
  BY <1>0 DEF TypeOK
<1>4. /\ asleep' \in [Proc -> BOOLEAN] /\ wakeup_flags' \in [Proc -> BOOLEAN]
      /\ \A x \in Proc : x \notin W /\ x # p => wakeup_flags'[x] = wakeup_flags[x]
      /\ \A x \in Proc : x \in W => wakeup_flags'[x] = TRUE
  BY <1>0, <1>2 DEF Wake, TypeOK
<1>5. /\ \A x \in ToSet(senders) : x \in Proc /\ pc[x] = "send" /\ wakeup_flags[x] = FALSE
      /\ \A x \in ToSet(receivers) : x \in Proc /\ pc[x] = "recv" /\ wakeup_flags[x] = FALSE
  BY <1>0, QueueType DEF Inv, TypeOK, QueuesOK
<1>6. p \notin W /\ W \in SUBSET Proc /\ \A x \in W : pc[x] = "send"
  BY <1>1, <1>5
<1> HIDE DEF W
<1>7. /\ msg_link # <<>> /\ slots \in Nat /\ slots' \in Nat
      /\ Head(msg_link) \in Msg /\ Head(msg_link) \in ToSet(msg_link)
      /\ msg_link' \in Seq(Msg) /\ slots' = Len(msg_link')
      /\ IsInjective(msg_link') /\ ToSet(msg_link') = ToSet(msg_link) \ {Head(msg_link)}
  <2>1. msg_link \in Seq(Msg) /\ slots \in Nat /\ slots = Len(msg_link) /\ IsInjective(msg_link)
    BY <1>0 DEF Inv, TypeOK, MessagesOK, CountsOK
  <2>2. msg_link # <<>>
    BY <2>1
  <2>q. QED
    BY <1>2, <2>1, <2>2, QueueTail
<1>8. /\ msg' \in [Proc -> Msg \cup {NoMsg}] /\ msg'[p] # NoMsg
      /\ \A x \in Proc : x # p => msg'[x] = msg[x]
  BY <1>0, <1>7 DEF TypeOK, Msg
<1>9. MessagesOK'
  <2>1. \A x \in Proc : msg'[x] # NoMsg <=> pc'[x] \in {"send", "copy"}
    BY <1>3, <1>8 DEF Inv, MessagesOK
  <2>2. Places(ToSet(msg_link'), msg', freed, made)
    <3>1. /\ ToSet(msg_link) \in SUBSET Msg /\ made \in Nat
          /\ msg \in [Proc -> Msg \cup {NoMsg}]
      BY <1>0, QueueType DEF TypeOK
    <3>2. msg[p] = NoMsg /\ Places(ToSet(msg_link), msg, freed, made)
      BY <1>0 DEF Inv, MessagesOK, TypeOK
    <3>3. Places(ToSet(msg_link) \ {Head(msg_link)}, [msg EXCEPT ![p] = Head(msg_link)],
                 freed, made)
      BY <1>7, <3>1, <3>2, ListToHands
    <3>q. QED
      BY <1>7, <3>3
  <2>q. QED
    BY <1>7, <2>1, <2>2 DEF MessagesOK
<1>10. QueuesOK'
  <2>1. \A x \in ToSet(receivers) : pc'[x] = "recv" /\ wakeup_flags'[x] = FALSE
    BY <1>3, <1>4, <1>5, <1>6
  <2>2. \A x \in ToSet(senders') : pc'[x] = "send" /\ wakeup_flags'[x] = FALSE
    BY <1>1, <1>3, <1>4, <1>5
  <2>q. QED
    BY <1>1, <2>1, <2>2 DEF Inv, QueuesOK
<1>11. inuse' \in Nat /\ inuse' = Cardinality(Inside)'
  BY <1>3, LeftInside DEF Inv, CountsOK
<1>12. CountsOK'
  BY <1>7, <1>11 DEF CountsOK
<1>13. TypeOK'
  <2>1. /\ state' \in {"CLOSED", "OPENED", "CLOSING"} /\ receivers' \in Seq(Proc)
        /\ exiting' \in [Proc -> BOOLEAN] /\ panicked' \in {"no", "add_timer"}
        /\ max_bytes' \in [Proc -> Nat] /\ made' \in Nat
    BY <1>0 DEF TypeOK
  <2>2. senders' \in Seq(Proc) /\ inuse' \in Nat /\ slots' \in Nat /\ msg_link' \in Seq(Msg)
    BY <1>1, <1>7, <1>11
  <2>q. QED
    BY <1>3, <1>4, <1>8, <2>1, <2>2 DEF TypeOK
<1>14. WakeupsOK'
  <2>0. Cardinality(OnTheWay("recv")) \in Nat /\ Cardinality(OnTheWay("send")) \in Nat
    BY Counts
  <2>1. ASSUME senders' # <<>>
        PROVE  MaxSlots <= slots' + Cardinality(OnTheWay("send")')
    <3>1. PICK h \in Proc : W = {h} /\ h \in ToSet(senders)
      BY <1>1, <2>1
    <3>2. p \notin OnTheWay("send") /\ h \notin OnTheWay("send")
      BY <1>5, <3>1 DEF OnTheWay
    <3>3. OnTheWay("send")' = OnTheWay("send") \cup {h}
      BY <1>3, <1>4, <1>6, <3>1, <3>2 DEF OnTheWay
    <3>4. Cardinality(OnTheWay("send")') = Cardinality(OnTheWay("send")) + 1
      BY <3>2, <3>3, Counts, Count
    <3>5. MaxSlots <= slots + Cardinality(OnTheWay("send"))
      BY <1>1, <2>1 DEF Inv, WakeupsOK
    <3>q. QED
      BY <1>2, <1>7, <2>0, <3>4, <3>5
  <2>2. ASSUME receivers' # <<>>
        PROVE  slots' <= Cardinality(OnTheWay("recv")')
    <3>1. OnTheWay("recv")' = OnTheWay("recv") \ {p}
      BY <1>3, <1>4, <1>6 DEF OnTheWay
    <3>2. slots <= Cardinality(OnTheWay("recv"))
      BY <2>2 DEF Inv, WakeupsOK
    <3>3. CASE p \in OnTheWay("recv")
      <4>1. Cardinality(OnTheWay("recv")') = Cardinality(OnTheWay("recv")) - 1
        BY <3>1, <3>3, Counts, Count
      <4>q. QED
        BY <1>2, <1>7, <2>0, <3>2, <4>1
    <3>4. CASE p \notin OnTheWay("recv")
      <4>1. OnTheWay("recv")' = OnTheWay("recv")
        BY <3>1, <3>4
      <4>q. QED
        BY <1>2, <1>7, <2>0, <3>2, <4>1
    <3>q. QED
      BY <3>3, <3>4
  <2>q. QED
    BY <2>1, <2>2 DEF WakeupsOK
<1>q. QED
  BY <1>9, <1>10, <1>12, <1>13, <1>14 DEF Inv

\* A receiver that finds the first message too big, and leaves the mailbox or
\* was not in it
LEMMA TooBigOK ==
    ASSUME Inv, NEW p \in Proc, TooBig(p), state = "OPENED",
           pc[p] = "user" \/ (pc[p] = "recv" /\ wakeup_flags[p] = TRUE),
           inuse' = IF pc[p] = "recv" THEN inuse - 1 ELSE inuse,
           UNCHANGED <<state, exiting, made, freed, panicked>>
    PROVE  Inv'
<1> DEFINE W == First(receivers)
<1>0. TypeOK
  BY DEF Inv
<1>1. /\ receivers' \in Seq(Proc) /\ IsInjective(receivers')
      /\ ToSet(receivers') = ToSet(receivers) \ W
      /\ W \subseteq ToSet(receivers) /\ W \subseteq Proc
      /\ receivers = <<>> => receivers' = <<>>
      /\ receivers # <<>> => \E h \in Proc : W = {h} /\ h \in ToSet(receivers)
  BY <1>0, FirstAndRest DEF Inv, TypeOK, QueuesOK, TooBig
<1>2. /\ Wake(p, W, TRUE) /\ Return(p)
      /\ UNCHANGED <<slots, msg_link, senders, msg>>
  BY DEF TooBig
<1>3. /\ pc' \in [Proc -> {"user", "send", "recv", "copy", "dead"}]
      /\ pc'[p] \in {"user", "dead"} /\ \A x \in Proc : x # p => pc'[x] = pc[x]
      /\ timer' \in [Proc -> Nat] /\ timeout' \in [Proc -> Nat] /\ elapsed' \in [Proc -> Nat]
      /\ max_bytes' \in [Proc -> Nat]
  BY <1>0, <1>2 DEF Return, TypeOK
<1>4. /\ asleep' \in [Proc -> BOOLEAN] /\ wakeup_flags' \in [Proc -> BOOLEAN]
      /\ \A x \in Proc : x \notin W /\ x # p => wakeup_flags'[x] = wakeup_flags[x]
      /\ \A x \in Proc : x \in W => wakeup_flags'[x] = TRUE
  BY <1>0, <1>2 DEF Wake, TypeOK
<1>5. /\ \A x \in ToSet(senders) : x \in Proc /\ pc[x] = "send" /\ wakeup_flags[x] = FALSE
      /\ \A x \in ToSet(receivers) : x \in Proc /\ pc[x] = "recv" /\ wakeup_flags[x] = FALSE
  BY <1>0, QueueType DEF Inv, TypeOK, QueuesOK
<1>6. p \notin W /\ W \in SUBSET Proc /\ \A x \in W : pc[x] = "recv"
  BY <1>1, <1>5
<1> HIDE DEF W
<1>7. QueuesOK'
  <2>1. \A x \in ToSet(senders) : pc'[x] = "send" /\ wakeup_flags'[x] = FALSE
    BY <1>3, <1>4, <1>5, <1>6
  <2>2. \A x \in ToSet(receivers') : pc'[x] = "recv" /\ wakeup_flags'[x] = FALSE
    BY <1>1, <1>3, <1>4, <1>5
  <2>q. QED
    BY <1>1, <1>2, <2>1, <2>2 DEF Inv, QueuesOK
<1>8. MessagesOK'
  <2>1. \A x \in Proc : msg'[x] # NoMsg <=> pc'[x] \in {"send", "copy"}
    BY <1>2, <1>3 DEF Inv, MessagesOK
  <2>2. msg_link' = msg_link /\ msg' = msg
    BY <1>2
  <2>q. QED
    BY <2>1, <2>2 DEF Inv, MessagesOK
<1>9. inuse' \in Nat /\ inuse' = Cardinality(Inside)'
  BY <1>3, LeftInside DEF Inv, CountsOK
<1>10. CountsOK'
  BY <1>2, <1>9 DEF Inv, CountsOK
<1>11. TypeOK'
  <2>1. /\ state' \in {"CLOSED", "OPENED", "CLOSING"} /\ senders' \in Seq(Proc)
        /\ exiting' \in [Proc -> BOOLEAN] /\ panicked' \in {"no", "add_timer"}
        /\ made' \in Nat /\ slots' \in Nat /\ msg_link' \in Seq(Msg)
        /\ msg' \in [Proc -> Msg \cup {NoMsg}]
    BY <1>0, <1>2 DEF TypeOK
  <2>q. QED
    BY <1>1, <1>3, <1>4, <1>9, <2>1 DEF TypeOK
<1>12. WakeupsOK'
  <2>0. /\ slots \in Nat /\ Cardinality(OnTheWay("recv")) \in Nat
        /\ Cardinality(OnTheWay("send")) \in Nat
    BY <1>0, Counts DEF TypeOK
  <2>1. ASSUME receivers' # <<>>
        PROVE  slots' <= Cardinality(OnTheWay("recv")')
    <3>1. PICK h \in Proc : W = {h} /\ h \in ToSet(receivers)
      BY <1>1, <2>1
    <3>2. h \notin OnTheWay("recv") /\ h # p
      BY <1>5, <1>6, <3>1 DEF OnTheWay
    <3>3. OnTheWay("recv")' = (OnTheWay("recv") \ {p}) \cup {h}
      BY <1>3, <1>4, <1>6, <3>1, <3>2 DEF OnTheWay
    <3>4. Cardinality(OnTheWay("recv") \ {p}) >= Cardinality(OnTheWay("recv")) - 1
      <4>1. CASE p \in OnTheWay("recv")
        BY <2>0, <4>1, Counts, Count
      <4>2. CASE p \notin OnTheWay("recv")
        <5>1. OnTheWay("recv") \ {p} = OnTheWay("recv")
          BY <4>2
        <5>2. Cardinality(OnTheWay("recv") \ {p}) = Cardinality(OnTheWay("recv"))
          BY <5>1, Zenon
        <5>q. QED
          BY <2>0, <5>2
      <4>q. QED
        BY <4>1, <4>2
    <3>5. /\ Cardinality(OnTheWay("recv")') = Cardinality(OnTheWay("recv") \ {p}) + 1
          /\ Cardinality(OnTheWay("recv") \ {p}) \in Nat
      <4>1. OnTheWay("recv") \ {p} \in SUBSET Proc /\ h \notin OnTheWay("recv") \ {p}
        BY <3>2, Counts
      <4>q. QED
        BY <3>3, <4>1, Count
    <3>6. slots <= Cardinality(OnTheWay("recv"))
      BY <1>1, <2>1 DEF Inv, WakeupsOK
    <3>q. QED
      BY <1>2, <2>0, <3>4, <3>5, <3>6
  <2>2. ASSUME senders' # <<>>
        PROVE  MaxSlots <= slots' + Cardinality(OnTheWay("send")')
    <3>1. OnTheWay("send")' = OnTheWay("send")
      BY <1>3, <1>4, <1>6 DEF OnTheWay
    <3>q. QED
      BY <1>2, <2>2, <3>1 DEF Inv, WakeupsOK
  <2>q. QED
    BY <2>1, <2>2 DEF WakeupsOK
<1>q. QED
  BY <1>7, <1>8, <1>10, <1>11, <1>12 DEF Inv
\* send_msg finds the mailbox full, and sleeps for the first time or again.
LEMMA SendSleepsOK ==
    ASSUME Inv, NEW p \in Proc, state = "OPENED", slots >= MaxSlots,
           senders' = Append(senders, p), Sleep(p),
           pc[p] = "user" \/ (pc[p] = "send" /\ wakeup_flags[p] = TRUE),
           pc' \in [Proc -> {"user", "send", "recv", "copy", "dead"}],
           pc'[p] = "send", \A x \in Proc : x # p => pc'[x] = pc[x],
           inuse' \in Nat, inuse' = Cardinality(Inside)',
           msg' \in [Proc -> Msg \cup {NoMsg}], msg'[p] # NoMsg,
           \A x \in Proc : x # p => msg'[x] = msg[x],
           made' \in Nat, Places(ToSet(msg_link), msg', freed, made'),
           timer' \in [Proc -> Nat], timeout' \in [Proc -> Nat], elapsed' \in [Proc -> Nat],
           panicked' \in {"no", "add_timer"},
           UNCHANGED <<state, slots, msg_link, receivers, max_bytes, exiting, freed>>
    PROVE  Inv'
<1>0. TypeOK
  BY DEF Inv
<1>1. /\ asleep' \in [Proc -> BOOLEAN] /\ wakeup_flags' \in [Proc -> BOOLEAN]
      /\ wakeup_flags'[p] = FALSE
      /\ \A x \in Proc : x # p => wakeup_flags'[x] = wakeup_flags[x]
  BY <1>0 DEF Sleep, TypeOK
<1>2. /\ \A x \in ToSet(senders) : x \in Proc /\ pc[x] = "send" /\ wakeup_flags[x] = FALSE
      /\ \A x \in ToSet(receivers) : x \in Proc /\ pc[x] = "recv" /\ wakeup_flags[x] = FALSE
  BY <1>0, QueueType DEF Inv, TypeOK, QueuesOK
<1>3. p \notin ToSet(senders) /\ p \notin ToSet(receivers)
  BY <1>2
<1>4. /\ senders' \in Seq(Proc) /\ IsInjective(senders')
      /\ ToSet(senders') = ToSet(senders) \cup {p}
  BY <1>0, <1>3, QueueAdd DEF Inv, TypeOK, QueuesOK
<1>5. QueuesOK'
  <2>0. \A x \in ToSet(senders) \cup {p} : pc'[x] = "send" /\ wakeup_flags'[x] = FALSE
    BY <1>1, <1>2, ZenonT(30)
  <2>1. \A x \in ToSet(senders') : pc'[x] = "send" /\ wakeup_flags'[x] = FALSE
    BY <1>4, <2>0, Zenon
  <2>2. \A x \in ToSet(receivers) : pc'[x] = "recv" /\ wakeup_flags'[x] = FALSE
    BY <1>1, <1>2, <1>3, ZenonT(30)
  <2>3. IsInjective(receivers) /\ state' = "OPENED" /\ receivers' = receivers
    BY DEF Inv, QueuesOK
  <2>q. QED
    BY <1>4, <2>1, <2>2, <2>3 DEF QueuesOK
<1>6. MessagesOK'
  <2>1. \A x \in Proc : msg'[x] # NoMsg <=> pc'[x] \in {"send", "copy"}
    BY DEF Inv, MessagesOK
  <2>q. QED
    BY <2>1 DEF Inv, MessagesOK
<1>7. CountsOK'
  BY DEF Inv, CountsOK
<1>8. TypeOK'
  <2>1. /\ state' \in {"CLOSED", "OPENED", "CLOSING"} /\ receivers' \in Seq(Proc)
        /\ exiting' \in [Proc -> BOOLEAN] /\ max_bytes' \in [Proc -> Nat]
        /\ slots' \in Nat /\ msg_link' \in Seq(Msg)
    BY <1>0 DEF TypeOK
  <2>q. QED
    BY <1>1, <1>4, <2>1 DEF TypeOK
<1>9. WakeupsOK'
  <2>1. MaxSlots <= slots' + Cardinality(OnTheWay("send")')
    <3>1. OnTheWay("send")' \in SUBSET Proc
      BY DEF OnTheWay
    <3>2. Cardinality(OnTheWay("send")') \in Nat /\ slots' \in Nat /\ slots' >= MaxSlots
      BY <1>0, <3>1, Count DEF TypeOK
    <3>q. QED
      BY <3>2
  <2>2. OnTheWay("recv")' = OnTheWay("recv")
    BY <1>1 DEF OnTheWay
  <2>q. QED
    BY <2>1, <2>2 DEF Inv, WakeupsOK
<1>q. QED
  BY <1>5, <1>6, <1>7, <1>8, <1>9 DEF Inv

\* recv_msg finds the mailbox empty, and sleeps for the first time or again.
LEMMA RecvSleepsOK ==
    ASSUME Inv, NEW p \in Proc, state = "OPENED", slots = 0,
           receivers' = Append(receivers, p), Sleep(p),
           pc[p] = "user" \/ (pc[p] = "recv" /\ wakeup_flags[p] = TRUE),
           pc' \in [Proc -> {"user", "send", "recv", "copy", "dead"}],
           pc'[p] = "recv", \A x \in Proc : x # p => pc'[x] = pc[x],
           inuse' \in Nat, inuse' = Cardinality(Inside)', max_bytes' \in [Proc -> Nat],
           timer' \in [Proc -> Nat], timeout' \in [Proc -> Nat], elapsed' \in [Proc -> Nat],
           panicked' \in {"no", "add_timer"},
           UNCHANGED <<state, slots, msg_link, senders, msg, exiting, made, freed>>
    PROVE  Inv'
<1>0. TypeOK
  BY DEF Inv
<1>1. /\ asleep' \in [Proc -> BOOLEAN] /\ wakeup_flags' \in [Proc -> BOOLEAN]
      /\ wakeup_flags'[p] = FALSE
      /\ \A x \in Proc : x # p => wakeup_flags'[x] = wakeup_flags[x]
  BY <1>0 DEF Sleep, TypeOK
<1>2. /\ \A x \in ToSet(senders) : x \in Proc /\ pc[x] = "send" /\ wakeup_flags[x] = FALSE
      /\ \A x \in ToSet(receivers) : x \in Proc /\ pc[x] = "recv" /\ wakeup_flags[x] = FALSE
  BY <1>0, QueueType DEF Inv, TypeOK, QueuesOK
<1>3. p \notin ToSet(senders) /\ p \notin ToSet(receivers)
  BY <1>2
<1>4. /\ receivers' \in Seq(Proc) /\ IsInjective(receivers')
      /\ ToSet(receivers') = ToSet(receivers) \cup {p}
  BY <1>0, <1>3, QueueAdd DEF Inv, TypeOK, QueuesOK
<1>5. QueuesOK'
  <2>1. \A x \in ToSet(receivers') : pc'[x] = "recv" /\ wakeup_flags'[x] = FALSE
    BY <1>1, <1>2, <1>4
  <2>2. \A x \in ToSet(senders) : pc'[x] = "send" /\ wakeup_flags'[x] = FALSE
    BY <1>1, <1>2, <1>3
  <2>3. IsInjective(senders) /\ state' = "OPENED" /\ senders' = senders
    BY DEF Inv, QueuesOK
  <2>q. QED
    BY <1>4, <2>1, <2>2, <2>3 DEF QueuesOK
<1>6. MessagesOK'
  <2>1. \A x \in Proc : msg'[x] # NoMsg <=> pc'[x] \in {"send", "copy"}
    BY DEF Inv, MessagesOK
  <2>q. QED
    BY <2>1 DEF Inv, MessagesOK
<1>7. CountsOK'
  BY DEF Inv, CountsOK
<1>8. TypeOK'
  <2>1. /\ state' \in {"CLOSED", "OPENED", "CLOSING"} /\ senders' \in Seq(Proc)
        /\ exiting' \in [Proc -> BOOLEAN] /\ made' \in Nat
        /\ slots' \in Nat /\ msg_link' \in Seq(Msg) /\ msg' \in [Proc -> Msg \cup {NoMsg}]
    BY <1>0 DEF TypeOK
  <2>q. QED
    BY <1>1, <1>4, <2>1 DEF TypeOK
<1>9. WakeupsOK'
  <2>1. slots' <= Cardinality(OnTheWay("recv")')
    <3>1. OnTheWay("recv")' \in SUBSET Proc
      BY DEF OnTheWay
    <3>2. Cardinality(OnTheWay("recv")') \in Nat
      BY <3>1, Count
    <3>q. QED
      BY <3>2
  <2>2. OnTheWay("send")' = OnTheWay("send")
    BY <1>1 DEF OnTheWay
  <2>q. QED
    BY <2>1, <2>2 DEF Inv, WakeupsOK
<1>q. QED
  BY <1>5, <1>6, <1>7, <1>8, <1>9 DEF Inv

\* The end of send_msg and recv_msg after a sleep that got nothing
LEMMA LeaveOK ==
    ASSUME Inv, NEW p \in Proc, pc[p] \in {"send", "recv"},
           state # "OPENED" \/ wakeup_flags[p] = FALSE, panicked = "no",
           senders' \in Seq(Proc), IsInjective(senders'),
           ToSet(senders') = ToSet(senders) \ {p},
           receivers' \in Seq(Proc), IsInjective(receivers'),
           ToSet(receivers') = ToSet(receivers) \ {p},
           Leave, Return(p), Wake(p, {}, FALSE),
           msg' \in [Proc -> Msg \cup {NoMsg}], msg'[p] = NoMsg,
           \A x \in Proc : x # p => msg'[x] = msg[x],
           Places(ToSet(msg_link), msg', freed', made),
           UNCHANGED <<msg_link, exiting, made>>
    PROVE  Inv'
<1>0. TypeOK
  BY DEF Inv
<1>1. /\ asleep' \in [Proc -> BOOLEAN] /\ wakeup_flags' \in [Proc -> BOOLEAN]
      /\ wakeup_flags'[p] = FALSE
      /\ \A x \in Proc : x # p => wakeup_flags'[x] = wakeup_flags[x]
  BY <1>0 DEF Wake, TypeOK
<1>2. /\ \A x \in ToSet(senders) : x \in Proc /\ pc[x] = "send" /\ wakeup_flags[x] = FALSE
      /\ \A x \in ToSet(receivers) : x \in Proc /\ pc[x] = "recv" /\ wakeup_flags[x] = FALSE
  BY <1>0, QueueType DEF Inv, TypeOK, QueuesOK
<1>3. /\ pc' \in [Proc -> {"user", "send", "recv", "copy", "dead"}]
      /\ pc'[p] \in {"user", "dead"} /\ \A x \in Proc : x # p => pc'[x] = pc[x]
      /\ timer' \in [Proc -> Nat] /\ timeout' \in [Proc -> Nat] /\ elapsed' \in [Proc -> Nat]
      /\ max_bytes' \in [Proc -> Nat]
  BY <1>0 DEF Return, TypeOK
<1>4. inuse' \in Nat /\ inuse' = Cardinality(Inside)' /\ inuse' = inuse - 1
  <2>1. inuse' = inuse - 1
    BY DEF Leave
  <2>q. QED
    BY <1>3, <2>1, LeftInside DEF Inv, CountsOK
<1>5. /\ senders = <<>> => senders' = <<>>
      /\ receivers = <<>> => receivers' = <<>>
  BY QueueEmpty
<1>6. /\ state' = state \/ (state # "OPENED" /\ state' = "CLOSED")
      /\ state' = state => slots' = slots \/ state # "OPENED"
      /\ state' = "CLOSED" => inuse' = 0 /\ slots' = 0
      /\ slots' \in Nat /\ panicked' = "no"
  <2>0. inuse \in Nat /\ slots \in Nat /\ (state = "CLOSED" => inuse = 0)
    BY <1>0 DEF Inv, CountsOK, TypeOK
  <2>1. CASE state # "OPENED" /\ inuse' = 0
    <3>1. FreeOK
      BY <1>5, <2>1 DEF Inv, QueuesOK, FreeOK
    <3>2. state' = "CLOSED" /\ slots' = 0 /\ panicked' = "no"
      BY <2>1, <3>1, Zenon DEF Leave
    <3>q. QED
      BY <2>1, <3>2
  <2>2. CASE ~(state # "OPENED" /\ inuse' = 0)
    BY <1>4, <2>0, <2>2 DEF Leave
  <2>q. QED
    BY <2>1, <2>2
<1>7. QueuesOK'
  <2>1. \A x \in ToSet(receivers') : pc'[x] = "recv" /\ wakeup_flags'[x] = FALSE
    BY <1>1, <1>2, <1>3
  <2>2. \A x \in ToSet(senders') : pc'[x] = "send" /\ wakeup_flags'[x] = FALSE
    BY <1>1, <1>2, <1>3
  <2>3. state' # "OPENED" => msg_link' = <<>> /\ senders' = <<>> /\ receivers' = <<>>
    BY <1>5, <1>6 DEF Inv, QueuesOK
  <2>q. QED
    BY <2>1, <2>2, <2>3 DEF QueuesOK
<1>8. MessagesOK'
  <2>1. \A x \in Proc : msg'[x] # NoMsg <=> pc'[x] \in {"send", "copy"}
    BY <1>3 DEF Inv, MessagesOK
  <2>q. QED
    BY <2>1 DEF Inv, MessagesOK
<1>9. CountsOK'
  BY <1>4, <1>6 DEF Inv, CountsOK
<1>10. TypeOK'
  <2>1. /\ exiting' \in [Proc -> BOOLEAN] /\ made' \in Nat /\ msg_link' \in Seq(Msg)
        /\ state' \in {"CLOSED", "OPENED", "CLOSING"}
    BY <1>0, <1>6 DEF TypeOK
  <2>q. QED
    BY <1>1, <1>3, <1>4, <1>6, <2>1 DEF TypeOK
<1>11. WakeupsOK'
  <2>1. CASE state' = "OPENED"
    <3>1. state = "OPENED" /\ slots' = slots
      BY <1>6, <2>1
    <3>2. OnTheWay("send")' = OnTheWay("send") /\ OnTheWay("recv")' = OnTheWay("recv")
      BY <1>1, <1>3, <3>1 DEF OnTheWay
    <3>q. QED
      BY <1>5, <3>1, <3>2 DEF Inv, WakeupsOK
  <2>q. QED
    BY <2>1 DEF WakeupsOK
<1>q. QED
  BY <1>7, <1>8, <1>9, <1>10, <1>11 DEF Inv
\* Ticks, kills and their like leave the mailbox and the messages alone.
LEMMA QuietOK ==
    ASSUME Inv, UNCHANGED <<boxVars, wakeup_flags, msg, max_bytes, made, freed, panicked>>,
           pc' \in [Proc -> {"user", "send", "recv", "copy", "dead"}],
           \A x \in Proc : pc'[x] = pc[x] \/ (pc[x] = "user" /\ pc'[x] = "dead"),
           asleep' \in [Proc -> BOOLEAN], exiting' \in [Proc -> BOOLEAN],
           timer' \in [Proc -> Nat], timeout' \in [Proc -> Nat], elapsed' \in [Proc -> Nat]
    PROVE  Inv'
<1>0. TypeOK
  BY DEF Inv
<1>1. /\ state' = state /\ slots' = slots /\ inuse' = inuse /\ msg_link' = msg_link
      /\ senders' = senders /\ receivers' = receivers
  BY DEF boxVars
<1>2. TypeOK'
  BY <1>0, <1>1 DEF TypeOK
<1>3. /\ \A x \in ToSet(senders) : x \in Proc /\ pc[x] = "send" /\ wakeup_flags[x] = FALSE
      /\ \A x \in ToSet(receivers) : x \in Proc /\ pc[x] = "recv" /\ wakeup_flags[x] = FALSE
  BY <1>0, QueueType DEF Inv, TypeOK, QueuesOK
<1>4. QueuesOK'
  BY <1>1, <1>3 DEF Inv, QueuesOK
<1>5. MessagesOK'
  <2>1. \A x \in Proc : msg'[x] # NoMsg <=> pc'[x] \in {"send", "copy"}
    BY DEF Inv, MessagesOK
  <2>q. QED
    BY <1>1, <2>1 DEF Inv, MessagesOK
<1>6. Inside' = Inside
  BY DEF Inside
<1>7. OnTheWay("send")' = OnTheWay("send") /\ OnTheWay("recv")' = OnTheWay("recv")
  BY DEF OnTheWay
<1>8. CountsOK' /\ WakeupsOK'
  BY <1>1, <1>6, <1>7 DEF Inv, CountsOK, WakeupsOK
<1>q. QED
  BY <1>2, <1>4, <1>5, <1>8 DEF Inv

LEMMA InitOK ==
    ASSUME Inv, NEW p \in Proc, ipc_mbox_init(p)
    PROVE  Inv'
<1>0. TypeOK
  BY DEF Inv
<1>1. /\ state = "CLOSED" /\ state' = "OPENED" /\ Return(p) /\ pc[p] = "user"
      /\ slots' = slots /\ inuse' = inuse /\ msg_link' = msg_link /\ senders' = senders
      /\ receivers' = receivers /\ asleep' = asleep /\ wakeup_flags' = wakeup_flags
      /\ msg' = msg /\ exiting' = exiting /\ made' = made /\ freed' = freed
      /\ panicked' = panicked
  BY DEF ipc_mbox_init
<1>2. /\ pc' \in [Proc -> {"user", "send", "recv", "copy", "dead"}]
      /\ pc'[p] \in {"user", "dead"} /\ \A x \in Proc : x # p => pc'[x] = pc[x]
      /\ timer' \in [Proc -> Nat] /\ timeout' \in [Proc -> Nat] /\ elapsed' \in [Proc -> Nat]
      /\ max_bytes' \in [Proc -> Nat]
  BY <1>0, <1>1 DEF Return, TypeOK
<1>3. msg_link = <<>> /\ senders = <<>> /\ receivers = <<>> /\ slots = 0 /\ inuse = 0
  BY <1>1 DEF Inv, QueuesOK, CountsOK
<1>4. TypeOK'
  BY <1>0, <1>1, <1>2 DEF TypeOK
<1>5. QueuesOK'
  BY <1>1, <1>3, QueueEmpty DEF QueuesOK
<1>6. MessagesOK'
  <2>1. \A x \in Proc : msg'[x] # NoMsg <=> pc'[x] \in {"send", "copy"}
    BY <1>1, <1>2 DEF Inv, MessagesOK
  <2>q. QED
    BY <1>1, <2>1 DEF Inv, MessagesOK
<1>7. Inside' = Inside
  BY <1>1, <1>2 DEF Inside
<1>8. Len(msg_link') = 0
  BY <1>1, <1>3
<1>9. CountsOK'
  BY <1>1, <1>3, <1>7, <1>8 DEF Inv, CountsOK
<1>10. WakeupsOK'
  BY <1>1, <1>3 DEF WakeupsOK
<1>q. QED
  BY <1>4, <1>5, <1>6, <1>9, <1>10 DEF Inv

LEMMA FreeMboxOK ==
    ASSUME Inv, NEW p \in Proc, ipc_mbox_free(p)
    PROVE  Inv'
<1> DEFINE W == ToSet(senders) \cup ToSet(receivers)
<1>0. TypeOK
  BY DEF Inv
<1>1. /\ pc[p] = "user" /\ Return(p) /\ Wake(p, W, FALSE)
      /\ state' = IF inuse = 0 THEN "CLOSED" ELSE "CLOSING"
      /\ slots' = IF inuse = 0 THEN 0 ELSE slots
      /\ msg_link' = <<>> /\ freed' = freed \cup {m.id : m \in ToSet(msg_link)}
      /\ senders' = <<>> /\ receivers' = <<>>
      /\ inuse' = inuse /\ msg' = msg /\ exiting' = exiting /\ made' = made
      /\ panicked' = panicked
  BY DEF ipc_mbox_free
<1>2. /\ pc' \in [Proc -> {"user", "send", "recv", "copy", "dead"}]
      /\ pc'[p] \in {"user", "dead"} /\ \A x \in Proc : x # p => pc'[x] = pc[x]
      /\ timer' \in [Proc -> Nat] /\ timeout' \in [Proc -> Nat] /\ elapsed' \in [Proc -> Nat]
      /\ max_bytes' \in [Proc -> Nat]
  BY <1>0, <1>1 DEF Return, TypeOK
<1>3. asleep' \in [Proc -> BOOLEAN] /\ wakeup_flags' \in [Proc -> BOOLEAN]
  BY <1>0, <1>1 DEF Wake, TypeOK
<1>4. /\ state' \in {"CLOSED", "CLOSING"} /\ slots' \in Nat
      /\ state' = "CLOSED" => inuse' = 0 /\ slots' = 0
  BY <1>0, <1>1 DEF TypeOK
<1>5. TypeOK'
  <2>1. /\ inuse' \in Nat /\ msg' \in [Proc -> Msg \cup {NoMsg}] /\ made' \in Nat
        /\ exiting' \in [Proc -> BOOLEAN] /\ panicked' \in {"no", "add_timer"}
    BY <1>0, <1>1 DEF TypeOK
  <2>2. msg_link' \in Seq(Msg) /\ senders' \in Seq(Proc) /\ receivers' \in Seq(Proc)
    BY <1>1, QueueEmpty
  <2>q. QED
    BY <1>2, <1>3, <1>4, <2>1, <2>2 DEF TypeOK
<1>6. QueuesOK'
  BY <1>1, QueueEmpty DEF QueuesOK
<1>7. MessagesOK'
  <2>1. \A x \in Proc : msg'[x] # NoMsg <=> pc'[x] \in {"send", "copy"}
    BY <1>1, <1>2 DEF Inv, MessagesOK
  <2>2. Places({}, msg, freed \cup {m.id : m \in ToSet(msg_link)}, made)
    <3>1. /\ ToSet(msg_link) \in SUBSET Msg /\ made \in Nat
          /\ msg \in [Proc -> Msg \cup {NoMsg}]
      BY <1>0, QueueType DEF TypeOK
    <3>2. Places(ToSet(msg_link), msg, freed, made)
      BY DEF Inv, MessagesOK
    <3>q. QED
      BY <3>1, <3>2, ListToFreed
  <2>3. Places(ToSet(msg_link'), msg', freed', made')
    BY <1>1, <2>2, QueueEmpty
  <2>q. QED
    BY <1>1, <2>1, <2>3, QueueEmpty DEF MessagesOK
<1>8. Inside' = Inside
  BY <1>1, <1>2 DEF Inside
<1>9. CountsOK'
  BY <1>1, <1>4, <1>8 DEF Inv, CountsOK
<1>10. WakeupsOK'
  BY <1>4 DEF WakeupsOK
<1>q. QED
  BY <1>5, <1>6, <1>7, <1>9, <1>10 DEF Inv

\* What a list of messages is after add_msg at either end
LEMMA ListWith ==
    ASSUME Inv, NEW m \in Msg, m \notin ToSet(msg_link)
    PROVE  /\ Append(msg_link, m) \in Seq(Msg) /\ IsInjective(Append(msg_link, m))
           /\ Len(Append(msg_link, m)) = Len(msg_link) + 1
           /\ ToSet(Append(msg_link, m)) = ToSet(msg_link) \cup {m}
           /\ <<m>> \o msg_link \in Seq(Msg) /\ IsInjective(<<m>> \o msg_link)
           /\ Len(<<m>> \o msg_link) = Len(msg_link) + 1
           /\ ToSet(<<m>> \o msg_link) = ToSet(msg_link) \cup {m}
BY QueueAdd, QueueFront DEF Inv, TypeOK, MessagesOK

LEMMA SendOK ==
    ASSUME Inv, NEW p \in Proc, NEW b \in Size, NEW t \in Timeout, ipc_mbox_send(p, b, t)
    PROVE  Inv'
<1> DEFINE m == [id |-> made + 1, bytes |-> b]
<1>0. TypeOK
  BY DEF Inv
<1>1. /\ pc[p] = "user" /\ state = "OPENED" /\ made < MaxMsg /\ made' = made + 1
      /\ state' = state /\ exiting' = exiting /\ freed' = freed /\ panicked' = panicked
      /\ \/ /\ slots < MaxSlots
            /\ add_msg(p, Append(msg_link, m))
            /\ Return(p)
            /\ UNCHANGED <<inuse, senders, msg>>
         \/ /\ slots >= MaxSlots
            /\ Enter
            /\ senders' = Append(senders, p)
            /\ Sleep(p) /\ StartTimer(p, t)
            /\ pc' = [pc EXCEPT ![p] = "send"]
            /\ msg' = [msg EXCEPT ![p] = m]
            /\ UNCHANGED <<slots, msg_link, receivers, max_bytes>>
  BY DEF ipc_mbox_send
<1>2. /\ ToSet(msg_link) \in SUBSET Msg /\ made \in Nat
      /\ msg \in [Proc -> Msg \cup {NoMsg}]
      /\ msg[p] = NoMsg /\ Places(ToSet(msg_link), msg, freed, made)
  BY <1>0, <1>1, QueueType DEF Inv, MessagesOK, TypeOK
<1>3. m \in Msg /\ m.id = made + 1 /\ made' \in Nat /\ m # NoMsg
  BY <1>1, <1>2 DEF Msg
<1>4. m \notin ToSet(msg_link)
  <2>1. \A k \in ToSet(msg_link) : k.id \in 1..made
    BY <1>2 DEF Places
  <2>2. made + 1 \notin 1..made
    BY <1>2
  <2>q. QED
    BY <1>3, <2>1, <2>2
<1> HIDE DEF m
<1>5. CASE /\ slots < MaxSlots
           /\ add_msg(p, Append(msg_link, m))
           /\ Return(p)
           /\ UNCHANGED <<inuse, senders, msg>>
  <2> DEFINE list == Append(msg_link, m)
  <2>1. /\ list \in Seq(Msg) /\ Len(list) = Len(msg_link) + 1 /\ IsInjective(list)
        /\ ToSet(list) = ToSet(msg_link) \cup {m}
    BY <1>3, <1>4, ListWith
  <2>2. add_msg(p, list) /\ Return(p)
    BY <1>5
  <2> HIDE DEF list
  <2>3. /\ msg' = msg /\ inuse' = inuse /\ senders' = senders
    BY <1>5
  <2>4. Places(ToSet(msg_link) \cup {m}, msg, freed, made + 1)
    BY <1>2, <1>3, NewInList
  <2>5. Places(ToSet(list), msg', freed', made')
    BY <1>1, <2>1, <2>3, <2>4
  <2>6. /\ msg' \in [Proc -> Msg \cup {NoMsg}] /\ msg'[p] = NoMsg
        /\ \A x \in Proc : x # p => msg'[x] = msg[x]
    BY <1>2, <2>3
  <2>7. inuse' = IF pc[p] = "send" THEN inuse - 1 ELSE inuse
    BY <1>1, <2>3
  <2>q. QED
    BY <1>1, <1>3, <2>1, <2>2, <2>3, <2>5, <2>6, <2>7, AddMsgOK
<1>6. CASE /\ slots >= MaxSlots
           /\ Enter
           /\ senders' = Append(senders, p)
           /\ Sleep(p) /\ StartTimer(p, t)
           /\ pc' = [pc EXCEPT ![p] = "send"]
           /\ msg' = [msg EXCEPT ![p] = m]
           /\ UNCHANGED <<slots, msg_link, receivers, max_bytes>>
  <2>1. /\ pc' \in [Proc -> {"user", "send", "recv", "copy", "dead"}]
        /\ pc'[p] = "send" /\ \A x \in Proc : x # p => pc'[x] = pc[x]
    BY <1>0, <1>6 DEF TypeOK
  <2>2. inuse' \in Nat /\ inuse' = Cardinality(Inside)'
    BY <1>1, <1>6, <2>1, CameInside DEF Inv, CountsOK
  <2>3. /\ msg' \in [Proc -> Msg \cup {NoMsg}] /\ msg'[p] # NoMsg
        /\ \A x \in Proc : x # p => msg'[x] = msg[x]
    BY <1>2, <1>3, <1>6
  <2>4. Places(ToSet(msg_link), msg', freed, made')
    <3>1. Places(ToSet(msg_link), [msg EXCEPT ![p] = m], freed, made + 1)
      BY <1>2, <1>3, NewInHands
    <3>q. QED
      BY <1>1, <1>6, <3>1
  <2>5. timer' \in [Proc -> Nat] /\ timeout' \in [Proc -> Nat] /\ elapsed' \in [Proc -> Nat]
    BY <1>0, <1>6 DEF StartTimer, TypeOK
  <2>6. panicked' \in {"no", "add_timer"}
    BY <1>0, <1>1 DEF TypeOK
  <2>q. QED
    BY <1>1, <1>3, <1>6, <2>1, <2>2, <2>3, <2>4, <2>5, <2>6, SendSleepsOK
<1>q. QED
  BY <1>1, <1>5, <1>6
\* What is in somebody's hands is not in the list.
LEMMA HeldOK ==
    ASSUME Inv, NEW p \in Proc, pc[p] \in {"send", "copy"}
    PROVE  /\ ToSet(msg_link) \in SUBSET Msg /\ made \in Nat
           /\ msg \in [Proc -> Msg \cup {NoMsg}]
           /\ Places(ToSet(msg_link), msg, freed, made)
           /\ msg[p] # NoMsg /\ msg[p] \in Msg /\ msg[p] \notin ToSet(msg_link)
<1>1. /\ ToSet(msg_link) \in SUBSET Msg /\ made \in Nat
      /\ msg \in [Proc -> Msg \cup {NoMsg}]
  BY QueueType DEF Inv, TypeOK
<1>2. Places(ToSet(msg_link), msg, freed, made) /\ msg[p] # NoMsg
  BY DEF Inv, MessagesOK
<1>3. msg[p] \in Msg
  BY <1>1, <1>2
<1>4. msg[p] \notin ToSet(msg_link)
  BY <1>2 DEF Places
<1>q. QED
  BY <1>1, <1>2, <1>3, <1>4

\* The timer of a process that sleeps again
LEMMA RestartOK ==
    ASSUME TypeOK, NEW p \in Proc, RestartTimer(p)
    PROVE  timer' \in [Proc -> Nat] /\ panicked' \in {"no", "add_timer"}
<1>1. CASE timeout[p] = 0
  BY <1>1 DEF RestartTimer, TypeOK
<1>2. CASE timeout[p] # 0
  <2>1. PICK expires \in 0 .. timer[p] :
            /\ timer' = [timer EXCEPT ![p] = expires]
            /\ panicked' = IF expires = 0 THEN "add_timer" ELSE panicked
    BY <1>2 DEF RestartTimer
  <2>2. expires \in Nat /\ timer \in [Proc -> Nat] /\ panicked \in {"no", "add_timer"}
    BY DEF TypeOK
  <2>q. QED
    BY <2>1, <2>2
<1>q. QED
  BY <1>1, <1>2

LEMMA SendGoesOnOK ==
    ASSUME Inv, NEW p \in Proc, SendGoesOn(p)
    PROVE  Inv'
<1>0. TypeOK
  BY DEF Inv
<1>1. /\ pc[p] = "send" /\ panicked = "no" /\ exiting' = exiting /\ made' = made
      /\ wakeup_flags[p] \in BOOLEAN
  BY <1>0 DEF SendGoesOn, TypeOK
<1>2. /\ ToSet(msg_link) \in SUBSET Msg /\ made \in Nat
      /\ msg \in [Proc -> Msg \cup {NoMsg}]
      /\ Places(ToSet(msg_link), msg, freed, made)
      /\ msg[p] # NoMsg /\ msg[p] \in Msg /\ msg[p] \notin ToSet(msg_link)
  BY <1>1, HeldOK
<1>3. CASE /\ state # "OPENED" \/ ~wakeup_flags[p]
           /\ senders' = RemoveFirst(senders, p)
           /\ UNCHANGED receivers
           /\ Leave
           /\ Return(p)
           /\ msg' = [msg EXCEPT ![p] = NoMsg]
           /\ freed' = freed \cup {msg[p].id}
           /\ Wake(p, {}, FALSE)
           /\ UNCHANGED msg_link
  <2>1. /\ senders' \in Seq(Proc) /\ IsInjective(senders')
        /\ ToSet(senders') = ToSet(senders) \ {p}
    BY <1>0, <1>3, QueueDel DEF Inv, TypeOK, QueuesOK
  <2>2. /\ receivers' \in Seq(Proc) /\ IsInjective(receivers')
        /\ ToSet(receivers') = ToSet(receivers) \ {p}
    BY <1>0, <1>1, <1>3 DEF Inv, TypeOK, QueuesOK
  <2>3. /\ msg' \in [Proc -> Msg \cup {NoMsg}] /\ msg'[p] = NoMsg
        /\ \A x \in Proc : x # p => msg'[x] = msg[x]
    BY <1>2, <1>3
  <2>4. Places(ToSet(msg_link), msg', freed', made)
    <3>1. Places(ToSet(msg_link), [msg EXCEPT ![p] = NoMsg], freed \cup {msg[p].id}, made)
      BY <1>2, HandsToFreed
    <3>q. QED
      BY <1>3, <3>1
  <2>5. /\ Leave /\ Return(p) /\ Wake(p, {}, FALSE) /\ msg_link' = msg_link
        /\ state # "OPENED" \/ wakeup_flags[p] = FALSE
    BY <1>1, <1>3
  <2>q. QED
    BY <1>1, <2>1, <2>2, <2>3, <2>4, <2>5, LeaveOK
<1>4. CASE /\ state = "OPENED" /\ wakeup_flags[p] /\ slots < MaxSlots
           /\ add_msg(p, Append(msg_link, msg[p]))
           /\ inuse' = inuse - 1
           /\ Return(p)
           /\ msg' = [msg EXCEPT ![p] = NoMsg]
           /\ UNCHANGED <<state, senders, freed, panicked>>
  <2> DEFINE list == Append(msg_link, msg[p])
  <2>1. /\ list \in Seq(Msg) /\ Len(list) = Len(msg_link) + 1 /\ IsInjective(list)
        /\ ToSet(list) = ToSet(msg_link) \cup {msg[p]}
    BY <1>2, ListWith
  <2>2. add_msg(p, list) /\ Return(p)
    BY <1>4
  <2> HIDE DEF list
  <2>3. /\ msg' \in [Proc -> Msg \cup {NoMsg}] /\ msg'[p] = NoMsg
        /\ \A x \in Proc : x # p => msg'[x] = msg[x]
    BY <1>2, <1>4
  <2>4. Places(ToSet(msg_link) \cup {msg[p]}, [msg EXCEPT ![p] = NoMsg], freed, made)
    BY <1>2, HandsToList
  <2>5. Places(ToSet(list), msg', freed', made')
    BY <1>1, <1>4, <2>1, <2>4
  <2>6. inuse' = IF pc[p] = "send" THEN inuse - 1 ELSE inuse
    BY <1>1, <1>4
  <2>7. /\ state' = state /\ senders' = senders /\ panicked' = panicked /\ made' \in Nat
        /\ state = "OPENED" /\ wakeup_flags[p] = TRUE
    BY <1>1, <1>2, <1>4
  <2>q. QED
    BY <1>1, <2>1, <2>2, <2>3, <2>5, <2>6, <2>7, AddMsgOK
<1>5. CASE /\ state = "OPENED" /\ wakeup_flags[p] /\ slots >= MaxSlots
           /\ senders' = Append(senders, p)
           /\ Sleep(p) /\ RestartTimer(p)
           /\ UNCHANGED <<state, slots, inuse, msg_link, receivers, timeout, elapsed, pc,
                          msg, max_bytes, freed>>
  <2>1. timer' \in [Proc -> Nat] /\ panicked' \in {"no", "add_timer"}
    BY <1>0, <1>5, RestartOK
  <2>2. /\ state' = state /\ slots' = slots /\ msg_link' = msg_link /\ receivers' = receivers
        /\ max_bytes' = max_bytes /\ freed' = freed /\ pc' = pc /\ msg' = msg
        /\ timeout' = timeout /\ elapsed' = elapsed /\ inuse' = inuse
        /\ state = "OPENED" /\ wakeup_flags[p] = TRUE /\ slots >= MaxSlots
    BY <1>1, <1>5
  <2>3. /\ pc' \in [Proc -> {"user", "send", "recv", "copy", "dead"}] /\ inuse' \in Nat
        /\ timeout' \in [Proc -> Nat] /\ elapsed' \in [Proc -> Nat] /\ made' \in Nat
        /\ pc'[p] = "send" /\ \A x \in Proc : x # p => pc'[x] = pc[x]
    BY <1>0, <1>1, <2>2 DEF TypeOK
  <2>4. inuse' = Cardinality(Inside)'
    <3>1. Inside' = Inside
      BY <2>2 DEF Inside
    <3>q. QED
      BY <2>2, <3>1 DEF Inv, CountsOK
  <2>5. /\ msg' \in [Proc -> Msg \cup {NoMsg}] /\ msg'[p] # NoMsg
        /\ \A x \in Proc : x # p => msg'[x] = msg[x]
        /\ Places(ToSet(msg_link), msg', freed, made')
    BY <1>1, <1>2, <2>2
  <2>6. senders' = Append(senders, p) /\ Sleep(p)
    BY <1>5
  <2>q. QED
    BY <1>1, <2>1, <2>2, <2>3, <2>4, <2>5, <2>6, SendSleepsOK
<1>q. QED
  BY <1>3, <1>4, <1>5 DEF SendGoesOn

\* recv_msg with a message in the mailbox
LEMMA TakeMsgOK ==
    ASSUME Inv, NEW p \in Proc, NEW n \in Nat, TakeMsg(p, n), state = "OPENED", slots > 0,
           pc[p] = "user" \/ (pc[p] = "recv" /\ wakeup_flags[p] = TRUE),
           inuse' = IF pc[p] = "recv" THEN inuse - 1 ELSE inuse,
           UNCHANGED <<state, exiting, made, freed, panicked>>
    PROVE  Inv'
<1>1. CASE TooBig(p)
  BY <1>1, TooBigOK
<1>2. CASE /\ pick_msg(p)
           /\ pc' = [pc EXCEPT ![p] = "copy"]
           /\ msg' = [msg EXCEPT ![p] = Head(msg_link)]
           /\ timer' = [timer EXCEPT ![p] = 0]
           /\ timeout' = [timeout EXCEPT ![p] = 0]
           /\ elapsed' = [elapsed EXCEPT ![p] = 0]
           /\ UNCHANGED <<receivers, max_bytes>>
  BY <1>2, PickMsgOK
<1>q. QED
  BY <1>1, <1>2 DEF TakeMsg

LEMMA RecvOK ==
    ASSUME Inv, NEW p \in Proc, NEW n \in Size, NEW t \in Timeout, ipc_mbox_recv(p, n, t)
    PROVE  Inv'
<1>0. TypeOK
  BY DEF Inv
<1>1. /\ pc[p] = "user" /\ state = "OPENED" /\ state' = state /\ exiting' = exiting
      /\ made' = made /\ freed' = freed /\ panicked' = panicked /\ n \in Nat /\ t \in Nat
  BY DEF ipc_mbox_recv
<1>2. CASE slots > 0 /\ TakeMsg(p, n) /\ UNCHANGED inuse
  <2>1. inuse' = IF pc[p] = "recv" THEN inuse - 1 ELSE inuse
    BY <1>1, <1>2
  <2>q. QED
    BY <1>1, <1>2, <2>1, TakeMsgOK
<1>3. CASE /\ slots = 0
           /\ Enter
           /\ receivers' = Append(receivers, p)
           /\ Sleep(p) /\ StartTimer(p, t)
           /\ pc' = [pc EXCEPT ![p] = "recv"]
           /\ max_bytes' = [max_bytes EXCEPT ![p] = n]
           /\ UNCHANGED <<slots, msg_link, senders, msg>>
  <2>1. /\ pc' \in [Proc -> {"user", "send", "recv", "copy", "dead"}]
        /\ pc'[p] = "recv" /\ \A x \in Proc : x # p => pc'[x] = pc[x]
    BY <1>0, <1>3 DEF TypeOK
  <2>2. inuse' \in Nat /\ inuse' = Cardinality(Inside)'
    BY <1>1, <1>3, <2>1, CameInside DEF Inv, CountsOK
  <2>3. timer' \in [Proc -> Nat] /\ timeout' \in [Proc -> Nat] /\ elapsed' \in [Proc -> Nat]
    BY <1>0, <1>1, <1>3 DEF StartTimer, TypeOK
  <2>4. max_bytes' \in [Proc -> Nat] /\ panicked' \in {"no", "add_timer"}
    BY <1>0, <1>1, <1>3 DEF TypeOK
  <2>q. QED
    BY <1>1, <1>3, <2>1, <2>2, <2>3, <2>4, RecvSleepsOK
<1>q. QED
  BY <1>2, <1>3 DEF ipc_mbox_recv

LEMMA RecvGoesOnOK ==
    ASSUME Inv, NEW p \in Proc, RecvGoesOn(p)
    PROVE  Inv'
<1>0. TypeOK
  BY DEF Inv
<1>1. /\ pc[p] = "recv" /\ panicked = "no" /\ exiting' = exiting /\ made' = made
      /\ freed' = freed /\ wakeup_flags[p] \in BOOLEAN /\ max_bytes[p] \in Nat
  BY <1>0 DEF RecvGoesOn, TypeOK
<1>2. CASE /\ state # "OPENED" \/ ~wakeup_flags[p]
           /\ receivers' = RemoveFirst(receivers, p)
           /\ UNCHANGED senders
           /\ Leave
           /\ Return(p)
           /\ Wake(p, {}, FALSE)
           /\ UNCHANGED <<msg_link, msg>>
  <2>1. /\ receivers' \in Seq(Proc) /\ IsInjective(receivers')
        /\ ToSet(receivers') = ToSet(receivers) \ {p}
    BY <1>0, <1>2, QueueDel DEF Inv, TypeOK, QueuesOK
  <2>2. /\ senders' \in Seq(Proc) /\ IsInjective(senders')
        /\ ToSet(senders') = ToSet(senders) \ {p}
    BY <1>0, <1>1, <1>2 DEF Inv, TypeOK, QueuesOK
  <2>3. /\ msg' \in [Proc -> Msg \cup {NoMsg}] /\ msg'[p] = NoMsg
        /\ \A x \in Proc : x # p => msg'[x] = msg[x]
        /\ Places(ToSet(msg_link), msg', freed', made)
    BY <1>0, <1>1, <1>2 DEF Inv, TypeOK, MessagesOK
  <2>4. /\ Leave /\ Return(p) /\ Wake(p, {}, FALSE) /\ msg_link' = msg_link
        /\ state # "OPENED" \/ wakeup_flags[p] = FALSE
    BY <1>1, <1>2
  <2>q. QED
    BY <1>1, <2>1, <2>2, <2>3, <2>4, LeaveOK
<1>3. CASE /\ state = "OPENED" /\ wakeup_flags[p] /\ slots > 0
           /\ TakeMsg(p, max_bytes[p])
           /\ inuse' = inuse - 1
           /\ UNCHANGED <<state, panicked>>
  <2>1. /\ inuse' = IF pc[p] = "recv" THEN inuse - 1 ELSE inuse
        /\ wakeup_flags[p] = TRUE
    BY <1>1, <1>3
  <2>q. QED
    BY <1>1, <1>3, <2>1, TakeMsgOK
<1>4. CASE /\ state = "OPENED" /\ wakeup_flags[p] /\ slots = 0
           /\ receivers' = Append(receivers, p)
           /\ Sleep(p) /\ RestartTimer(p)
           /\ UNCHANGED <<state, slots, inuse, msg_link, senders, timeout, elapsed, pc,
                          msg, max_bytes>>
  <2>1. timer' \in [Proc -> Nat] /\ panicked' \in {"no", "add_timer"}
    BY <1>0, <1>4, RestartOK
  <2>2. /\ state' = state /\ slots' = slots /\ msg_link' = msg_link /\ senders' = senders
        /\ max_bytes' = max_bytes /\ pc' = pc /\ msg' = msg
        /\ timeout' = timeout /\ elapsed' = elapsed /\ inuse' = inuse
        /\ state = "OPENED" /\ wakeup_flags[p] = TRUE /\ slots = 0
    BY <1>1, <1>4
  <2>3. /\ pc' \in [Proc -> {"user", "send", "recv", "copy", "dead"}] /\ inuse' \in Nat
        /\ timeout' \in [Proc -> Nat] /\ elapsed' \in [Proc -> Nat]
        /\ max_bytes' \in [Proc -> Nat]
        /\ pc'[p] = "recv" /\ \A x \in Proc : x # p => pc'[x] = pc[x]
    BY <1>0, <1>1, <2>2 DEF TypeOK
  <2>4. inuse' = Cardinality(Inside)'
    <3>1. Inside' = Inside
      BY <2>2 DEF Inside
    <3>q. QED
      BY <2>2, <3>1 DEF Inv, CountsOK
  <2>5. receivers' = Append(receivers, p) /\ Sleep(p)
    BY <1>4
  <2>q. QED
    BY <1>1, <2>1, <2>2, <2>3, <2>4, <2>5, RecvSleepsOK
<1>q. QED
  BY <1>2, <1>3, <1>4 DEF RecvGoesOn
LEMMA CopyMsgOK ==
    ASSUME Inv, NEW p \in Proc, CopyMsg(p)
    PROVE  Inv'
<1>0. TypeOK
  BY DEF Inv
<1>1. /\ pc[p] = "copy" /\ msg' = [msg EXCEPT ![p] = NoMsg]
      /\ state' = state /\ inuse' = inuse /\ senders' = senders /\ exiting' = exiting
      /\ made' = made /\ panicked' = panicked /\ Return(p)
  BY DEF CopyMsg
<1>2. /\ ToSet(msg_link) \in SUBSET Msg /\ made \in Nat
      /\ msg \in [Proc -> Msg \cup {NoMsg}]
      /\ Places(ToSet(msg_link), msg, freed, made)
      /\ msg[p] # NoMsg /\ msg[p] \in Msg /\ msg[p] \notin ToSet(msg_link)
  BY <1>1, HeldOK
<1>3. /\ msg' \in [Proc -> Msg \cup {NoMsg}] /\ msg'[p] = NoMsg
      /\ \A x \in Proc : x # p => msg'[x] = msg[x]
  BY <1>1, <1>2
<1>4. CASE /\ freed' = freed \cup {msg[p].id}
           /\ UNCHANGED <<slots, msg_link, receivers, asleep, wakeup_flags>>
  <2>1. /\ pc' \in [Proc -> {"user", "send", "recv", "copy", "dead"}]
        /\ pc'[p] \in {"user", "dead"} /\ \A x \in Proc : x # p => pc'[x] = pc[x]
        /\ timer' \in [Proc -> Nat] /\ timeout' \in [Proc -> Nat]
        /\ elapsed' \in [Proc -> Nat] /\ max_bytes' \in [Proc -> Nat]
    BY <1>0, <1>1 DEF Return, TypeOK
  <2>2. TypeOK'
    BY <1>0, <1>1, <1>3, <1>4, <2>1 DEF TypeOK
  <2>3. /\ \A x \in ToSet(senders) : x \in Proc /\ pc[x] = "send" /\ wakeup_flags[x] = FALSE
        /\ \A x \in ToSet(receivers) : x \in Proc /\ pc[x] = "recv" /\ wakeup_flags[x] = FALSE
    BY <1>0, QueueType DEF Inv, TypeOK, QueuesOK
  <2>4. /\ \A x \in ToSet(senders) : pc'[x] = "send" /\ wakeup_flags'[x] = FALSE
        /\ \A x \in ToSet(receivers) : pc'[x] = "recv" /\ wakeup_flags'[x] = FALSE
    BY <1>1, <1>4, <2>1, <2>3
  <2>5. QueuesOK'
    BY <1>1, <1>4, <2>4 DEF Inv, QueuesOK
  <2>6. MessagesOK'
    <3>1. \A x \in Proc : msg'[x] # NoMsg <=> pc'[x] \in {"send", "copy"}
      BY <1>3, <2>1 DEF Inv, MessagesOK
    <3>2. Places(ToSet(msg_link), [msg EXCEPT ![p] = NoMsg], freed \cup {msg[p].id}, made)
      BY <1>2, HandsToFreed
    <3>q. QED
      BY <1>1, <1>4, <3>1, <3>2 DEF Inv, MessagesOK
  <2>7. Inside' = Inside
    BY <1>1, <2>1 DEF Inside
  <2>8. OnTheWay("send")' = OnTheWay("send") /\ OnTheWay("recv")' = OnTheWay("recv")
    BY <1>1, <1>4, <2>1 DEF OnTheWay
  <2>9. CountsOK' /\ WakeupsOK'
    BY <1>1, <1>4, <2>7, <2>8 DEF Inv, CountsOK, WakeupsOK
  <2>q. QED
    BY <2>2, <2>5, <2>6, <2>9 DEF Inv
<1>5. CASE state = "OPENED" /\ add_msg(p, <<msg[p]>> \o msg_link) /\ UNCHANGED freed
  <2> DEFINE list == <<msg[p]>> \o msg_link
  <2>1. /\ list \in Seq(Msg) /\ Len(list) = Len(msg_link) + 1 /\ IsInjective(list)
        /\ ToSet(list) = ToSet(msg_link) \cup {msg[p]}
    BY <1>2, ListWith
  <2>2. add_msg(p, list)
    BY <1>5
  <2> HIDE DEF list
  <2>3. Places(ToSet(msg_link) \cup {msg[p]}, [msg EXCEPT ![p] = NoMsg], freed, made)
    BY <1>2, HandsToList
  <2>4. Places(ToSet(list), msg', freed', made') /\ made' \in Nat
    BY <1>1, <1>2, <1>5, <2>1, <2>3
  <2>5. inuse' = IF pc[p] = "send" THEN inuse - 1 ELSE inuse
    BY <1>1
  <2>q. QED
    BY <1>1, <1>3, <1>5, <2>1, <2>2, <2>4, <2>5, AddMsgOK
<1>q. QED
  BY <1>4, <1>5 DEF CopyMsg

LEMMA TickOK == Inv /\ tick => Inv'
<1> SUFFICES ASSUME Inv, tick PROVE Inv'
  OBVIOUS
<1>0. TypeOK
  BY DEF Inv
<1>1. \A x \in Proc : timer[x] \in Nat /\ elapsed[x] \in Nat /\ timeout[x] \in Nat
  BY <1>0 DEF TypeOK
<1>2. /\ timer' \in [Proc -> Nat] /\ elapsed' \in [Proc -> Nat]
      /\ asleep' \in [Proc -> BOOLEAN]
  BY <1>1 DEF tick
<1>3. /\ UNCHANGED <<boxVars, wakeup_flags, msg, max_bytes, made, freed, panicked>>
      /\ pc' = pc /\ timeout' = timeout /\ exiting' = exiting
  BY DEF tick
<1>4. /\ pc' \in [Proc -> {"user", "send", "recv", "copy", "dead"}]
      /\ exiting' \in [Proc -> BOOLEAN] /\ timeout' \in [Proc -> Nat]
      /\ \A x \in Proc : pc'[x] = pc[x] \/ (pc[x] = "user" /\ pc'[x] = "dead")
  BY <1>0, <1>3 DEF TypeOK
<1>q. QED
  BY <1>2, <1>3, <1>4, QuietOK

LEMMA KillOK ==
    ASSUME Inv, NEW p \in Proc, do_kill(p) \/ may_killed(p)
    PROVE  Inv'
<1>0. TypeOK
  BY DEF Inv
<1>1. /\ UNCHANGED <<boxVars, wakeup_flags, msg, max_bytes, made, freed, panicked>>
      /\ timer' = timer /\ timeout' = timeout /\ elapsed' = elapsed
  BY DEF do_kill, may_killed, waitVars
<1>2. asleep' \in [Proc -> BOOLEAN] /\ exiting' \in [Proc -> BOOLEAN]
  BY <1>0 DEF do_kill, may_killed, waitVars, TypeOK
<1>3. /\ pc' \in [Proc -> {"user", "send", "recv", "copy", "dead"}]
      /\ \A x \in Proc : pc'[x] = pc[x] \/ (pc[x] = "user" /\ pc'[x] = "dead")
  BY <1>0 DEF do_kill, may_killed, TypeOK
<1>4. timer' \in [Proc -> Nat] /\ timeout' \in [Proc -> Nat] /\ elapsed' \in [Proc -> Nat]
  BY <1>0, <1>1 DEF TypeOK
<1>q. QED
  BY <1>1, <1>2, <1>3, <1>4, QuietOK

LEMMA StutterOK == Inv /\ UNCHANGED vars => Inv'
<1> SUFFICES ASSUME Inv, UNCHANGED vars PROVE Inv'
  OBVIOUS
<1>1. /\ UNCHANGED <<boxVars, wakeup_flags, msg, max_bytes, made, freed, panicked>>
      /\ pc' = pc /\ timer' = timer /\ timeout' = timeout /\ elapsed' = elapsed
      /\ asleep' = asleep /\ exiting' = exiting
  BY DEF vars, waitVars, boxVars
<1>2. /\ pc' \in [Proc -> {"user", "send", "recv", "copy", "dead"}]
      /\ timer' \in [Proc -> Nat] /\ timeout' \in [Proc -> Nat] /\ elapsed' \in [Proc -> Nat]
      /\ asleep' \in [Proc -> BOOLEAN] /\ exiting' \in [Proc -> BOOLEAN]
      /\ \A x \in Proc : pc'[x] = pc[x] \/ (pc[x] = "user" /\ pc'[x] = "dead")
  BY <1>1 DEF Inv, TypeOK
<1>q. QED
  BY <1>1, <1>2, QuietOK

LEMMA Begins == Init => Inv
<1> SUFFICES ASSUME Init PROVE Inv
  OBVIOUS
<1>1. TypeOK
  BY QueueEmpty DEF Init, TypeOK
<1>2. QueuesOK
  BY QueueEmpty DEF Init, QueuesOK
<1>3. MessagesOK
  <2>1. \A p \in Proc : msg[p] = NoMsg /\ pc[p] = "user"
    BY DEF Init
  <2>2. freed = {} /\ made = 0 /\ msg_link = <<>> /\ 1..made = {}
    BY DEF Init
  <2>3. Places({}, msg, freed, made)
    BY <2>1, <2>2 DEF Places
  <2>q. QED
    BY <2>1, <2>2, <2>3, QueueEmpty DEF MessagesOK
<1>4. CountsOK
  <2>1. Inside = {}
    BY DEF Init, Inside
  <2>2. Cardinality(Inside) = 0
    BY <2>1, FS_EmptySet
  <2>q. QED
    BY <2>2 DEF Init, CountsOK
<1>5. WakeupsOK
  BY DEF Init, WakeupsOK
<1>q. QED
  BY <1>1, <1>2, <1>3, <1>4, <1>5 DEF Inv

LEMMA StepOK == Inv /\ [Next]_vars => Inv'
<1> SUFFICES ASSUME Inv, [Next]_vars PROVE Inv'
  OBVIOUS
<1>1. CASE UNCHANGED vars
  BY <1>1, StutterOK
<1>2. CASE tick
  BY <1>2, TickOK
<1>3. ASSUME NEW p \in Proc,
             \/ ipc_mbox_init(p) \/ ipc_mbox_free(p)
             \/ \E n \in Size, t \in Timeout : ipc_mbox_send(p, n, t) \/ ipc_mbox_recv(p, n, t)
             \/ SendGoesOn(p) \/ RecvGoesOn(p) \/ CopyMsg(p)
             \/ do_kill(p) \/ may_killed(p)
      PROVE  Inv'
  BY <1>3, InitOK, FreeMboxOK, SendOK, RecvOK, SendGoesOnOK, RecvGoesOnOK, CopyMsgOK, KillOK
<1>q. QED
  BY <1>1, <1>2, <1>3 DEF Next

LEMMA Always == Spec => []Inv
BY Begins, StepOK, PTL DEF Spec

-----------------------------------------------------------------------------
(* The results                                                              *)

\* Each message ever loaded is in the mailbox, in the hands of one process, or
\* freed once, whatever frees, kills, timeouts and failed copies happen.
THEOREM MessageInOnePlaceHolds == Spec => []MessageInOnePlace
<1>1. Inv => MessageInOnePlace
  <2> SUFFICES ASSUME Inv PROVE MessageInOnePlace
    OBVIOUS
  <2>1. /\ ToSet(msg_link) \in SUBSET Msg /\ made \in Nat
        /\ msg \in [Proc -> Msg \cup {NoMsg}]
    BY QueueType DEF Inv, TypeOK
  <2>2. IsInjective(msg_link) /\ Places(ToSet(msg_link), msg, freed, made)
    BY DEF Inv, MessagesOK
  <2>3. /\ \A x : x \in Linked <=> \E m \in ToSet(msg_link) : x = m.id
        /\ \A x : x \in InHands <=> \E p \in Proc : msg[p] # NoMsg /\ x = msg[p].id
    BY DEF Linked, InHands
  <2>4. \A p, q \in Proc : msg[p] = msg[q] /\ p # q => msg[p] = NoMsg
    BY <2>2 DEF Places
  <2>5. Linked \cap InHands = {}
    BY <2>2, <2>3 DEF Places
  <2>6. freed \cap (Linked \cup InHands) = {}
    BY <2>2, <2>3 DEF Places
  <2>7. freed \cup Linked \cup InHands = 1 .. made
    <3>1. \A i \in 1 .. made : i \in freed \cup Linked \cup InHands
      BY <2>2, <2>3 DEF Places
    <3>2. freed \subseteq 1 .. made /\ Linked \subseteq 1 .. made /\ InHands \subseteq 1 .. made
      BY <2>2, <2>3 DEF Places
    <3>q. QED
      BY <3>1, <3>2
  <2>q. QED
    BY <2>2, <2>4, <2>5, <2>6, <2>7 DEF MessageInOnePlace
<1>q. QED
  BY <1>1, Always, PTL

\* A mailbox is on the free list only when nobody is left in send_msg and
\* recv_msg and its queues are empty: what mbox_free asserts never fails.
THEOREM ReusedOnlyWhenEmptyHolds == Spec => []ReusedOnlyWhenEmpty
<1>1. Inv => ReusedOnlyWhenEmpty
  <2> SUFFICES ASSUME Inv PROVE ReusedOnlyWhenEmpty
    OBVIOUS
  <2>1. panicked # "mbox_free" /\ (state = "OPENED" => slots = Len(msg_link))
    BY DEF Inv, TypeOK, CountsOK
  <2>2. inuse = Cardinality(Inside)
    BY DEF Inv, CountsOK
  <2>3. state = "CLOSED" => \A p \in Proc : pc[p] \notin {"send", "recv"}
    <3>1. state = "CLOSED" => Cardinality(Inside) = 0
      BY <2>2 DEF Inv, CountsOK
    <3>2. Cardinality(Inside) = 0 => Inside = {}
      BY Counts, Count
    <3>q. QED
      BY <3>1, <3>2 DEF Inside
  <2>4. state = "CLOSED" => senders = <<>> /\ receivers = <<>> /\ msg_link = <<>>
    BY DEF Inv, QueuesOK
  <2>q. QED
    BY <2>1, <2>2, <2>3, <2>4 DEF ReusedOnlyWhenEmpty, Inside
<1>q. QED
  BY <1>1, Always, PTL

\* Nobody sleeps in a mailbox beside a message or a slot that no one else has
\* been woken for: add_msg, pick_msg and a receiver whose buffer is too small
\* always pass the wakeup on.
THEOREM NobodyStuckHolds == Spec => []NobodyStuck
<1>1. Inv => NobodyStuck
  BY DEF Inv, WakeupsOK, NobodyStuck
<1>q. QED
  BY <1>1, Always, PTL
=============================================================================
