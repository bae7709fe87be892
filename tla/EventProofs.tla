----------------------------- MODULE EventProofs ----------------------------
(***************************************************************************)
(* An event is received once or its sender is told that it was not, and no *)
(* wait record is left in the box of a dead process: for any number of     *)
(* processes.                                                              *)
(***************************************************************************)
EXTENDS Event, QueueLemmas

USE EventAssumption

TypeOK ==
    /\ state \in [Proc -> {"alive", "zombie", "free"}]
    /\ wait_queue \in [Proc -> Seq(Proc)]
    /\ pc \in [Proc -> {"user", "send", "recv"}]
    /\ wait_state \in [Proc -> {"0", "SEND", "RECV"}]
    /\ wakeup_flags \in [Proc -> {"INTERRUPTED", "SEND"}]
    /\ to \in [Proc -> Proc \cup {Nobody}]
    /\ timer \in [Proc -> {"none", "armed", "expired"}]
    /\ exiting \in [Proc -> BOOLEAN]
    /\ taken \in [Proc -> Nat]

\* The boxes q, as they must be for processes with the states st, program
\* counters c, wait states ws, flags fl, destinations t and counts tk: who is
\* in a box is sending to it and has not been received, the box belongs to a
\* live process that does not sleep for want of senders, ...
BoxesOK(st, q, c, ws, t, tk) ==
    \A p \in Proc :
        /\ IsInjective(q[p])
        /\ \A s \in ToSet(q[p]) : c[s] = "send" /\ t[s] = p /\ tk[s] = 0
        /\ q[p] # <<>> => st[p] = "alive" /\ ws[p] # "RECV"

\* ... a dead process is in no call, a sleeping one in the call its wait_state
\* tells, and the flags of a sender say whether its event has been received.
CallsOK(st, c, ws, fl, t, tk) ==
    \A p \in Proc :
        /\ st[p] # "alive" => c[p] = "user"
        /\ ws[p] = "RECV" => c[p] = "recv"
        /\ ws[p] = "SEND" => c[p] = "send"
        /\ c[p] = "send" => t[p] \in Proc
        /\ IF c[p] = "send" /\ fl[p] = "SEND" THEN tk[p] = 1 ELSE tk[p] = 0

Inv ==
    /\ TypeOK
    /\ BoxesOK(state, wait_queue, pc, wait_state, to, taken)
    /\ CallsOK(state, pc, wait_state, wakeup_flags, to, taken)

-----------------------------------------------------------------------------
\* The end of a call, with the exit of a killed process: if the boxes and the
\* calls were right when the call had done its work, they are right after it.
LEMMA LeavesKernel ==
    ASSUME TypeOK, NEW p \in Proc,
           NEW q \in [Proc -> Seq(Proc)],
           NEW ws \in [Proc -> {"0", "SEND", "RECV"}],
           NEW fl \in [Proc -> {"INTERRUPTED", "SEND"}],
           NEW t, NEW tk,
           BoxesOK(state, q, [pc EXCEPT ![p] = "user"], ws, t, tk),
           CallsOK(state, [pc EXCEPT ![p] = "user"], ws, fl, t, tk),
           BackToUser(p, q, ws, fl)
    PROVE  /\ state' \in [Proc -> {"alive", "zombie", "free"}]
           /\ wait_queue' \in [Proc -> Seq(Proc)]
           /\ pc' \in [Proc -> {"user", "send", "recv"}]
           /\ wait_state' \in [Proc -> {"0", "SEND", "RECV"}]
           /\ wakeup_flags' \in [Proc -> {"INTERRUPTED", "SEND"}]
           /\ BoxesOK(state', wait_queue', pc', wait_state', t, tk)
           /\ CallsOK(state', pc', wait_state', wakeup_flags', t, tk)
<1> DEFINE c == [pc EXCEPT ![p] = "user"]
<1>0. c \in [Proc -> {"user", "send", "recv"}] /\ c[p] = "user" /\ pc' = c
  BY DEF BackToUser, TypeOK
<1>1. CASE ~exiting[p]
  <2>1. state' = state /\ wait_queue' = q /\ wait_state' = ws /\ wakeup_flags' = fl
    BY <1>1 DEF BackToUser, TypeOK
  <2>q. QED
    BY <1>0, <2>1 DEF TypeOK
<1>2. CASE exiting[p]
  <2> DEFINE woken == ToSet(q[p])
  <2>1. /\ state' = [state EXCEPT ![p] = "zombie"]
        /\ wait_queue' = [q EXCEPT ![p] = <<>>]
        /\ wait_state' = [s \in Proc |-> IF s \in woken THEN "0" ELSE ws[s]]
        /\ wakeup_flags' = [s \in Proc |-> IF s \in woken THEN "INTERRUPTED" ELSE fl[s]]
    BY <1>2 DEF BackToUser, TypeOK
  <2>2. \A s \in woken : c[s] = "send" /\ tk[s] = 0
    BY DEF BoxesOK
  <2> HIDE DEF c, woken
  <2>3. /\ state' \in [Proc -> {"alive", "zombie", "free"}]
        /\ wait_queue' \in [Proc -> Seq(Proc)]
        /\ wait_state' \in [Proc -> {"0", "SEND", "RECV"}]
        /\ wakeup_flags' \in [Proc -> {"INTERRUPTED", "SEND"}]
    BY <2>1, QueueEmpty DEF TypeOK
  <2>4. BoxesOK(state', wait_queue', c, wait_state', t, tk)
    <3> SUFFICES ASSUME NEW x \in Proc
                 PROVE  /\ IsInjective(wait_queue'[x])
                        /\ \A s \in ToSet(wait_queue'[x]) :
                             c[s] = "send" /\ t[s] = x /\ tk[s] = 0
                        /\ wait_queue'[x] # <<>> => state'[x] = "alive" /\ wait_state'[x] # "RECV"
      BY DEF BoxesOK
    <3>1. CASE x = p
      BY <2>1, <3>1, QueueEmpty
    <3>2. CASE x # p
      BY <2>1, <3>2 DEF BoxesOK, TypeOK, c
    <3>q. QED
      BY <3>1, <3>2
  <2>5. CallsOK(state', c, wait_state', wakeup_flags', t, tk)
    <3> SUFFICES ASSUME NEW x \in Proc
                 PROVE  /\ state'[x] # "alive" => c[x] = "user"
                        /\ wait_state'[x] = "RECV" => c[x] = "recv"
                        /\ wait_state'[x] = "SEND" => c[x] = "send"
                        /\ c[x] = "send" => t[x] \in Proc
                        /\ IF c[x] = "send" /\ wakeup_flags'[x] = "SEND"
                           THEN tk[x] = 1 ELSE tk[x] = 0
      BY DEF CallsOK
    <3>1. /\ state[x] # "alive" => c[x] = "user"
          /\ ws[x] = "RECV" => c[x] = "recv"
          /\ ws[x] = "SEND" => c[x] = "send"
          /\ c[x] = "send" => t[x] \in Proc
          /\ IF c[x] = "send" /\ fl[x] = "SEND" THEN tk[x] = 1 ELSE tk[x] = 0
      BY DEF CallsOK, c
    <3>2. x # p => state'[x] = state[x]
      BY <2>1 DEF TypeOK
    <3>q. QED
      BY <1>0, <2>1, <2>2, <3>1, <3>2
  <2>q. QED
    BY <1>0, <2>3, <2>4, <2>5
<1>q. QED
  BY <1>1, <1>2

\* A call that has changed neither the boxes nor the flags ends.
LEMMA LeavesUnchanged ==
    ASSUME Inv, NEW p \in Proc, pc[p] # "send", wait_state[p] = "0",
           BackToUser(p, wait_queue, wait_state, wakeup_flags),
           UNCHANGED <<to, exiting, taken>>, timer' \in [Proc -> {"none", "armed", "expired"}]
    PROVE  Inv'
<1> DEFINE c == [pc EXCEPT ![p] = "user"]
<1>1. \A x \in Proc : (c[x] = "send") = (pc[x] = "send") /\ (x # p => c[x] = pc[x])
  BY DEF Inv, TypeOK
<1> HIDE DEF c
<1>2. BoxesOK(state, wait_queue, c, wait_state, to, taken)
  <2>1. \A x \in Proc : ToSet(wait_queue[x]) \subseteq Proc
    BY QueueType DEF Inv, TypeOK
  <2>q. QED
    BY <1>1, <2>1 DEF Inv, BoxesOK
<1>3. CallsOK(state, c, wait_state, wakeup_flags, to, taken)
  <2>1. c[p] = "user"
    BY DEF Inv, TypeOK, c
  <2>q. QED
    BY <1>1, <2>1 DEF Inv, CallsOK
<1>q. QED
  BY <1>2, <1>3, LeavesKernel DEF Inv, TypeOK, c

\* recv_event takes the first sender: its flags and the count of its event
\* change together, and its record leaves the box.
LEMMA TakesFirst ==
    ASSUME Inv, NEW p \in Proc, pc[p] # "send", wait_state[p] = "0",
           wait_queue[p] # <<>>, wakeup_wait(p),
           UNCHANGED <<to, exiting>>, timer' \in [Proc -> {"none", "armed", "expired"}]
    PROVE  Inv'
<1> DEFINE s == Head(wait_queue[p])
           q == [wait_queue EXCEPT ![p] = Tail(@)]
           ws == [wait_state EXCEPT ![s] = "0"]
           fl == [wakeup_flags EXCEPT ![s] = "SEND"]
           c == [pc EXCEPT ![p] = "user"]
<1>0. TypeOK
  BY DEF Inv
<1>1. /\ s \in Proc /\ s \in ToSet(wait_queue[p])
      /\ Tail(wait_queue[p]) \in Seq(Proc)
      /\ IsInjective(Tail(wait_queue[p]))
      /\ ToSet(Tail(wait_queue[p])) = ToSet(wait_queue[p]) \ {s}
  BY QueueTail DEF Inv, TypeOK, BoxesOK
<1>2. pc[s] = "send" /\ to[s] = p /\ taken[s] = 0 /\ s # p
  BY <1>1 DEF Inv, BoxesOK
<1>3. taken' = [taken EXCEPT ![s] = @ + 1] /\ BackToUser(p, q, ws, fl)
  BY DEF wakeup_wait
<1>4. q \in [Proc -> Seq(Proc)] /\ q[p] = Tail(wait_queue[p])
      /\ \A x \in Proc : x # p => q[x] = wait_queue[x]
  BY <1>0, <1>1 DEF TypeOK
<1>5. /\ ws \in [Proc -> {"0", "SEND", "RECV"}] /\ fl \in [Proc -> {"INTERRUPTED", "SEND"}]
      /\ ws[s] = "0" /\ fl[s] = "SEND"
      /\ \A x \in Proc : x # s => ws[x] = wait_state[x] /\ fl[x] = wakeup_flags[x]
  BY <1>0, <1>1 DEF TypeOK
<1>6. taken' \in [Proc -> Nat] /\ taken'[s] = 1 /\ \A x \in Proc : x # s => taken'[x] = taken[x]
  BY <1>0, <1>1, <1>2, <1>3 DEF TypeOK
<1>7. c[p] = "user" /\ \A x \in Proc : x # p => c[x] = pc[x]
  BY <1>0 DEF TypeOK
<1> HIDE DEF s, q, ws, fl, c
<1>8. BoxesOK(state, q, c, ws, to, taken')
  <2> SUFFICES ASSUME NEW x \in Proc
               PROVE  /\ IsInjective(q[x])
                      /\ \A y \in ToSet(q[x]) : c[y] = "send" /\ to[y] = x /\ taken'[y] = 0
                      /\ q[x] # <<>> => state[x] = "alive" /\ ws[x] # "RECV"
    BY DEF BoxesOK
  <2>1. /\ IsInjective(wait_queue[x])
        /\ \A y \in ToSet(wait_queue[x]) : pc[y] = "send" /\ to[y] = x /\ taken[y] = 0
        /\ wait_queue[x] # <<>> => state[x] = "alive" /\ wait_state[x] # "RECV"
    BY DEF Inv, BoxesOK
  <2>2. ToSet(wait_queue[x]) \subseteq Proc
    BY <1>0, QueueType DEF TypeOK
  <2>3. ToSet(q[x]) \subseteq ToSet(wait_queue[x]) \ {s}
    BY <1>1, <1>2, <1>4, <2>1
  <2>4. IsInjective(q[x]) /\ (q[x] # <<>> => wait_queue[x] # <<>>)
    BY <1>1, <1>4, <2>1
  <2>5. \A y \in ToSet(q[x]) : y \in Proc /\ y # s /\ y # p
    BY <2>1, <2>2, <2>3
  <2>q. QED
    BY <1>5, <1>6, <1>7, <2>1, <2>3, <2>4, <2>5
<1>9. CallsOK(state, c, ws, fl, to, taken')
  BY <1>0, <1>1, <1>2, <1>5, <1>6, <1>7, SMTT(30) DEF Inv, CallsOK, TypeOK
<1>q. QED
  BY <1>0, <1>3, <1>4, <1>5, <1>6, <1>8, <1>9, LeavesKernel DEF Inv, TypeOK, c

\* send_event goes on: its record leaves the box, if it is still there, and
\* nothing is left of the call.
LEMMA SendEndsOK ==
    ASSUME Inv, NEW p \in Proc, SendReturns(p)
    PROVE  Inv'
<1> DEFINE q == wait_current_del(p)
           fl == [wakeup_flags EXCEPT ![p] = "INTERRUPTED"]
           c == [pc EXCEPT ![p] = "user"]
<1>0. TypeOK
  BY DEF Inv
<1>1. pc[p] = "send" /\ wait_state[p] = "0" /\ to[p] \in Proc
  BY DEF SendReturns, Inv, CallsOK
<1>2. /\ RemoveFirst(wait_queue[to[p]], p) \in Seq(Proc)
      /\ IsInjective(RemoveFirst(wait_queue[to[p]], p))
      /\ ToSet(RemoveFirst(wait_queue[to[p]], p)) = ToSet(wait_queue[to[p]]) \ {p}
      /\ p \notin ToSet(wait_queue[to[p]])
           => RemoveFirst(wait_queue[to[p]], p) = wait_queue[to[p]]
  <2>1. wait_queue[to[p]] \in Seq(Proc) /\ IsInjective(wait_queue[to[p]])
    BY <1>0, <1>1 DEF Inv, TypeOK, BoxesOK
  <2>q. QED
    BY <2>1, QueueDel
<1>3. /\ q \in [Proc -> Seq(Proc)]
      /\ \A x \in Proc : q[x] = IF x = to[p] THEN RemoveFirst(wait_queue[x], p) ELSE wait_queue[x]
  BY <1>0, <1>1, <1>2 DEF TypeOK, wait_current_del
<1>4. fl \in [Proc -> {"INTERRUPTED", "SEND"}] /\ c[p] = "user"
      /\ \A x \in Proc : x # p => fl[x] = wakeup_flags[x] /\ c[x] = pc[x]
  BY <1>0 DEF TypeOK
<1>5. /\ to' \in [Proc -> Proc \cup {Nobody}] /\ taken' \in [Proc -> Nat] /\ taken'[p] = 0
      /\ timer' \in [Proc -> {"none", "armed", "expired"}]
      /\ \A x \in Proc : x # p => to'[x] = to[x] /\ taken'[x] = taken[x]
      /\ exiting' = exiting
  BY <1>0 DEF SendReturns, TypeOK
<1>6. BackToUser(p, q, wait_state, fl)
  BY DEF SendReturns
<1> HIDE DEF q, fl, c
<1>7. BoxesOK(state, q, c, wait_state, to', taken')
  <2> SUFFICES ASSUME NEW x \in Proc
               PROVE  /\ IsInjective(q[x])
                      /\ \A y \in ToSet(q[x]) : c[y] = "send" /\ to'[y] = x /\ taken'[y] = 0
                      /\ q[x] # <<>> => state[x] = "alive" /\ wait_state[x] # "RECV"
    BY DEF BoxesOK
  <2>1. /\ IsInjective(wait_queue[x])
        /\ \A y \in ToSet(wait_queue[x]) : pc[y] = "send" /\ to[y] = x /\ taken[y] = 0
        /\ wait_queue[x] # <<>> => state[x] = "alive" /\ wait_state[x] # "RECV"
    BY DEF Inv, BoxesOK
  <2>2. ToSet(wait_queue[x]) \subseteq Proc /\ wait_queue[x] \in Seq(Proc)
    BY <1>0, QueueType DEF TypeOK
  <2>3. ToSet(q[x]) \subseteq ToSet(wait_queue[x]) \ {p}
    <3>1. CASE x = to[p]
      BY <1>2, <1>3, <3>1
    <3>2. CASE x # to[p]
      BY <1>3, <2>1, <3>2
    <3>q. QED
      BY <3>1, <3>2
  <2>4. IsInjective(q[x])
    BY <1>2, <1>3, <2>1
  <2>5. q[x] # <<>> => wait_queue[x] # <<>>
    BY <1>3, <2>2, <2>3, QueueEmpty
  <2>q. QED
    BY <1>4, <1>5, <2>1, <2>2, <2>3, <2>4, <2>5
<1>8. CallsOK(state, c, wait_state, fl, to', taken')
  BY <1>0, <1>1, <1>4, <1>5 DEF Inv, CallsOK, TypeOK
<1>q. QED
  BY <1>0, <1>3, <1>4, <1>5, <1>6, <1>7, <1>8, LeavesKernel DEF Inv, TypeOK, c

\* ipc_event_send puts the sender at the end of the box and goes to sleep.
LEMMA SendSleepsOK ==
    ASSUME Inv, NEW p \in Proc, NEW r \in Proc, NEW timed \in BOOLEAN,
           ipc_event_send(p, r, timed)
    PROVE  Inv'
<1>0. TypeOK
  BY DEF Inv
<1>1. /\ pc[p] = "user" /\ state[p] = "alive" /\ state[r] = "alive" /\ r # p
      /\ taken[p] = 0
  BY DEF ipc_event_send, Running, Found, Inv, CallsOK
<1>2. p \notin ToSet(wait_queue[r])
  BY <1>1 DEF Inv, BoxesOK
<1>3. /\ Append(wait_queue[r], p) \in Seq(Proc)
      /\ ToSet(Append(wait_queue[r], p)) = ToSet(wait_queue[r]) \cup {p}
      /\ IsInjective(Append(wait_queue[r], p))
  BY <1>0, <1>2, QueueAdd DEF TypeOK, Inv, BoxesOK
<1>4. /\ wait_queue' \in [Proc -> Seq(Proc)]
      /\ wait_queue'[r] = Append(wait_queue[r], p)
      /\ \A x \in Proc : x # r => wait_queue'[x] = wait_queue[x]
  BY <1>0, <1>3 DEF ipc_event_send, TypeOK
<1>5. /\ wait_state' \in [Proc -> {"0", "SEND", "RECV"}]
      /\ wait_state'[p] = "SEND" /\ wait_state'[r] # "RECV"
      /\ \A x \in Proc : x # p => wait_state'[x] = wait_state[x] \/ wait_state'[x] = "0"
  BY <1>0, <1>1 DEF ipc_event_send, wakeup_receiver, TypeOK
<1>6. /\ wakeup_flags' \in [Proc -> {"INTERRUPTED", "SEND"}] /\ wakeup_flags'[p] = "INTERRUPTED"
      /\ pc' \in [Proc -> {"user", "send", "recv"}] /\ pc'[p] = "send"
      /\ to' \in [Proc -> Proc \cup {Nobody}] /\ to'[p] = r
      /\ timer' \in [Proc -> {"none", "armed", "expired"}]
      /\ \A x \in Proc : x # p => /\ wakeup_flags'[x] = wakeup_flags[x]
                                  /\ pc'[x] = pc[x] /\ to'[x] = to[x]
      /\ state' = state /\ exiting' = exiting /\ taken' = taken
  BY <1>0 DEF ipc_event_send, TypeOK
<1>7. BoxesOK(state, wait_queue', pc', wait_state', to', taken)
  <2> SUFFICES ASSUME NEW x \in Proc
               PROVE  /\ IsInjective(wait_queue'[x])
                      /\ \A y \in ToSet(wait_queue'[x]) :
                           pc'[y] = "send" /\ to'[y] = x /\ taken[y] = 0
                      /\ wait_queue'[x] # <<>> => state[x] = "alive" /\ wait_state'[x] # "RECV"
    BY DEF BoxesOK
  <2>1. /\ IsInjective(wait_queue[x])
        /\ \A y \in ToSet(wait_queue[x]) : pc[y] = "send" /\ to[y] = x /\ taken[y] = 0
        /\ wait_queue[x] # <<>> => state[x] = "alive" /\ wait_state[x] # "RECV"
        /\ ToSet(wait_queue[x]) \subseteq Proc
    BY <1>0, QueueType DEF Inv, BoxesOK, TypeOK
  <2>2. \A y \in ToSet(wait_queue[x]) : pc'[y] = "send" /\ to'[y] = x /\ taken[y] = 0
    BY <1>1, <1>6, <2>1
  <2>3. CASE x = r
    <3>1. ToSet(wait_queue'[x]) = ToSet(wait_queue[x]) \cup {p} /\ IsInjective(wait_queue'[x])
      BY <1>3, <1>4, <2>3
    <3>q. QED
      BY <1>1, <1>5, <1>6, <2>2, <2>3, <3>1
  <2>4. CASE x # r
    <3>1. wait_queue'[x] = wait_queue[x]
      BY <1>4, <2>4
    <3>q. QED
      BY <1>5, <2>1, <2>2, <3>1
  <2>q. QED
    BY <2>3, <2>4
<1>8. CallsOK(state, pc', wait_state', wakeup_flags', to', taken)
  <2> SUFFICES ASSUME NEW x \in Proc
               PROVE  /\ state[x] # "alive" => pc'[x] = "user"
                      /\ wait_state'[x] = "RECV" => pc'[x] = "recv"
                      /\ wait_state'[x] = "SEND" => pc'[x] = "send"
                      /\ pc'[x] = "send" => to'[x] \in Proc
                      /\ IF pc'[x] = "send" /\ wakeup_flags'[x] = "SEND"
                         THEN taken[x] = 1 ELSE taken[x] = 0
    BY DEF CallsOK
  <2>1. CASE x = p
    BY <1>1, <1>5, <1>6, <2>1
  <2>2. CASE x # p
    BY <1>5, <1>6, <2>2 DEF Inv, CallsOK
  <2>q. QED
    BY <2>1, <2>2
<1>q. QED
  BY <1>0, <1>4, <1>5, <1>6, <1>7, <1>8 DEF Inv, TypeOK

\* Steps that leave the boxes and the destinations alone and only wake
\* processes, put one to sleep in recv_event, or begin and end lives
LEMMA OtherStepsOK ==
    ASSUME Inv, NEW p \in Proc,
           \/ \E timed \in BOOLEAN : ipc_event_recv_sleeps(p, timed)
           \/ TimerFires(p) \/ do_kill(p) \/ do_wait(p) \/ do_fork(p)
    PROVE  Inv'
<1>0. /\ TypeOK
      /\ \A x \in Proc : ToSet(wait_queue[x]) \subseteq Proc
  BY QueueType DEF Inv, TypeOK
<1>1. CASE \E timed \in BOOLEAN : ipc_event_recv_sleeps(p, timed)
  <2>1. TypeOK'
    BY <1>0, <1>1, ZenonT(30) DEF ipc_event_recv_sleeps, TypeOK
  <2>2. /\ pc[p] = "user" /\ wait_queue[p] = <<>> /\ state[p] = "alive"
        /\ pc'[p] = "recv" /\ wait_state'[p] = "RECV"
        /\ \A x \in Proc : x # p => pc'[x] = pc[x] /\ wait_state'[x] = wait_state[x]
        /\ state' = state /\ wait_queue' = wait_queue /\ wakeup_flags' = wakeup_flags
        /\ to' = to /\ taken' = taken
    BY <1>0, <1>1 DEF ipc_event_recv_sleeps, Running, TypeOK
  <2>3. BoxesOK(state, wait_queue, pc', wait_state', to, taken)
    BY <1>0, <2>2 DEF Inv, BoxesOK
  <2>4. CallsOK(state, pc', wait_state', wakeup_flags, to, taken)
    BY <2>2 DEF Inv, CallsOK
  <2>q. QED
    BY <2>1, <2>2, <2>3, <2>4 DEF Inv
<1>2. CASE TimerFires(p) \/ do_kill(p)
  <2>1. TypeOK'
    <3>1. CASE TimerFires(p)
      BY <1>0, <3>1 DEF TimerFires, TypeOK
    <3>2. CASE do_kill(p)
      BY <1>0, <3>2 DEF do_kill, TypeOK
    <3>q. QED
      BY <1>2, <3>1, <3>2
  <2>2. /\ \A x \in Proc : wait_state'[x] = wait_state[x] \/ wait_state'[x] = "0"
        /\ UNCHANGED <<state, wait_queue, pc, wakeup_flags, to, taken>>
    BY <1>0, <1>2 DEF TimerFires, do_kill, TypeOK
  <2>3. BoxesOK(state, wait_queue, pc, wait_state', to, taken)
    BY <2>2 DEF Inv, BoxesOK
  <2>4. CallsOK(state, pc, wait_state', wakeup_flags, to, taken)
    BY <2>2 DEF Inv, CallsOK
  <2>q. QED
    BY <2>1, <2>2, <2>3, <2>4 DEF Inv
<1>3. CASE do_wait(p) \/ do_fork(p)
  <2>0. state[p] # "alive" /\ pc[p] = "user" /\ wait_queue[p] = <<>>
    BY <1>3 DEF do_wait, do_fork, Inv, BoxesOK, CallsOK
  <2>1. wait_queue' = wait_queue
    BY <1>0, <1>3, <2>0 DEF do_wait, do_fork, TypeOK
  <2>2. TypeOK'
    <3>1. CASE do_wait(p)
      BY <1>0, <2>1, <3>1 DEF do_wait, TypeOK
    <3>2. CASE do_fork(p)
      BY <1>0, <2>1, <3>2 DEF do_fork, TypeOK
    <3>q. QED
      BY <1>3, <3>1, <3>2
  <2>3. /\ \A x \in Proc : x # p => state'[x] = state[x]
        /\ UNCHANGED <<pc, wait_state, wakeup_flags, to, taken>>
    BY <1>0, <1>3 DEF do_wait, do_fork, TypeOK
  <2>4. BoxesOK(state', wait_queue, pc, wait_state, to, taken)
    BY <2>0, <2>3 DEF Inv, BoxesOK
  <2>5. CallsOK(state', pc, wait_state, wakeup_flags, to, taken)
    BY <2>0, <2>3 DEF Inv, CallsOK
  <2>q. QED
    BY <2>1, <2>2, <2>3, <2>4, <2>5 DEF Inv
<1>q. QED
  BY <1>1, <1>2, <1>3

-----------------------------------------------------------------------------
LEMMA Begins == Init => Inv
<1> SUFFICES ASSUME Init PROVE Inv
  OBVIOUS
<1>1. TypeOK
  BY QueueEmpty DEF Init, TypeOK
<1>2. BoxesOK(state, wait_queue, pc, wait_state, to, taken)
  BY QueueEmpty DEF Init, BoxesOK
<1>3. CallsOK(state, pc, wait_state, wakeup_flags, to, taken)
  BY DEF Init, CallsOK
<1>q. QED
  BY <1>1, <1>2, <1>3 DEF Inv

LEMMA StepOK == Inv /\ [Next]_vars => Inv'
<1> SUFFICES ASSUME Inv, [Next]_vars PROVE Inv'
  OBVIOUS
<1>0. TypeOK
  BY DEF Inv
<1>1. ASSUME NEW p \in Proc, NEW r \in Proc, NEW timed \in BOOLEAN, ipc_event_send(p, r, timed)
      PROVE  Inv'
  BY <1>1, SendSleepsOK
<1>2. ASSUME NEW p \in Proc, NEW r \in Proc, ipc_event_send_fails(p, r)
      PROVE  Inv'
  <2>1. pc[p] = "user" /\ wait_state[p] = "0"
    BY <1>0, <1>2 DEF ipc_event_send_fails, Running, Inv, CallsOK, TypeOK
  <2>q. QED
    BY <1>0, <1>2, <2>1, LeavesUnchanged DEF ipc_event_send_fails, TypeOK
<1>3. ASSUME NEW p \in Proc, SendReturns(p)
      PROVE  Inv'
  BY <1>3, SendEndsOK
<1>4. ASSUME NEW p \in Proc, ipc_event_recv(p)
      PROVE  Inv'
  <2>1. pc[p] = "user" /\ wait_state[p] = "0"
    BY <1>0, <1>4 DEF ipc_event_recv, Running, Inv, CallsOK, TypeOK
  <2>q. QED
    BY <1>0, <1>4, <2>1, TakesFirst DEF ipc_event_recv, TypeOK
<1>5. ASSUME NEW p \in Proc, RecvReturns(p)
      PROVE  Inv'
  <2>1. /\ pc[p] = "recv" /\ wait_state[p] = "0" /\ UNCHANGED <<to, exiting>>
        /\ timer' \in [Proc -> {"none", "armed", "expired"}]
    BY <1>0, <1>5 DEF RecvReturns, TypeOK
  <2>2. CASE wait_queue[p] # <<>>
    BY <1>5, <2>1, <2>2, TakesFirst DEF RecvReturns
  <2>3. CASE wait_queue[p] = <<>>
    BY <1>5, <2>1, <2>3, LeavesUnchanged DEF RecvReturns
  <2>q. QED
    BY <2>2, <2>3
<1>6. ASSUME NEW p \in Proc, may_killed(p)
      PROVE  Inv'
  <2>1. pc[p] = "user" /\ wait_state[p] = "0"
    BY <1>0, <1>6 DEF may_killed, Running, Inv, CallsOK, TypeOK
  <2>q. QED
    BY <1>0, <1>6, <2>1, LeavesUnchanged DEF may_killed, TypeOK
<1>7. ASSUME NEW p \in Proc,
             \/ \E timed \in BOOLEAN : ipc_event_recv_sleeps(p, timed)
             \/ TimerFires(p) \/ do_kill(p) \/ do_wait(p) \/ do_fork(p)
      PROVE  Inv'
  BY <1>7, OtherStepsOK
<1>8. CASE UNCHANGED vars
  BY <1>8 DEF vars, Inv, TypeOK, BoxesOK, CallsOK
<1>q. QED
  BY <1>1, <1>2, <1>3, <1>4, <1>5, <1>6, <1>7, <1>8 DEF Next

LEMMA Always == Spec => []Inv
BY Begins, StepOK, PTL DEF Spec

\* The wait queue of an event box (sync/event.c) lists processes that are inside
\* the ipc_event_send that named its owner, each once, and the owner is alive and
\* does not sleep in ipc_event_recv: however sends, receives, timeouts, kills,
\* exits and reaping are interleaved.
THEOREM BoxHoldsSendersHolds == Spec => []BoxHoldsSenders
<1>1. Inv => BoxHoldsSenders
  BY DEF Inv, BoxesOK, BoxHoldsSenders
<1>q. QED
  BY <1>1, Always, PTL

\* ipc_event_send returns 0 exactly when recv_event has taken its event, and no
\* event is taken twice or after its send has ended: for any number of senders and
\* receivers, and wherever a timer, a kill or an exit falls.
THEOREM SentMeansTakenOnceHolds == Spec => SentMeansTakenOnce
<1> DEFINE A == \A p \in Proc :
                  /\ taken'[p] > taken[p] => pc[p] = "send" /\ taken[p] = 0
                  /\ pc[p] = "send" /\ pc'[p] # "send"
                       => (SendResult(p) = "ok" <=> taken[p] = 1)
<1>1. Inv /\ [Next]_vars => [A]_vars
  <2> SUFFICES ASSUME Inv, Next, NEW p \in Proc
               PROVE  /\ taken'[p] > taken[p] => pc[p] = "send" /\ taken[p] = 0
                      /\ pc[p] = "send" => (SendResult(p) = "ok" <=> taken[p] = 1)
    OBVIOUS
  <2>0. TypeOK
    BY DEF Inv
  <2>1. pc[p] = "send" => (SendResult(p) = "ok" <=> taken[p] = 1)
    BY DEF SendResult, Inv, CallsOK
  <2>2. ASSUME taken'[p] > taken[p]
        PROVE  pc[p] = "send" /\ taken[p] = 0
    <3>1. taken'[p] # taken[p] /\ ~(taken[p] \in Nat /\ taken'[p] = 0)
      BY <2>0, <2>2 DEF TypeOK
    <3>2. PICK r \in Proc : wait_queue[r] # <<>> /\ wakeup_wait(r)
      BY <2>0, <3>1 DEF Next, ipc_event_send, ipc_event_send_fails, SendReturns,
             ipc_event_recv, ipc_event_recv_sleeps, RecvReturns, TimerFires, do_kill,
             may_killed, do_wait, do_fork, TypeOK
    <3>3. p = Head(wait_queue[r])
      BY <2>0, <3>1, <3>2 DEF wakeup_wait, TypeOK
    <3>4. p \in ToSet(wait_queue[r])
      BY <2>0, <3>2, <3>3, QueueTail DEF TypeOK
    <3>q. QED
      BY <3>4 DEF Inv, BoxesOK
  <2>q. QED
    BY <2>1, <2>2
<1>q. QED
  BY <1>1, Always, PTL DEF Spec, SentMeansTakenOnce
=============================================================================
