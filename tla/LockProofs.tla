----------------------------- MODULE LockProofs -----------------------------
(***************************************************************************)
(* Semaphores lose no token, no waiter and no wakeup, and a kernel mutex   *)
(* has one holder: for any number of processes and semaphores, any         *)
(* timeouts and any initial value.  The kernel lock below them is held by  *)
(* the one CPU that is in the kernel, and no CPU keeps a stale translation *)
(* past a shootdown: for any number of CPUs, processes and address spaces. *)
(***************************************************************************)
EXTENDS Sem, KernLock, QueueLemmas

USE SemAssumption DEF Semaphore

TypeOK ==
    /\ value \in [Semaphore -> Nat] /\ net \in [Semaphore -> Int]
    /\ valid \in [Semaphore -> BOOLEAN]
    /\ wait_queue \in [Semaphore -> Seq(Proc)]
    /\ refs \in [USem -> SUBSET Proc]
    /\ pc \in [Proc -> {"user", "down", "crit", "dead"}]
    /\ sem \in [Proc -> Semaphore \cup {NoSem}]
    /\ wait_state \in [Proc -> {"0", "KSEM", "USEM"}]
    /\ wakeup_flags \in [Proc -> {"INTERRUPTED", "KSEM", "USEM"}]
    /\ timer \in [Proc -> Nat] /\ timeout \in [Proc -> Nat] /\ elapsed \in [Proc -> Nat]
    /\ exiting \in [Proc -> BOOLEAN]
    /\ ret \in [Proc -> {"none", "ok", "E_INVAL", "E_TIMEOUT", "error"}]
    /\ panicked \in {"no", "up"}

\* The queues hold those who have not been given a token, and are empty while
\* there is one.
QueuesOK ==
    \A s \in Semaphore :
        /\ IsInjective(wait_queue[s])
        /\ value[s] > 0 => wait_queue[s] = <<>>
        /\ \A p \in ToSet(wait_queue[s]) :
             /\ pc[p] = "down" /\ sem[p] = s /\ wakeup_flags[p] = "INTERRUPTED"
             /\ s \in USem => p \in refs[s] /\ valid[s]

\* Who sleeps is in the queue of its semaphore.
SleepersOK ==
    \A p \in Proc : wait_state[p] # "0" =>
        /\ pc[p] = "down" /\ sem[p] \in Semaphore
        /\ wait_state[p] = WaitStateOf(sem[p])
        /\ p \in ToSet(wait_queue[sem[p]])

\* The timer of a wait and the ticks since it began make up its timeout; only
\* waits for user semaphores have one.  A process awake inside a wait for a
\* kernel semaphore has been given the token; one for a user semaphore has it,
\* or has been killed, or the semaphore is gone, or its time is up.
WaitsOK ==
    \A p \in Proc :
        /\ pc[p] = "down" => /\ sem[p] \in Semaphore
                             /\ wakeup_flags[p] \in {"INTERRUPTED", WaitStateOf(sem[p])}
        /\ pc[p] = "crit" => sem[p] \in KSem
        /\ timer[p] + elapsed[p] = timeout[p]
        /\ pc[p] # "down" \/ sem[p] \in KSem => timeout[p] = 0
        /\ pc[p] = "down" /\ sem[p] \in KSem /\ wait_state[p] = "0" => wakeup_flags[p] = "KSEM"
        /\ pc[p] = "down" /\ sem[p] \in USem /\ wait_state[p] = "0"
             /\ wakeup_flags[p] = "INTERRUPTED"
               => exiting[p] \/ ~valid[sem[p]] \/ ipc_check_timeout(p)

\* The processes inside the kernel mutex s
Holders(s) == {p \in Proc : pc[p] = "crit" /\ sem[p] = s}

\* A token of a mutex is where TokensConserved says, or with its holder.
TokensOK ==
    /\ TokensConserved
    /\ \A s \in KSem : Cardinality(Holders(s)) + net[s] = 1

Inv ==
    /\ TypeOK /\ QueuesOK /\ SleepersOK /\ WaitsOK
    /\ TokensOK /\ ErrorMeansKilledOrFreed

-----------------------------------------------------------------------------
(* Counting processes                                                       *)

LEMMA SetsOfProcesses ==
    \A s : Handed(s) \in SUBSET Proc /\ Holders(s) \in SUBSET Proc
BY DEF Handed, Holders

\* If the same processes hold tokens and the values and counts stay, or change
\* together, tokens are conserved.
LEMMA SameTokens ==
    ASSUME Inv, TypeOK',
           \A s \in Semaphore : Handed(s)' = Handed(s),
           \A s \in KSem : Holders(s)' = Holders(s) /\ net'[s] = net[s],
           \A s \in Semaphore : value'[s] - value[s] = net'[s] - net[s]
    PROVE  TokensOK'
<1>1. \A s \in Semaphore : Cardinality(Handed(s)) \in Nat
  BY Count, SetsOfProcesses
<1>2. \A s \in Semaphore : value'[s] + Cardinality(Handed(s)') = net'[s]
  BY <1>1 DEF Inv, TypeOK, TokensOK, TokensConserved
<1>3. \A s \in KSem : Cardinality(Holders(s)') + net'[s] = 1
  BY DEF Inv, TokensOK
<1>q. QED
  BY <1>2, <1>3 DEF TokensOK, TokensConserved

-----------------------------------------------------------------------------
(* The end of a call                                                        *)

LEMMA Leaves ==
    ASSUME TypeOK, NEW p \in Proc, NEW r \in [USem -> SUBSET Proc], BackToUser(p, r)
    PROVE  /\ pc' \in [Proc -> {"user", "down", "crit", "dead"}]
           /\ refs' \in [USem -> SUBSET Proc]
           /\ pc'[p] \in {"user", "dead"}
           /\ \A x \in Proc : x # p => pc'[x] = pc[x]
           /\ \A s \in USem : \A x \in Proc : x # p /\ x \in r[s] => x \in refs'[s]
BY DEF BackToUser, TypeOK

LEMMA SearchedRefs ==
    ASSUME TypeOK, NEW p \in Proc, NEW s \in USem
    PROVE  /\ Searched(p, s) \in [USem -> SUBSET Proc]
           /\ \A u \in USem : \A x \in Proc : x # p /\ x \in refs[u] => x \in Searched(p, s)[u]
BY DEF Searched, TypeOK

\* A step that changes nothing for those inside a wait or a mutex, but that it
\* may kill them: a kill wakes who sleeps for a user semaphore.
LEMMA Quiet ==
    ASSUME Inv, TypeOK',
           UNCHANGED <<wait_queue, valid, sem, wakeup_flags, timer, timeout, elapsed>>,
           \A x \in Proc : pc[x] \in {"down", "crit"} \/ pc'[x] \in {"down", "crit"}
                             => pc'[x] = pc[x],
           \A x \in Proc : pc[x] = "down" =>
                /\ exiting[x] => exiting'[x]
                /\ \A s \in USem : x \in refs[s] => x \in refs'[s],
           \A s \in Semaphore : value'[s] > 0 => value[s] > 0,
           \A x \in Proc : \/ wait_state'[x] = wait_state[x]
                           \/ wait_state[x] = "USEM" /\ wait_state'[x] = "0" /\ exiting'[x]
    PROVE  /\ QueuesOK' /\ SleepersOK' /\ WaitsOK'
           /\ \A s \in Semaphore : Handed(s)' = Handed(s)
           /\ \A s \in KSem : Holders(s)' = Holders(s)
<1>0. \A s \in Semaphore : ToSet(wait_queue[s]) \subseteq Proc
  BY QueueType DEF Inv, TypeOK
<1>1. QueuesOK'
  BY <1>0 DEF Inv, QueuesOK
<1>2. SleepersOK'
  BY DEF Inv, SleepersOK
<1>3. WaitsOK'
  <2> SUFFICES ASSUME NEW p \in Proc
               PROVE  (/\ pc[p] = "down" =>
                            /\ sem[p] \in Semaphore
                            /\ wakeup_flags[p] \in {"INTERRUPTED", WaitStateOf(sem[p])}
                       /\ pc[p] = "crit" => sem[p] \in KSem
                       /\ timer[p] + elapsed[p] = timeout[p]
                       /\ pc[p] # "down" \/ sem[p] \in KSem => timeout[p] = 0
                       /\ pc[p] = "down" /\ sem[p] \in KSem /\ wait_state[p] = "0"
                            => wakeup_flags[p] = "KSEM"
                       /\ pc[p] = "down" /\ sem[p] \in USem /\ wait_state[p] = "0"
                            /\ wakeup_flags[p] = "INTERRUPTED"
                            => exiting[p] \/ ~valid[sem[p]] \/ ipc_check_timeout(p))'
    BY DEF WaitsOK
  <2>1. wait_state[p] = "USEM" => sem[p] \notin KSem
    BY DEF Inv, SleepersOK, WaitStateOf
  <2>q. QED
    BY <2>1 DEF Inv, WaitsOK, WaitStateOf, ipc_check_timeout
<1>4. \A s \in Semaphore : Handed(s)' = Handed(s)
  BY DEF Handed, WaitStateOf
<1>5. \A s \in KSem : Holders(s)' = Holders(s)
  BY DEF Holders
<1>q. QED
  BY <1>1, <1>2, <1>3, <1>4, <1>5
-----------------------------------------------------------------------------
(* Going to sleep and being woken                                           *)

\* __down puts the caller into the queue of a semaphore that has no token.
LEMMA SleepOnOK ==
    ASSUME Inv, NEW p \in Proc, NEW s \in Semaphore, NEW t \in Nat,
           pc[p] = "user", SleepOn(p, s, t),
           s \in KSem => t = 0, s \in USem => p \in refs[s] /\ valid[s],
           UNCHANGED <<value, net, valid, refs, exiting, panicked>>,
           ret' \in [Proc -> {"none", "ok", "E_INVAL", "E_TIMEOUT", "error"}],
           \A x \in Proc : ret'[x] = "error" => ret[x] = "error"
    PROVE  Inv'
<1> DEFINE q == Append(wait_queue[s], p)
<1>0. TypeOK /\ p \notin ToSet(wait_queue[s]) /\ value[s] = 0
  BY DEF Inv, QueuesOK, SleepOn, TypeOK
<1>1. q \in Seq(Proc) /\ ToSet(q) = ToSet(wait_queue[s]) \cup {p} /\ IsInjective(q)
  BY <1>0, QueueAdd DEF TypeOK, Inv, QueuesOK
<1> HIDE DEF q
<1>2. /\ wait_queue' \in [Semaphore -> Seq(Proc)]
      /\ wait_queue'[s] = q
      /\ \A u \in Semaphore : u # s => wait_queue'[u] = wait_queue[u]
  BY <1>0, <1>1 DEF SleepOn, wait_current_set, TypeOK, q
<1>3. /\ wait_state' \in [Proc -> {"0", "KSEM", "USEM"}] /\ wait_state'[p] = WaitStateOf(s)
      /\ wakeup_flags' \in [Proc -> {"INTERRUPTED", "KSEM", "USEM"}]
      /\ wakeup_flags'[p] = "INTERRUPTED"
      /\ pc' \in [Proc -> {"user", "down", "crit", "dead"}] /\ pc'[p] = "down"
      /\ sem' \in [Proc -> Semaphore \cup {NoSem}] /\ sem'[p] = s
      /\ timer' \in [Proc -> Nat] /\ timeout' \in [Proc -> Nat] /\ elapsed' \in [Proc -> Nat]
      /\ timer'[p] = t /\ timeout'[p] = t /\ elapsed'[p] = 0
      /\ \A x \in Proc : x # p =>
           /\ wait_state'[x] = wait_state[x] /\ wakeup_flags'[x] = wakeup_flags[x]
           /\ pc'[x] = pc[x] /\ sem'[x] = sem[x]
           /\ timer'[x] = timer[x] /\ timeout'[x] = timeout[x] /\ elapsed'[x] = elapsed[x]
  BY <1>0 DEF SleepOn, wait_current_set, ipc_add_timer, WaitStateOf, TypeOK
<1>4. TypeOK'
  BY <1>0, <1>2, <1>3 DEF TypeOK
<1>5. \A u \in Semaphore : ToSet(wait_queue'[u]) = IF u = s THEN ToSet(wait_queue[u]) \cup {p}
                                                   ELSE ToSet(wait_queue[u])
  BY <1>1, <1>2
<1>6. \A u \in Semaphore : ToSet(wait_queue[u]) \subseteq Proc
  BY <1>0, QueueType DEF TypeOK
<1>7. QueuesOK'
  <2> SUFFICES ASSUME NEW u \in Semaphore
               PROVE  /\ IsInjective(wait_queue'[u])
                      /\ value[u] > 0 => wait_queue'[u] = <<>>
                      /\ \A x \in ToSet(wait_queue'[u]) :
                           /\ pc'[x] = "down" /\ sem'[x] = u /\ wakeup_flags'[x] = "INTERRUPTED"
                           /\ u \in USem => x \in refs[u] /\ valid[u]
    BY DEF QueuesOK
  <2>1. IsInjective(wait_queue'[u]) /\ (value[u] > 0 => wait_queue'[u] = <<>>)
    <3>1. CASE u = s
      BY <1>0, <1>1, <1>2, <3>1
    <3>2. CASE u # s
      BY <1>2, <3>2 DEF Inv, QueuesOK
    <3>q. QED
      BY <3>1, <3>2
  <2>2. ASSUME NEW x \in ToSet(wait_queue'[u])
        PROVE  /\ pc'[x] = "down" /\ sem'[x] = u /\ wakeup_flags'[x] = "INTERRUPTED"
               /\ u \in USem => x \in refs[u] /\ valid[u]
    <3>1. CASE x = p
      <4>1. u = s
        BY <1>5, <2>2, <3>1 DEF Inv, QueuesOK
      <4>q. QED
        BY <1>3, <3>1, <4>1
    <3>2. CASE x # p
      <4>1. x \in ToSet(wait_queue[u]) /\ x \in Proc
        BY <1>5, <1>6, <2>2, <3>2
      <4>2. /\ pc[x] = "down" /\ sem[x] = u /\ wakeup_flags[x] = "INTERRUPTED"
            /\ u \in USem => x \in refs[u] /\ valid[u]
        BY <4>1 DEF Inv, QueuesOK
      <4>q. QED
        BY <1>3, <3>2, <4>1, <4>2
    <3>q. QED
      BY <3>1, <3>2
  <2>q. QED
    BY <2>1, <2>2
<1>8. SleepersOK'
  <2> SUFFICES ASSUME NEW x \in Proc, wait_state'[x] # "0"
               PROVE  /\ pc'[x] = "down" /\ sem'[x] \in Semaphore
                      /\ wait_state'[x] = WaitStateOf(sem'[x])
                      /\ x \in ToSet(wait_queue'[sem'[x]])
    BY DEF SleepersOK, WaitStateOf
  <2>1. CASE x = p
    BY <1>3, <1>5, <2>1
  <2>2. CASE x # p
    <3>1. /\ pc[x] = "down" /\ sem[x] \in Semaphore
          /\ wait_state[x] = WaitStateOf(sem[x])
          /\ x \in ToSet(wait_queue[sem[x]])
      BY <1>3, <2>2 DEF Inv, SleepersOK
    <3>2. sem'[x] = sem[x] /\ pc'[x] = pc[x] /\ wait_state'[x] = wait_state[x]
      BY <1>3, <2>2
    <3>3. x \in ToSet(wait_queue'[sem[x]])
      BY <1>5, <3>1
    <3>q. QED
      BY <3>1, <3>2, <3>3
  <2>q. QED
    BY <2>1, <2>2
<1>9. WaitsOK'
  <2> SUFFICES ASSUME NEW x \in Proc
               PROVE  (/\ pc[x] = "down" =>
                            /\ sem[x] \in Semaphore
                            /\ wakeup_flags[x] \in {"INTERRUPTED", WaitStateOf(sem[x])}
                       /\ pc[x] = "crit" => sem[x] \in KSem
                       /\ timer[x] + elapsed[x] = timeout[x]
                       /\ pc[x] # "down" \/ sem[x] \in KSem => timeout[x] = 0
                       /\ pc[x] = "down" /\ sem[x] \in KSem /\ wait_state[x] = "0"
                            => wakeup_flags[x] = "KSEM"
                       /\ pc[x] = "down" /\ sem[x] \in USem /\ wait_state[x] = "0"
                            /\ wakeup_flags[x] = "INTERRUPTED"
                            => exiting[x] \/ ~valid[sem[x]] \/ ipc_check_timeout(x))'
    BY DEF WaitsOK
  <2>1. CASE x = p
    BY <1>3, <2>1 DEF WaitStateOf
  <2>2. CASE x # p
    BY <1>3, <2>2 DEF Inv, WaitsOK, WaitStateOf, ipc_check_timeout
  <2>q. QED
    BY <2>1, <2>2
<1>10. TokensOK'
  <2>1. \A u \in Semaphore : Handed(u)' = Handed(u)
    BY <1>3 DEF Handed, WaitStateOf
  <2>2. \A u \in KSem : Holders(u)' = Holders(u)
    BY <1>3 DEF Holders
  <2>3. /\ \A u \in Semaphore : value'[u] - value[u] = net'[u] - net[u]
        /\ \A u \in KSem : net'[u] = net[u]
    BY DEF Inv, TypeOK
  <2>q. QED
    BY <1>4, <2>1, <2>2, <2>3, SameTokens, Zenon
<1>11. ErrorMeansKilledOrFreed'
  BY DEF Inv, ErrorMeansKilledOrFreed
<1>q. QED
  BY <1>4, <1>7, <1>8, <1>9, <1>10, <1>11 DEF Inv

\* __up of s, at the end of which its caller p leaves the kernel or the mutex:
\* the token goes to the first waiter or back into the semaphore, or __up has
\* found that waiter awake and panics, which it cannot on a kernel semaphore.
LEMMA UpOK ==
    ASSUME Inv, NEW p \in Proc, NEW s \in Semaphore, Up(s), panicked = "no",
           pc[p] = "user" \/ (pc[p] = "crit" /\ sem[p] = s),
           pc' \in [Proc -> {"user", "down", "crit", "dead"}], pc'[p] \in {"user", "dead"},
           sem' \in [Proc -> Semaphore \cup {NoSem}], refs' \in [USem -> SUBSET Proc],
           \A x \in Proc : x # p =>
                /\ pc'[x] = pc[x] /\ sem'[x] = sem[x]
                /\ \A u \in USem : x \in refs[u] => x \in refs'[u],
           UNCHANGED <<valid, timer, timeout, elapsed, exiting, ret>>
    PROVE  /\ TypeOK' /\ QueuesOK' /\ SleepersOK' /\ WaitsOK' /\ TokensConserved'
           /\ \A u \in Semaphore : u # s => net'[u] = net[u]
           /\ s \in KSem => net'[s] = net[s] + 1
<1>0. TypeOK /\ \A u \in Semaphore : ToSet(wait_queue[u]) \subseteq Proc
  BY QueueType DEF Inv, TypeOK
<1>p. wait_state[p] = "0" /\ \A u \in Semaphore : p \notin ToSet(wait_queue[u]) /\ p \notin Handed(u)
  BY DEF Inv, QueuesOK, SleepersOK, Handed
<1>1. CASE wait_queue[s] = <<>>
  <2>0. /\ value' = [value EXCEPT ![s] = @ + 1] /\ net' = [net EXCEPT ![s] = @ + 1]
        /\ UNCHANGED <<wait_queue, wait_state, wakeup_flags, panicked>>
    BY <1>1 DEF Up
  <2>1. /\ value' \in [Semaphore -> Nat] /\ net' \in [Semaphore -> Int]
        /\ value'[s] = value[s] + 1 /\ net'[s] = net[s] + 1
        /\ \A u \in Semaphore : u # s => value'[u] = value[u] /\ net'[u] = net[u]
        /\ UNCHANGED <<wait_queue, wait_state, wakeup_flags, panicked>>
    BY <1>0, <2>0 DEF TypeOK
  <2>2. TypeOK'
    BY <1>0, <2>1 DEF TypeOK
  <2>3. QueuesOK'
    <3> SUFFICES ASSUME NEW u \in Semaphore
                 PROVE  (/\ IsInjective(wait_queue[u])
                         /\ value[u] > 0 => wait_queue[u] = <<>>
                         /\ \A x \in ToSet(wait_queue[u]) :
                              /\ pc[x] = "down" /\ sem[x] = u
                              /\ wakeup_flags[x] = "INTERRUPTED"
                              /\ u \in USem => x \in refs[u] /\ valid[u])'
      BY DEF QueuesOK
    <3>1. value'[u] > 0 => wait_queue[u] = <<>>
      BY <1>1, <2>1 DEF Inv, QueuesOK
    <3>2. /\ IsInjective(wait_queue[u])
          /\ \A x \in ToSet(wait_queue[u]) :
               /\ x \in Proc /\ x # p
               /\ pc[x] = "down" /\ sem[x] = u /\ wakeup_flags[x] = "INTERRUPTED"
               /\ u \in USem => x \in refs[u] /\ valid[u]
      BY <1>0, <1>p DEF Inv, QueuesOK
    <3>3. ASSUME NEW x \in ToSet(wait_queue[u])
          PROVE  /\ pc'[x] = "down" /\ sem'[x] = u
                 /\ wakeup_flags'[x] = "INTERRUPTED"
                 /\ u \in USem => x \in refs'[u] /\ valid'[u]
      BY <2>1, <3>2
    <3>q. QED
      BY <2>1, <3>1, <3>2, <3>3
  <2>4. SleepersOK'
    BY <1>p, <2>1 DEF Inv, SleepersOK
  <2>5. WaitsOK'
    BY <1>p, <2>1 DEF Inv, WaitsOK, ipc_check_timeout
  <2>6. \A u \in Semaphore : Handed(u)' = Handed(u)
    BY <1>p, <2>1 DEF Handed, WaitStateOf
  <2>7. TokensConserved'
    <3>1. \A u \in Semaphore : Cardinality(Handed(u)) \in Nat
      BY Count, SetsOfProcesses
    <3>2. \A u \in Semaphore : /\ value[u] + Cardinality(Handed(u)) = net[u]
                                /\ value[u] \in Nat /\ net[u] \in Int
      BY <1>0 DEF Inv, TokensOK, TokensConserved, TypeOK
    <3>3. ASSUME NEW u \in Semaphore
          PROVE  value'[u] + Cardinality(Handed(u)') = net'[u]
      <4>1. Handed(u)' = Handed(u)
        BY <2>6
      <4>2. value'[u] + Cardinality(Handed(u)) = net'[u]
        BY <2>1, <3>1, <3>2
      <4>q. QED
        BY <4>1, <4>2
    <3>q. QED
      BY <3>3 DEF TokensConserved
  <2>q. QED
    BY <2>1, <2>2, <2>3, <2>4, <2>5, <2>7
<1>2. CASE wait_queue[s] # <<>>
  <2> DEFINE w == Head(wait_queue[s])
             q == Tail(wait_queue[s])
  <2>1. /\ w \in Proc /\ w \in ToSet(wait_queue[s])
        /\ q \in Seq(Proc) /\ IsInjective(q)
        /\ ToSet(q) = ToSet(wait_queue[s]) \ {w}
    BY <1>0, <1>2, QueueTail DEF Inv, TypeOK, QueuesOK
  <2>2. /\ pc[w] = "down" /\ sem[w] = s /\ wakeup_flags[w] = "INTERRUPTED" /\ w # p
        /\ value[s] = 0
    BY <1>0, <1>2, <1>p, <2>1 DEF Inv, QueuesOK, TypeOK
  <2>3. wait_state[w] = WaitStateOf(s) \/ (wait_state[w] = "0" /\ s \in USem)
    BY <2>1, <2>2 DEF Inv, SleepersOK, WaitsOK
  <2>4. CASE wait_state[w] # WaitStateOf(s)
    <3>1. /\ s \in USem /\ panicked' = "up"
          /\ UNCHANGED <<value, net, wait_queue, wait_state, wakeup_flags>>
      BY <1>2, <2>3, <2>4 DEF Up
    <3>2. TypeOK'
      BY <1>0, <3>1 DEF TypeOK
    <3>3. QueuesOK'
      <4> SUFFICES ASSUME NEW u \in Semaphore
                   PROVE  (/\ IsInjective(wait_queue[u])
                           /\ value[u] > 0 => wait_queue[u] = <<>>
                           /\ \A x \in ToSet(wait_queue[u]) :
                                /\ pc[x] = "down" /\ sem[x] = u
                                /\ wakeup_flags[x] = "INTERRUPTED"
                                /\ u \in USem => x \in refs[u] /\ valid[u])'
        BY DEF QueuesOK
      <4>1. /\ IsInjective(wait_queue[u])
            /\ value[u] > 0 => wait_queue[u] = <<>>
            /\ \A x \in ToSet(wait_queue[u]) :
                 /\ x \in Proc /\ x # p
                 /\ pc[x] = "down" /\ sem[x] = u /\ wakeup_flags[x] = "INTERRUPTED"
                 /\ u \in USem => x \in refs[u] /\ valid[u]
        BY <1>0, <1>p DEF Inv, QueuesOK
      <4>2. ASSUME NEW x \in ToSet(wait_queue[u])
            PROVE  /\ pc'[x] = "down" /\ sem'[x] = u
                   /\ wakeup_flags'[x] = "INTERRUPTED"
                   /\ u \in USem => x \in refs'[u] /\ valid'[u]
        BY <3>1, <4>1
      <4>q. QED
        BY <3>1, <4>1, <4>2
    <3>4. SleepersOK'
      BY <1>p, <3>1 DEF Inv, SleepersOK
    <3>5. WaitsOK'
      BY <1>p, <3>1 DEF Inv, WaitsOK, ipc_check_timeout
    <3>6. \A u \in Semaphore : Handed(u)' = Handed(u)
      BY <1>p, <3>1 DEF Handed, WaitStateOf
    <3>7. TokensConserved'
      BY <3>1, <3>6 DEF Inv, TokensOK, TokensConserved
    <3>q. QED
      BY <3>1, <3>2, <3>3, <3>4, <3>5, <3>7
  <2>5. CASE wait_state[w] = WaitStateOf(s)
    <3>1. /\ wait_queue' = [wait_queue EXCEPT ![s] = q]
          /\ wakeup_flags' = [wakeup_flags EXCEPT ![w] = WaitStateOf(s)]
          /\ wait_state' = [wait_state EXCEPT ![w] = "0"]
          /\ net' = [net EXCEPT ![s] = @ + 1]
          /\ UNCHANGED <<value, panicked>>
      BY <1>2, <2>5 DEF Up
    <3> HIDE DEF w, q
    <3>2. /\ net' \in [Semaphore -> Int] /\ net'[s] = net[s] + 1
          /\ wait_queue' \in [Semaphore -> Seq(Proc)] /\ wait_queue'[s] = q
          /\ \A u \in Semaphore : u # s => net'[u] = net[u] /\ wait_queue'[u] = wait_queue[u]
      BY <1>0, <2>1, <3>1 DEF TypeOK
    <3>3. /\ wait_state' \in [Proc -> {"0", "KSEM", "USEM"}] /\ wait_state'[w] = "0"
          /\ wakeup_flags' \in [Proc -> {"INTERRUPTED", "KSEM", "USEM"}]
          /\ wakeup_flags'[w] = WaitStateOf(s)
          /\ \A x \in Proc : x # w => /\ wait_state'[x] = wait_state[x]
                                      /\ wakeup_flags'[x] = wakeup_flags[x]
      BY <1>0, <2>1, <3>1 DEF TypeOK, WaitStateOf
    <3>4. TypeOK'
      BY <1>0, <3>1, <3>2, <3>3 DEF TypeOK
    <3>5. \A u \in Semaphore : ToSet(wait_queue'[u]) = ToSet(wait_queue[u]) \ {w}
      BY <2>1, <2>2, <3>2 DEF Inv, QueuesOK
    <3>6. QueuesOK'
      <4> SUFFICES ASSUME NEW u \in Semaphore
                   PROVE  /\ IsInjective(wait_queue'[u])
                          /\ value[u] > 0 => wait_queue'[u] = <<>>
                          /\ \A x \in ToSet(wait_queue'[u]) :
                               /\ pc'[x] = "down" /\ sem'[x] = u
                               /\ wakeup_flags'[x] = "INTERRUPTED"
                               /\ u \in USem => x \in refs'[u] /\ valid[u]
        BY <3>1 DEF QueuesOK
      <4>1. IsInjective(wait_queue'[u])
        BY <2>1, <3>2 DEF Inv, QueuesOK
      <4>2. value[u] > 0 => wait_queue'[u] = <<>>
        BY <1>0, <2>2, <3>2 DEF Inv, QueuesOK, TypeOK
      <4>3. \A x \in ToSet(wait_queue'[u]) : x \in ToSet(wait_queue[u]) /\ x # w /\ x # p /\ x \in Proc
        BY <1>0, <1>p, <3>5
      <4>q. QED
        BY <3>3, <4>1, <4>2, <4>3 DEF Inv, QueuesOK
    <3>7. SleepersOK'
      <4> SUFFICES ASSUME NEW x \in Proc, wait_state'[x] # "0"
                   PROVE  /\ pc'[x] = "down" /\ sem'[x] \in Semaphore
                          /\ wait_state'[x] = WaitStateOf(sem'[x])
                          /\ x \in ToSet(wait_queue'[sem'[x]])
        BY DEF SleepersOK, WaitStateOf
      <4>1. x # w /\ x # p
        BY <1>p, <2>2, <3>3
      <4>2. /\ pc[x] = "down" /\ sem[x] \in Semaphore
            /\ wait_state[x] = WaitStateOf(sem[x])
            /\ x \in ToSet(wait_queue[sem[x]])
        BY <3>3, <4>1 DEF Inv, SleepersOK
      <4>3. sem'[x] = sem[x] /\ pc'[x] = pc[x] /\ wait_state'[x] = wait_state[x]
        BY <3>3, <4>1
      <4>4. x \in ToSet(wait_queue'[sem[x]])
        BY <3>5, <4>1, <4>2
      <4>q. QED
        BY <4>2, <4>3, <4>4
    <3>8. WaitsOK'
      <4> SUFFICES ASSUME NEW x \in Proc
                   PROVE  (/\ pc[x] = "down" =>
                                /\ sem[x] \in Semaphore
                                /\ wakeup_flags[x] \in {"INTERRUPTED", WaitStateOf(sem[x])}
                           /\ pc[x] = "crit" => sem[x] \in KSem
                           /\ timer[x] + elapsed[x] = timeout[x]
                           /\ pc[x] # "down" \/ sem[x] \in KSem => timeout[x] = 0
                           /\ pc[x] = "down" /\ sem[x] \in KSem /\ wait_state[x] = "0"
                                => wakeup_flags[x] = "KSEM"
                           /\ pc[x] = "down" /\ sem[x] \in USem /\ wait_state[x] = "0"
                                /\ wakeup_flags[x] = "INTERRUPTED"
                                => exiting[x] \/ ~valid[sem[x]] \/ ipc_check_timeout(x))'
        BY DEF WaitsOK
      <4>1. CASE x = p
        BY <4>1 DEF Inv, WaitsOK
      <4>2. CASE x = w
        BY <2>1, <2>2, <3>3, <4>2 DEF Inv, WaitsOK, WaitStateOf
      <4>3. CASE x # p /\ x # w
        BY <3>3, <4>3 DEF Inv, WaitsOK, ipc_check_timeout
      <4>q. QED
        BY <4>1, <4>2, <4>3
    <3>9. TokensConserved'
      <4>1. \A u \in Semaphore : Cardinality(Handed(u)) \in Nat
        BY Count, SetsOfProcesses
      <4>2. Handed(s)' = Handed(s) \cup {w} /\ w \notin Handed(s)
        BY <1>p, <2>1, <2>2, <3>3 DEF Handed, WaitStateOf
      <4>3. \A u \in Semaphore : u # s => Handed(u)' = Handed(u)
        BY <1>p, <2>1, <2>2, <3>3 DEF Handed, WaitStateOf
      <4>4. Cardinality(Handed(s)') = Cardinality(Handed(s)) + 1
        BY <2>1, <4>2, Count, SetsOfProcesses
      <4>5. \A u \in Semaphore : value[u] + Cardinality(Handed(u)) = net[u]
        BY DEF Inv, TokensOK, TokensConserved
      <4>6. ASSUME NEW u \in Semaphore, u # s
            PROVE  value'[u] + Cardinality(Handed(u)') = net'[u]
        <5>1. value'[u] = value[u] /\ net'[u] = net[u] /\ Handed(u)' = Handed(u)
          BY <1>0, <3>1, <3>2, <4>3, <4>6
        <5>q. QED
          BY <4>5, <5>1
      <4>7. value'[s] + Cardinality(Handed(s)') = net'[s]
        <5>1. value'[s] = value[s] /\ net'[s] = net[s] + 1 /\ value[s] \in Nat /\ net[s] \in Int
          BY <1>0, <3>1, <3>2 DEF TypeOK
        <5>q. QED
          BY <4>1, <4>4, <4>5, <5>1
      <4>q. QED
        BY <4>6, <4>7 DEF TokensConserved
    <3>q. QED
      BY <3>2, <3>4, <3>6, <3>7, <3>8, <3>9
  <2>q. QED
    BY <2>4, <2>5
<1>q. QED
  BY <1>1, <1>2
-----------------------------------------------------------------------------
(* The operations                                                           *)

\* The rest of __down: the record leaves the queue, and the token that came
\* with the wakeup, if one did, is taken.
LEMMA DownReturnsOK ==
    ASSUME Inv, NEW p \in Proc, NEW s \in Semaphore, s = sem[p], DownReturns(p)
    PROVE  Inv'
<1> DEFINE got == wakeup_flags[p] = WaitStateOf(s)
           q == RemoveFirst(wait_queue[s], p)
<1>0. TypeOK /\ \A u \in Semaphore : ToSet(wait_queue[u]) \subseteq Proc
  BY QueueType DEF Inv, TypeOK
<1>1. /\ s \in Semaphore /\ pc[p] = "down" /\ wait_state[p] = "0" /\ panicked = "no"
      /\ wakeup_flags[p] \in {"INTERRUPTED", WaitStateOf(s)}
  BY DEF DownReturns, Sleeping, Inv, WaitsOK
<1>2. q \in Seq(Proc) /\ IsInjective(q) /\ ToSet(q) = ToSet(wait_queue[s]) \ {p}
  <2>1. wait_queue[s] \in Seq(Proc) /\ IsInjective(wait_queue[s])
    BY <1>0, <1>1 DEF Inv, TypeOK, QueuesOK
  <2>q. QED
    BY <2>1, QueueDel
<1>3. wait_queue' = [wait_queue EXCEPT ![s] = q]
  BY DEF DownReturns, wait_current_del
<1> HIDE DEF q
<1>4. /\ wait_queue' \in [Semaphore -> Seq(Proc)] /\ wait_queue'[s] = q
      /\ \A u \in Semaphore : u # s => wait_queue'[u] = wait_queue[u]
  BY <1>0, <1>1, <1>2, <1>3 DEF TypeOK
<1>5. \A u \in Semaphore : ToSet(wait_queue'[u]) = ToSet(wait_queue[u]) \ {p}
  <2> TAKE u \in Semaphore
  <2>1. CASE u = s
    BY <1>2, <1>4, <2>1
  <2>2. CASE u # s
    <3>1. p \notin ToSet(wait_queue[u])
      BY <2>2 DEF Inv, QueuesOK
    <3>q. QED
      BY <1>4, <2>2, <3>1
  <2>q. QED
    BY <2>1, <2>2
<1>6. /\ timer' = [timer EXCEPT ![p] = 0] /\ timeout' = [timeout EXCEPT ![p] = 0]
      /\ elapsed' = [elapsed EXCEPT ![p] = 0]
      /\ wakeup_flags' = [wakeup_flags EXCEPT ![p] = "INTERRUPTED"]
      /\ net' = IF got THEN [net EXCEPT ![s] = @ - 1] ELSE net
      /\ UNCHANGED <<value, valid, wait_state, exiting>>
  BY DEF DownReturns
<1>7. /\ timer' \in [Proc -> Nat] /\ timeout' \in [Proc -> Nat] /\ elapsed' \in [Proc -> Nat]
      /\ timer'[p] = 0 /\ timeout'[p] = 0 /\ elapsed'[p] = 0
      /\ wakeup_flags' \in [Proc -> {"INTERRUPTED", "KSEM", "USEM"}]
      /\ net' \in [Semaphore -> Int]
      /\ net'[s] = IF got THEN net[s] - 1 ELSE net[s]
      /\ \A u \in Semaphore : u # s => net'[u] = net[u]
      /\ \A x \in Proc : x # p =>
           /\ timer'[x] = timer[x] /\ timeout'[x] = timeout[x] /\ elapsed'[x] = elapsed[x]
           /\ wakeup_flags'[x] = wakeup_flags[x]
  BY <1>0, <1>1, <1>6 DEF TypeOK
<1>8. s \in KSem => got
  BY <1>1 DEF Inv, WaitsOK, WaitStateOf
\* what the two kinds of semaphore have in common
<1>9. /\ pc' \in [Proc -> {"user", "down", "crit", "dead"}]
      /\ pc'[p] = "crit" \/ (pc'[p] \in {"user", "dead"} /\ s \in USem)
      /\ sem' \in [Proc -> Semaphore \cup {NoSem}]
      /\ pc'[p] = "crit" => s \in KSem /\ sem'[p] = s
      /\ refs' \in [USem -> SUBSET Proc] /\ panicked' = "no"
      /\ \A x \in Proc : x # p =>
           /\ pc'[x] = pc[x] /\ sem'[x] = sem[x]
           /\ \A u \in USem : x \in refs[u] => x \in refs'[u]
      /\ ret' \in [Proc -> {"none", "ok", "E_INVAL", "E_TIMEOUT", "error"}]
      /\ \A x \in Proc : ret'[x] = "error" =>
           ret[x] = "error" \/ (x = p /\ s \in USem /\ ~got /\ ~ipc_check_timeout(p))
  <2>1. CASE s \in KSem
    <3>1. /\ pc' = [pc EXCEPT ![p] = "crit"] /\ panicked' = "no"
          /\ UNCHANGED <<refs, ret, sem>>
      BY <1>8, <2>1 DEF DownReturns
    <3>2. /\ pc' \in [Proc -> {"user", "down", "crit", "dead"}] /\ pc'[p] = "crit"
          /\ \A x \in Proc : x # p => pc'[x] = pc[x]
      BY <1>0, <3>1 DEF TypeOK
    <3>q. QED
      BY <1>0, <2>1, <3>1, <3>2 DEF TypeOK
  <2>2. CASE s \notin KSem
    <3>1. /\ BackToUser(p, refs) /\ sem' = [sem EXCEPT ![p] = NoSem] /\ panicked' = panicked
          /\ ret' = [ret EXCEPT ![p] = IF got THEN "ok"
                        ELSE IF ipc_check_timeout(p) THEN "E_TIMEOUT" ELSE "error"]
      BY <2>2 DEF DownReturns
    <3>2. s \in USem /\ refs \in [USem -> SUBSET Proc]
      BY <1>0, <1>1, <2>2 DEF TypeOK
    <3>3. /\ pc' \in [Proc -> {"user", "down", "crit", "dead"}] /\ pc'[p] \in {"user", "dead"}
          /\ refs' \in [USem -> SUBSET Proc]
          /\ \A x \in Proc : x # p => pc'[x] = pc[x]
          /\ \A u \in USem : \A x \in Proc : x # p /\ x \in refs[u] => x \in refs'[u]
      BY <1>0, <3>1, <3>2, Leaves
    <3>4. /\ sem' \in [Proc -> Semaphore \cup {NoSem}]
          /\ \A x \in Proc : x # p => sem'[x] = sem[x]
      BY <1>0, <3>1 DEF TypeOK
    <3>5. /\ ret' \in [Proc -> {"none", "ok", "E_INVAL", "E_TIMEOUT", "error"}]
          /\ \A x \in Proc : ret'[x] = "error" =>
               ret[x] = "error" \/ (x = p /\ ~got /\ ~ipc_check_timeout(p))
      <4> DEFINE r == IF got THEN "ok" ELSE IF ipc_check_timeout(p) THEN "E_TIMEOUT" ELSE "error"
      <4>1. r \in {"ok", "E_TIMEOUT", "error"} /\ (r = "error" => ~got /\ ~ipc_check_timeout(p))
        OBVIOUS
      <4>2. ret' = [ret EXCEPT ![p] = r]
        BY <3>1
      <4> HIDE DEF r
      <4>3. /\ ret' \in [Proc -> {"none", "ok", "E_INVAL", "E_TIMEOUT", "error"}]
            /\ ret'[p] = r /\ \A x \in Proc : x # p => ret'[x] = ret[x]
        BY <1>0, <4>1, <4>2 DEF TypeOK
      <4>q. QED
        BY <4>1, <4>3
    <3>q. QED
      BY <1>1, <3>1, <3>2, <3>3, <3>4, <3>5
  <2>q. QED
    BY <2>1, <2>2
<1> HIDE DEF got
<1>10. TypeOK'
  BY <1>0, <1>4, <1>6, <1>7, <1>9 DEF TypeOK
<1>11. QueuesOK'
  <2> SUFFICES ASSUME NEW u \in Semaphore
               PROVE  (/\ IsInjective(wait_queue[u])
                       /\ value[u] > 0 => wait_queue[u] = <<>>
                       /\ \A x \in ToSet(wait_queue[u]) :
                            /\ pc[x] = "down" /\ sem[x] = u
                            /\ wakeup_flags[x] = "INTERRUPTED"
                            /\ u \in USem => x \in refs[u] /\ valid[u])'
    BY DEF QueuesOK
  <2>1. /\ IsInjective(wait_queue[u])
        /\ value[u] > 0 => wait_queue[u] = <<>>
        /\ \A x \in ToSet(wait_queue[u]) :
             /\ x \in Proc
             /\ pc[x] = "down" /\ sem[x] = u /\ wakeup_flags[x] = "INTERRUPTED"
             /\ u \in USem => x \in refs[u] /\ valid[u]
    BY <1>0 DEF Inv, QueuesOK
  <2>2. IsInjective(wait_queue'[u])
    BY <1>2, <1>4, <2>1
  <2>3. value'[u] > 0 => wait_queue'[u] = <<>>
    <3>1. wait_queue[u] = <<>> => ToSet(wait_queue'[u]) = {}
      BY <1>5, QueueEmpty
    <3>q. QED
      BY <1>4, <1>6, <2>1, <3>1, QueueEmpty
  <2>4. ASSUME NEW x \in ToSet(wait_queue'[u])
        PROVE  /\ pc'[x] = "down" /\ sem'[x] = u /\ wakeup_flags'[x] = "INTERRUPTED"
               /\ u \in USem => x \in refs'[u] /\ valid'[u]
    <3>1. x \in ToSet(wait_queue[u]) /\ x # p
      BY <1>5
    <3>q. QED
      BY <1>6, <1>7, <1>9, <2>1, <3>1
  <2>q. QED
    BY <2>2, <2>3, <2>4
<1>12. SleepersOK'
  <2> SUFFICES ASSUME NEW x \in Proc, wait_state'[x] # "0"
               PROVE  /\ pc'[x] = "down" /\ sem'[x] \in Semaphore
                      /\ wait_state'[x] = WaitStateOf(sem'[x])
                      /\ x \in ToSet(wait_queue'[sem'[x]])
    BY DEF SleepersOK, WaitStateOf
  <2>1. x # p /\ wait_state'[x] = wait_state[x]
    BY <1>1, <1>6
  <2>2. /\ pc[x] = "down" /\ sem[x] \in Semaphore
        /\ wait_state[x] = WaitStateOf(sem[x])
        /\ x \in ToSet(wait_queue[sem[x]])
    BY <2>1 DEF Inv, SleepersOK
  <2>3. sem'[x] = sem[x] /\ pc'[x] = pc[x] /\ x \in ToSet(wait_queue'[sem[x]])
    BY <1>5, <1>9, <2>1, <2>2
  <2>q. QED
    BY <2>1, <2>2, <2>3
<1>13. WaitsOK'
  <2> SUFFICES ASSUME NEW x \in Proc
               PROVE  (/\ pc[x] = "down" =>
                            /\ sem[x] \in Semaphore
                            /\ wakeup_flags[x] \in {"INTERRUPTED", WaitStateOf(sem[x])}
                       /\ pc[x] = "crit" => sem[x] \in KSem
                       /\ timer[x] + elapsed[x] = timeout[x]
                       /\ pc[x] # "down" \/ sem[x] \in KSem => timeout[x] = 0
                       /\ pc[x] = "down" /\ sem[x] \in KSem /\ wait_state[x] = "0"
                            => wakeup_flags[x] = "KSEM"
                       /\ pc[x] = "down" /\ sem[x] \in USem /\ wait_state[x] = "0"
                            /\ wakeup_flags[x] = "INTERRUPTED"
                            => exiting[x] \/ ~valid[sem[x]] \/ ipc_check_timeout(x))'
    BY DEF WaitsOK
  <2>1. CASE x = p
    BY <1>7, <1>9, <2>1
  <2>2. CASE x # p
    BY <1>6, <1>7, <1>9, <2>2 DEF Inv, WaitsOK, ipc_check_timeout
  <2>q. QED
    BY <2>1, <2>2
<1>14. TokensOK'
  <2>1. \A u \in Semaphore : Cardinality(Handed(u)) \in Nat
    BY Count, SetsOfProcesses
  <2>2. \A u \in Semaphore : /\ value[u] + Cardinality(Handed(u)) = net[u]
                             /\ value[u] \in Nat /\ net[u] \in Int
    BY <1>0 DEF Inv, TokensOK, TokensConserved, TypeOK
  <2>3. Handed(s)' = Handed(s) \ {p} /\ (p \in Handed(s) <=> got)
    <3>1. p \in Handed(s) <=> got
      BY <1>1 DEF Handed, got
    <3>2. p \notin Handed(s)'
      BY <1>1, <1>9 DEF Handed
    <3>3. \A x \in Proc : x # p => (x \in Handed(s)' <=> x \in Handed(s))
      BY <1>7, <1>9 DEF Handed, WaitStateOf
    <3>4. Handed(s)' \subseteq Proc /\ Handed(s) \subseteq Proc
      BY DEF Handed
    <3>q. QED
      BY <3>1, <3>2, <3>3, <3>4
  <2>4. \A u \in Semaphore : u # s => Handed(u)' = Handed(u)
    BY <1>1, <1>7, <1>9 DEF Handed, WaitStateOf
  <2>5. Cardinality(Handed(s)') = IF got THEN Cardinality(Handed(s)) - 1
                                  ELSE Cardinality(Handed(s))
    <3>1. CASE got
      BY <2>3, <3>1, Count, SetsOfProcesses
    <3>2. CASE ~got
      <4>1. Handed(s)' = Handed(s)
        BY <2>3, <3>2
      <4>q. QED
        BY <3>2, <4>1
    <3>q. QED
      BY <3>1, <3>2
  <2>6. ASSUME NEW u \in Semaphore
        PROVE  value'[u] + Cardinality(Handed(u)') = net'[u]
    <3>1. CASE u = s
      <4>0. s \in Semaphore /\ value'[s] = value[s]
        BY <1>1, <1>6
      <4>1. CASE got
        BY <1>7, <2>1, <2>2, <2>5, <3>1, <4>0, <4>1
      <4>2. CASE ~got
        BY <1>7, <2>1, <2>2, <2>5, <3>1, <4>0, <4>2
      <4>q. QED
        BY <4>1, <4>2
    <3>2. CASE u # s
      <4>1. Handed(u)' = Handed(u)
        BY <2>4, <3>2
      <4>q. QED
        BY <1>6, <1>7, <2>2, <3>2, <4>1
    <3>q. QED
      BY <3>1, <3>2
  <2>7. ASSUME NEW u \in KSem
        PROVE  Cardinality(Holders(u)') + net'[u] = 1
    <3>0. /\ Cardinality(Holders(u)) + net[u] = 1 /\ net[u] \in Int
          /\ Cardinality(Holders(u)) \in Nat
      BY <1>0, Count, SetsOfProcesses DEF Inv, TokensOK, TypeOK
    <3>1. CASE u = s
      <4>1. Holders(u)' = Holders(u) \cup {p} /\ p \notin Holders(u)
        BY <1>1, <1>9, <3>1 DEF Holders
      <4>2. Cardinality(Holders(u)') = Cardinality(Holders(u)) + 1
        BY <4>1, Count, SetsOfProcesses
      <4>q. QED
        BY <1>7, <1>8, <3>0, <3>1, <4>2
    <3>2. CASE u # s
      <4>1. Holders(u)' = Holders(u)
        BY <1>1, <1>9, <3>2 DEF Holders
      <4>q. QED
        BY <1>7, <3>0, <3>2, <4>1
    <3>q. QED
      BY <3>1, <3>2
  <2>q. QED
    BY <2>6, <2>7 DEF TokensOK, TokensConserved
<1>15. ErrorMeansKilledOrFreed'
  <2> SUFFICES ASSUME NEW x \in Proc, ret'[x] = "error"
               PROVE  exiting'[x] \/ \E u \in USem : ~valid'[u]
    BY DEF ErrorMeansKilledOrFreed
  <2>1. CASE ret[x] = "error"
    BY <1>6, <2>1 DEF Inv, ErrorMeansKilledOrFreed
  <2>2. CASE x = p /\ s \in USem /\ ~got /\ ~ipc_check_timeout(p)
    <3>1. exiting[p] \/ ~valid[s]
      BY <1>1, <2>2 DEF Inv, WaitsOK, got
    <3>q. QED
      BY <1>6, <2>2, <3>1
  <2>q. QED
    BY <1>9, <2>1, <2>2
<1>q. QED
  BY <1>10, <1>11, <1>12, <1>13, <1>14, <1>15 DEF Inv
\* down takes the token of a mutex that has one.
LEMMA TakeMutexOK ==
    ASSUME Inv, NEW p \in Proc, NEW s \in KSem, pc[p] = "user", Take(p, s),
           pc' = [pc EXCEPT ![p] = "crit"], sem' = [sem EXCEPT ![p] = s],
           UNCHANGED <<wait_queue, wait_state, wakeup_flags, timer, timeout, elapsed,
                       valid, refs, exiting, ret, panicked>>
    PROVE  Inv'
<1>0. TypeOK /\ \A u \in Semaphore : ToSet(wait_queue[u]) \subseteq Proc
  BY QueueType DEF Inv, TypeOK
<1>p. wait_state[p] = "0" /\ \A u \in Semaphore : p \notin ToSet(wait_queue[u])
  BY DEF Inv, QueuesOK, SleepersOK
<1>1. /\ value[s] > 0 /\ value' \in [Semaphore -> Nat] /\ net' \in [Semaphore -> Int]
      /\ value'[s] = value[s] - 1 /\ net'[s] = net[s] - 1
      /\ \A u \in Semaphore : u # s => value'[u] = value[u] /\ net'[u] = net[u]
  BY <1>0 DEF Take, TypeOK
<1>2. /\ pc' \in [Proc -> {"user", "down", "crit", "dead"}] /\ pc'[p] = "crit"
      /\ sem' \in [Proc -> Semaphore \cup {NoSem}] /\ sem'[p] = s
      /\ \A x \in Proc : x # p => pc'[x] = pc[x] /\ sem'[x] = sem[x]
  BY <1>0 DEF TypeOK
<1>3. TypeOK'
  BY <1>0, <1>1, <1>2 DEF TypeOK
<1>4. QueuesOK'
  <2> SUFFICES ASSUME NEW u \in Semaphore
               PROVE  (/\ IsInjective(wait_queue[u])
                       /\ value[u] > 0 => wait_queue[u] = <<>>
                       /\ \A x \in ToSet(wait_queue[u]) :
                            /\ pc[x] = "down" /\ sem[x] = u
                            /\ wakeup_flags[x] = "INTERRUPTED"
                            /\ u \in USem => x \in refs[u] /\ valid[u])'
    BY DEF QueuesOK
  <2>1. value'[u] > 0 => value[u] > 0
    BY <1>0, <1>1 DEF TypeOK
  <2>2. \A x \in ToSet(wait_queue[u]) : x \in Proc /\ x # p
    BY <1>0, <1>p
  <2>q. QED
    BY <1>2, <2>1, <2>2 DEF Inv, QueuesOK
<1>5. SleepersOK'
  <2> SUFFICES ASSUME NEW x \in Proc, wait_state[x] # "0"
               PROVE  /\ pc'[x] = "down" /\ sem'[x] \in Semaphore
                      /\ wait_state[x] = WaitStateOf(sem'[x])
                      /\ x \in ToSet(wait_queue[sem'[x]])
    BY DEF SleepersOK, WaitStateOf
  <2>q. QED
    BY <1>2, <1>p DEF Inv, SleepersOK
<1>6. WaitsOK'
  BY <1>2 DEF Inv, WaitsOK, ipc_check_timeout
<1>7. TokensOK'
  <2>1. \A u \in Semaphore : Cardinality(Handed(u)) \in Nat
    BY Count, SetsOfProcesses
  <2>2. \A u \in Semaphore : /\ value[u] + Cardinality(Handed(u)) = net[u]
                             /\ value[u] \in Nat /\ net[u] \in Int
    BY <1>0 DEF Inv, TokensOK, TokensConserved, TypeOK
  <2>3. ASSUME NEW u \in Semaphore
        PROVE  value'[u] + Cardinality(Handed(u)') = net'[u]
    <3>1. Handed(u)' = Handed(u)
      BY <1>2 DEF Handed, WaitStateOf
    <3>2. value'[u] + Cardinality(Handed(u)) = net'[u]
      BY <1>1, <2>1, <2>2
    <3>q. QED
      BY <3>1, <3>2
  <2>4. ASSUME NEW u \in KSem
        PROVE  Cardinality(Holders(u)') + net'[u] = 1
    <3>0. /\ Cardinality(Holders(u)) + net[u] = 1 /\ net[u] \in Int
          /\ Cardinality(Holders(u)) \in Nat
      BY <1>0, Count, SetsOfProcesses DEF Inv, TokensOK, TypeOK
    <3>1. CASE u = s
      <4>1. Holders(u)' = Holders(u) \cup {p} /\ p \notin Holders(u)
        BY <1>2, <3>1 DEF Holders
      <4>2. Cardinality(Holders(u)') = Cardinality(Holders(u)) + 1
        BY <4>1, Count, SetsOfProcesses
      <4>q. QED
        BY <1>1, <3>0, <3>1, <4>2
    <3>2. CASE u # s
      <4>1. Holders(u)' = Holders(u)
        BY <1>2, <3>2 DEF Holders
      <4>q. QED
        BY <1>1, <3>0, <3>2, <4>1
    <3>q. QED
      BY <3>1, <3>2
  <2>q. QED
    BY <2>3, <2>4 DEF TokensOK, TokensConserved
<1>8. ErrorMeansKilledOrFreed'
  BY DEF Inv, ErrorMeansKilledOrFreed
<1>q. QED
  BY <1>3, <1>4, <1>5, <1>6, <1>7, <1>8 DEF Inv

\* up, by the holder of a mutex
LEMMA UpMutexOK ==
    ASSUME Inv, NEW p \in Proc, NEW s \in Semaphore, s = sem[p], up(p)
    PROVE  Inv'
<1>0. TypeOK /\ pc[p] = "crit" /\ s \in KSem /\ panicked = "no"
  BY DEF Inv, WaitsOK, up
<1>1. /\ pc' \in [Proc -> {"user", "down", "crit", "dead"}] /\ pc'[p] \in {"user", "dead"}
      /\ refs' \in [USem -> SUBSET Proc]
      /\ \A x \in Proc : x # p => pc'[x] = pc[x]
      /\ \A u \in USem : \A x \in Proc : x # p /\ x \in refs[u] => x \in refs'[u]
  <2>1. BackToUser(p, refs) /\ refs \in [USem -> SUBSET Proc]
    BY <1>0 DEF up, TypeOK
  <2>q. QED
    BY <1>0, <2>1, Leaves
<1>2. /\ sem' \in [Proc -> Semaphore \cup {NoSem}] /\ sem'[p] = NoSem
      /\ \A x \in Proc : x # p => sem'[x] = sem[x]
  BY <1>0 DEF up, TypeOK
<1>3. Up(s) /\ UNCHANGED <<valid, timer, timeout, elapsed, exiting, ret>>
  BY DEF up
<1>4. /\ TypeOK' /\ QueuesOK' /\ SleepersOK' /\ WaitsOK' /\ TokensConserved'
      /\ \A u \in Semaphore : u # s => net'[u] = net[u]
      /\ net'[s] = net[s] + 1
  BY <1>0, <1>1, <1>2, <1>3, UpOK
<1>5. ASSUME NEW u \in KSem
      PROVE  Cardinality(Holders(u)') + net'[u] = 1
  <2>0. /\ Cardinality(Holders(u)) + net[u] = 1 /\ net[u] \in Int
        /\ Cardinality(Holders(u)) \in Nat
    BY <1>0, Count, SetsOfProcesses DEF Inv, TokensOK, TypeOK
  <2>1. CASE u = s
    <3>1. Holders(u)' = Holders(u) \ {p} /\ p \in Holders(u)
      BY <1>0, <1>1, <1>2, <2>1 DEF Holders
    <3>2. Cardinality(Holders(u)') = Cardinality(Holders(u)) - 1
      BY <3>1, Count, SetsOfProcesses
    <3>q. QED
      BY <1>4, <2>0, <2>1, <3>2
  <2>2. CASE u # s
    <3>1. Holders(u)' = Holders(u)
      BY <1>0, <1>1, <1>2, <2>2 DEF Holders
    <3>q. QED
      BY <1>4, <2>0, <2>2, <3>1
  <2>q. QED
    BY <2>1, <2>2
<1>6. ErrorMeansKilledOrFreed'
  BY <1>3 DEF Inv, ErrorMeansKilledOrFreed
<1>q. QED
  BY <1>4, <1>5, <1>6 DEF Inv, TokensOK

\* ipc_sem_post
LEMMA PostOK ==
    ASSUME Inv, NEW p \in Proc, NEW s \in USem, ipc_sem_post(p, s)
    PROVE  Inv'
<1>0. TypeOK /\ pc[p] = "user" /\ panicked = "no"
  BY DEF Inv, ipc_sem_post
<1>1. /\ pc' \in [Proc -> {"user", "down", "crit", "dead"}] /\ pc'[p] \in {"user", "dead"}
      /\ refs' \in [USem -> SUBSET Proc]
      /\ \A x \in Proc : x # p => pc'[x] = pc[x]
      /\ \A u \in USem : \A x \in Proc : x # p /\ x \in refs[u] => x \in refs'[u]
  <2>1. BackToUser(p, Searched(p, s))
    BY DEF ipc_sem_post
  <2>q. QED
    BY <1>0, <2>1, Leaves, SearchedRefs
<1>2. UNCHANGED <<valid, sem, timer, timeout, elapsed, exiting, ret>>
  BY DEF ipc_sem_post
<1>3. ErrorMeansKilledOrFreed'
  BY <1>2 DEF Inv, ErrorMeansKilledOrFreed
<1>4. \A u \in KSem : Holders(u)' = Holders(u)
  BY <1>0, <1>1, <1>2 DEF Holders
<1>5. CASE Found(p, s)
  <2>1. Up(s)
    BY <1>5 DEF ipc_sem_post
  <2>2. sem' \in [Proc -> Semaphore \cup {NoSem}] /\ \A x \in Proc : sem'[x] = sem[x]
    BY <1>0, <1>2 DEF TypeOK
  <2>3. /\ TypeOK' /\ QueuesOK' /\ SleepersOK' /\ WaitsOK' /\ TokensConserved'
        /\ \A u \in Semaphore : u # s => net'[u] = net[u]
    BY <1>0, <1>1, <1>2, <2>1, <2>2, UpOK
  <2>4. \A u \in KSem : Cardinality(Holders(u)') + net'[u] = 1
    BY <1>4, <2>3 DEF Inv, TokensOK
  <2>q. QED
    BY <1>3, <2>3, <2>4 DEF Inv, TokensOK
<1>6. CASE ~Found(p, s)
  <2>1. UNCHANGED <<value, net, wait_queue, wait_state, wakeup_flags, panicked>>
    BY <1>6 DEF ipc_sem_post
  <2>2. TypeOK'
    BY <1>0, <1>1, <1>2, <2>1 DEF TypeOK
  <2>3. /\ QueuesOK' /\ SleepersOK' /\ WaitsOK'
        /\ \A u \in Semaphore : Handed(u)' = Handed(u)
    BY <1>0, <1>1, <1>2, <2>1, <2>2, Quiet
  <2>4. /\ \A u \in Semaphore : value'[u] - value[u] = net'[u] - net[u]
        /\ \A u \in KSem : net'[u] = net[u]
    BY <1>0, <2>1 DEF TypeOK
  <2>5. TokensOK'
    BY <1>4, <2>2, <2>3, <2>4, SameTokens, Zenon
  <2>q. QED
    BY <1>3, <2>2, <2>3, <2>5 DEF Inv
<1>q. QED
  BY <1>5, <1>6

\* ipc_sem_wait: a semaphore that is gone, one with a token, and the sleep
LEMMA WaitOK ==
    ASSUME Inv, NEW p \in Proc, NEW s \in USem, NEW t \in Timeout, ipc_sem_wait(p, s, t)
    PROVE  Inv'
<1>0. /\ TypeOK /\ pc[p] = "user" /\ panicked = "no" /\ t \in Nat
      /\ UNCHANGED <<valid, exiting, panicked>>
  BY DEF Inv, ipc_sem_wait
<1>1. CASE Found(p, s) /\ SleepOn(p, s, t) /\ ret' = [ret EXCEPT ![p] = "none"]
           /\ UNCHANGED <<value, net, refs>>
  <2>1. s \notin KSem /\ p \in refs[s] /\ valid[s]
    BY <1>1 DEF Found
  <2>2. /\ ret' \in [Proc -> {"none", "ok", "E_INVAL", "E_TIMEOUT", "error"}]
        /\ \A x \in Proc : ret'[x] = "error" => ret[x] = "error"
    BY <1>0, <1>1 DEF TypeOK
  <2>q. QED
    BY <1>0, <1>1, <2>1, <2>2, SleepOnOK
<1>2. ASSUME NEW r \in [USem -> SUBSET Proc],
             \A u \in USem : \A x \in Proc : x # p /\ x \in refs[u] => x \in r[u],
             BackToUser(p, r), UNCHANGED <<wait_queue, waitVars>>,
             Take(p, s) \/ UNCHANGED <<value, net>>,
             NEW v \in {"ok", "E_INVAL"}, ret' = [ret EXCEPT ![p] = v]
      PROVE  Inv'
  <2>1. /\ pc' \in [Proc -> {"user", "down", "crit", "dead"}] /\ pc'[p] \in {"user", "dead"}
        /\ refs' \in [USem -> SUBSET Proc]
        /\ \A x \in Proc : x # p => pc'[x] = pc[x]
        /\ \A u \in USem : \A x \in Proc : x # p /\ x \in refs[u] => x \in refs'[u]
    BY <1>0, <1>2, Leaves
  <2>2. /\ value' \in [Semaphore -> Nat] /\ net' \in [Semaphore -> Int]
        /\ \A u \in Semaphore : /\ value'[u] > 0 => value[u] > 0
                                /\ value'[u] - value[u] = net'[u] - net[u]
                                /\ u \in KSem => net'[u] = net[u]
    <3>1. CASE Take(p, s)
      <4>1. /\ value[s] \in Nat /\ value[s] > 0 /\ net[s] \in Int
            /\ value' = [value EXCEPT ![s] = @ - 1] /\ net' = [net EXCEPT ![s] = @ - 1]
        BY <1>0, <3>1 DEF Take, TypeOK
      <4>q. QED
        BY <1>0, <4>1 DEF TypeOK
    <3>2. CASE UNCHANGED <<value, net>>
      BY <1>0, <3>2 DEF TypeOK
    <3>q. QED
      BY <1>2, <3>1, <3>2
  <2>3. /\ ret' \in [Proc -> {"none", "ok", "E_INVAL", "E_TIMEOUT", "error"}]
        /\ \A x \in Proc : ret'[x] = "error" => ret[x] = "error"
    BY <1>0, <1>2 DEF TypeOK
  <2>4. UNCHANGED <<sem, wait_state, wakeup_flags, timer, timeout, elapsed, wait_queue>>
    BY <1>2 DEF waitVars
  <2>5. TypeOK'
    BY <1>0, <2>1, <2>2, <2>3, <2>4 DEF TypeOK
  <2>6. /\ QueuesOK' /\ SleepersOK' /\ WaitsOK'
        /\ \A u \in Semaphore : Handed(u)' = Handed(u)
        /\ \A u \in KSem : Holders(u)' = Holders(u)
    BY <1>0, <2>1, <2>2, <2>4, <2>5, Quiet
  <2>7. TokensOK'
    BY <2>2, <2>5, <2>6, SameTokens
  <2>8. ErrorMeansKilledOrFreed'
    BY <1>0, <2>3 DEF Inv, ErrorMeansKilledOrFreed
  <2>q. QED
    BY <2>5, <2>6, <2>7, <2>8 DEF Inv
<1>3. CASE ~Found(p, s) /\ BackToUser(p, Searched(p, s)) /\ ret' = [ret EXCEPT ![p] = "E_INVAL"]
           /\ UNCHANGED <<value, net, wait_queue, waitVars>>
  BY <1>0, <1>2, <1>3, SearchedRefs
<1>4. CASE Found(p, s) /\ Take(p, s) /\ BackToUser(p, refs) /\ ret' = [ret EXCEPT ![p] = "ok"]
           /\ UNCHANGED <<wait_queue, waitVars>>
  BY <1>0, <1>2, <1>4 DEF TypeOK
<1>q. QED
  BY <1>1, <1>3, <1>4 DEF ipc_sem_wait
\* ipc_sem_free wakes everybody in the queue and empties it.
LEMMA FreeOK ==
    ASSUME Inv, NEW p \in Proc, NEW s \in USem, ipc_sem_free(p, s)
    PROVE  Inv'
<1> DEFINE woken == ToSet(wait_queue[s])
<1>0. /\ TypeOK /\ pc[p] = "user" /\ panicked = "no"
      /\ \A u \in Semaphore : ToSet(wait_queue[u]) \subseteq Proc
  BY QueueType DEF Inv, ipc_sem_free, TypeOK
<1>1. /\ pc' \in [Proc -> {"user", "down", "crit", "dead"}] /\ pc'[p] \in {"user", "dead"}
      /\ refs' \in [USem -> SUBSET Proc]
      /\ \A x \in Proc : x # p => pc'[x] = pc[x]
      /\ \A u \in USem : \A x \in Proc : x # p /\ x \in refs[u] => x \in refs'[u]
  <2>1. BackToUser(p, refs) /\ refs \in [USem -> SUBSET Proc]
    BY <1>0 DEF ipc_sem_free, TypeOK
  <2>q. QED
    BY <1>0, <2>1, Leaves
<1>p. wait_state[p] = "0" /\ \A u \in Semaphore : p \notin ToSet(wait_queue[u])
  BY <1>0 DEF Inv, QueuesOK, SleepersOK
<1>w. \A x \in woken : /\ x \in Proc /\ pc[x] = "down" /\ sem[x] = s
                       /\ wakeup_flags[x] = "INTERRUPTED"
  BY <1>0 DEF Inv, QueuesOK
<1>2. UNCHANGED <<value, net, sem, timer, timeout, elapsed, exiting, ret, panicked>>
  BY DEF ipc_sem_free
<1>3. /\ valid' \in [Semaphore -> BOOLEAN] /\ valid'[s] = FALSE
      /\ \A u \in Semaphore : u # s => valid'[u] = valid[u]
  BY <1>0 DEF ipc_sem_free, TypeOK
<1>4. /\ wait_queue' \in [Semaphore -> Seq(Proc)] /\ wait_queue'[s] = <<>>
      /\ \A u \in Semaphore : u # s => wait_queue'[u] = wait_queue[u]
  BY <1>0, QueueEmpty DEF ipc_sem_free, TypeOK
<1>5. /\ wait_state' = [x \in Proc |-> IF x \in woken THEN "0" ELSE wait_state[x]]
      /\ wakeup_flags' = [x \in Proc |-> IF x \in woken THEN "INTERRUPTED" ELSE wakeup_flags[x]]
  BY DEF ipc_sem_free
<1> HIDE DEF woken
<1>6. /\ wait_state' \in [Proc -> {"0", "KSEM", "USEM"}]
      /\ wakeup_flags' \in [Proc -> {"INTERRUPTED", "KSEM", "USEM"}]
      /\ \A x \in Proc : wait_state'[x] = IF x \in woken THEN "0" ELSE wait_state[x]
      /\ \A x \in Proc : wakeup_flags'[x] = wakeup_flags[x]
  BY <1>0, <1>5, <1>w DEF TypeOK
<1>7. TypeOK'
  BY <1>0, <1>1, <1>2, <1>3, <1>4, <1>6 DEF TypeOK
<1>8. QueuesOK'
  <2> SUFFICES ASSUME NEW u \in Semaphore
               PROVE  (/\ IsInjective(wait_queue[u])
                       /\ value[u] > 0 => wait_queue[u] = <<>>
                       /\ \A x \in ToSet(wait_queue[u]) :
                            /\ pc[x] = "down" /\ sem[x] = u
                            /\ wakeup_flags[x] = "INTERRUPTED"
                            /\ u \in USem => x \in refs[u] /\ valid[u])'
    BY DEF QueuesOK
  <2>1. CASE u = s
    BY <1>4, <2>1, QueueEmpty
  <2>2. CASE u # s
    <3>0. wait_queue'[u] = wait_queue[u] /\ valid'[u] = valid[u]
      BY <1>3, <1>4, <2>2
    <3>1. /\ IsInjective(wait_queue[u])
          /\ value[u] > 0 => wait_queue[u] = <<>>
          /\ \A x \in ToSet(wait_queue[u]) :
               /\ x \in Proc /\ x # p
               /\ pc[x] = "down" /\ sem[x] = u /\ wakeup_flags[x] = "INTERRUPTED"
               /\ u \in USem => x \in refs[u] /\ valid[u]
      BY <1>0, <1>p DEF Inv, QueuesOK
    <3>2. ASSUME NEW x \in ToSet(wait_queue[u])
          PROVE  /\ pc'[x] = "down" /\ sem'[x] = u
                 /\ wakeup_flags'[x] = "INTERRUPTED"
                 /\ u \in USem => x \in refs'[u] /\ valid'[u]
      BY <1>1, <1>2, <1>6, <3>0, <3>1
    <3>q. QED
      BY <1>2, <3>0, <3>1, <3>2
  <2>q. QED
    BY <2>1, <2>2
<1>9. SleepersOK'
  <2> SUFFICES ASSUME NEW x \in Proc, wait_state'[x] # "0"
               PROVE  /\ pc'[x] = "down" /\ sem[x] \in Semaphore
                      /\ wait_state'[x] = WaitStateOf(sem[x])
                      /\ x \in ToSet(wait_queue'[sem[x]])
    BY <1>2 DEF SleepersOK, WaitStateOf
  <2>1. x \notin woken /\ wait_state[x] # "0" /\ x # p /\ wait_state'[x] = wait_state[x]
    BY <1>6, <1>p
  <2>2. /\ pc[x] = "down" /\ sem[x] \in Semaphore
        /\ wait_state[x] = WaitStateOf(sem[x])
        /\ x \in ToSet(wait_queue[sem[x]])
    BY <2>1 DEF Inv, SleepersOK
  <2>3. sem[x] # s
    BY <2>1, <2>2 DEF woken
  <2>q. QED
    BY <1>1, <1>4, <2>1, <2>2, <2>3
<1>10. WaitsOK'
  <2> SUFFICES ASSUME NEW x \in Proc
               PROVE  (/\ pc[x] = "down" =>
                            /\ sem[x] \in Semaphore
                            /\ wakeup_flags[x] \in {"INTERRUPTED", WaitStateOf(sem[x])}
                       /\ pc[x] = "crit" => sem[x] \in KSem
                       /\ timer[x] + elapsed[x] = timeout[x]
                       /\ pc[x] # "down" \/ sem[x] \in KSem => timeout[x] = 0
                       /\ pc[x] = "down" /\ sem[x] \in KSem /\ wait_state[x] = "0"
                            => wakeup_flags[x] = "KSEM"
                       /\ pc[x] = "down" /\ sem[x] \in USem /\ wait_state[x] = "0"
                            /\ wakeup_flags[x] = "INTERRUPTED"
                            => exiting[x] \/ ~valid[sem[x]] \/ ipc_check_timeout(x))'
    BY DEF WaitsOK
  <2>1. CASE x = p
    BY <1>0, <1>1, <1>2, <2>1 DEF Inv, WaitsOK
  <2>2. CASE x \in woken
    <3>1. /\ sem'[x] = s /\ s \notin KSem /\ pc[x] = "down"
          /\ wakeup_flags'[x] = "INTERRUPTED" /\ valid'[sem'[x]] = FALSE
      BY <1>2, <1>3, <1>6, <1>w, <2>2
    <3>2. timer[x] + elapsed[x] = timeout[x]
      BY DEF Inv, WaitsOK
    <3>3. pc'[x] = "down"
      BY <1>0, <1>1, <3>1
    <3>q. QED
      BY <1>2, <3>1, <3>2, <3>3
  <2>3. CASE x # p /\ x \notin woken
    <3>1. sem[x] \in USem /\ ~valid[sem[x]] => ~valid'[sem[x]]
      BY <1>3
    <3>2. wait_state'[x] = wait_state[x] /\ pc'[x] = pc[x] /\ wakeup_flags'[x] = wakeup_flags[x]
      BY <1>1, <1>6, <2>3
    <3>q. QED
      BY <1>2, <3>1, <3>2 DEF Inv, WaitsOK, ipc_check_timeout
  <2>q. QED
    BY <2>1, <2>2, <2>3
<1>11. TokensOK'
  <2>1. \A u \in Semaphore : Handed(u)' = Handed(u)
    BY <1>0, <1>1, <1>2, <1>6 DEF Handed, WaitStateOf
  <2>2. \A u \in KSem : Holders(u)' = Holders(u)
    BY <1>0, <1>1, <1>2 DEF Holders
  <2>3. /\ \A u \in Semaphore : value'[u] - value[u] = net'[u] - net[u]
        /\ \A u \in KSem : net'[u] = net[u]
    BY <1>0, <1>2 DEF TypeOK
  <2>q. QED
    BY <1>7, <2>1, <2>2, <2>3, SameTokens, Zenon
<1>12. ErrorMeansKilledOrFreed'
  BY <1>3 DEF ErrorMeansKilledOrFreed
<1>q. QED
  BY <1>7, <1>8, <1>9, <1>10, <1>11, <1>12 DEF Inv

\* The timer interrupt: whoever it wakes has waited for as long as it asked
\* to, and waits for a user semaphore.
LEMMA TickOK ==
    ASSUME Inv, tick
    PROVE  Inv'
<1>0. /\ TypeOK /\ panicked = "no"
      /\ UNCHANGED <<value, valid, wait_queue, refs, pc, sem, wakeup_flags, timeout, exiting,
                     ret, net>>
  BY DEF Inv, tick, semVars
<1>1. \A x \in Proc : timer[x] = 1 => ~(wait_state[x] # "0" /\ wait_state[x] # "USEM")
  <2> SUFFICES ASSUME NEW x \in Proc, timer[x] = 1, wait_state[x] # "0"
               PROVE  wait_state[x] = "USEM"
    OBVIOUS
  <2>1. timer[x] \in Nat /\ elapsed[x] \in Nat /\ timeout[x] \in Nat
    BY <1>0 DEF TypeOK
  <2>2. sem[x] \notin KSem
    BY <2>1 DEF Inv, WaitsOK
  <2>q. QED
    BY <2>2 DEF Inv, SleepersOK, WaitStateOf
<1>2. /\ timer' = [p \in Proc |-> IF timer[p] = 0 THEN 0 ELSE timer[p] - 1]
      /\ wait_state' = [p \in Proc |-> IF timer[p] = 1 THEN "0" ELSE wait_state[p]]
      /\ elapsed' = [p \in Proc |-> IF elapsed[p] < timeout[p] THEN elapsed[p] + 1
                                    ELSE elapsed[p]]
  BY DEF tick
<1>3. panicked' = "no"
  BY <1>1 DEF tick, Sleeping, Interruptible
<1>4. /\ timer' \in [Proc -> Nat] /\ elapsed' \in [Proc -> Nat]
      /\ wait_state' \in [Proc -> {"0", "KSEM", "USEM"}]
  BY <1>0, <1>2 DEF TypeOK
<1>5. TypeOK'
  BY <1>0, <1>3, <1>4 DEF TypeOK
<1>6. QueuesOK'
  BY <1>0 DEF Inv, QueuesOK
<1>7. SleepersOK'
  <2>1. \A x \in Proc : wait_state'[x] # "0" => wait_state'[x] = wait_state[x]
    BY <1>2
  <2>q. QED
    BY <1>0, <2>1 DEF Inv, SleepersOK, WaitStateOf
<1>8. WaitsOK'
  <2> SUFFICES ASSUME NEW x \in Proc
               PROVE  (/\ pc[x] = "down" =>
                            /\ sem[x] \in Semaphore
                            /\ wakeup_flags[x] \in {"INTERRUPTED", WaitStateOf(sem[x])}
                       /\ pc[x] = "crit" => sem[x] \in KSem
                       /\ timer[x] + elapsed[x] = timeout[x]
                       /\ pc[x] # "down" \/ sem[x] \in KSem => timeout[x] = 0
                       /\ pc[x] = "down" /\ sem[x] \in KSem /\ wait_state[x] = "0"
                            => wakeup_flags[x] = "KSEM"
                       /\ pc[x] = "down" /\ sem[x] \in USem /\ wait_state[x] = "0"
                            /\ wakeup_flags[x] = "INTERRUPTED"
                            => exiting[x] \/ ~valid[sem[x]] \/ ipc_check_timeout(x))'
    BY DEF WaitsOK
  <2>1. /\ timer[x] \in Nat /\ elapsed[x] \in Nat /\ timeout[x] \in Nat
        /\ timer[x] + elapsed[x] = timeout[x]
    BY <1>0 DEF TypeOK, Inv, WaitsOK
  <2>2. /\ timer'[x] = IF timer[x] = 0 THEN 0 ELSE timer[x] - 1
        /\ elapsed'[x] = IF elapsed[x] < timeout[x] THEN elapsed[x] + 1 ELSE elapsed[x]
        /\ wait_state'[x] = IF timer[x] = 1 THEN "0" ELSE wait_state[x]
    BY <1>2
  <2>3. timer'[x] + elapsed'[x] = timeout[x]
    BY <2>1, <2>2
  <2>4. timeout[x] # 0 /\ elapsed[x] >= timeout[x] => elapsed'[x] >= timeout[x]
    BY <2>1, <2>2
  <2>5. timer[x] = 1 => timeout[x] # 0 /\ elapsed'[x] >= timeout[x]
    BY <2>1, <2>2
  <2>6. timer[x] # 1 => wait_state'[x] = wait_state[x]
    BY <2>2
  <2>7. CASE timer[x] = 1
    <3>1. ipc_check_timeout(x)'
      BY <1>0, <2>5, <2>7 DEF ipc_check_timeout
    <3>2. pc[x] = "down" /\ sem[x] \notin KSem
      BY <2>1, <2>7 DEF Inv, WaitsOK
    <3>q. QED
      BY <1>0, <2>3, <3>1, <3>2 DEF Inv, WaitsOK, WaitStateOf
  <2>8. CASE timer[x] # 1
    <3>1. ipc_check_timeout(x) => ipc_check_timeout(x)'
      BY <1>0, <2>4 DEF ipc_check_timeout
    <3>q. QED
      BY <1>0, <2>3, <2>6, <2>8, <3>1 DEF Inv, WaitsOK, WaitStateOf
  <2>q. QED
    BY <2>7, <2>8
<1>9. TokensOK'
  <2>1. \A u \in Semaphore : Handed(u)' = Handed(u)
    BY <1>0 DEF Handed, WaitStateOf
  <2>2. \A u \in KSem : Holders(u)' = Holders(u)
    BY <1>0 DEF Holders
  <2>q. QED
    BY <1>0, <1>5, <2>1, <2>2, SameTokens DEF TypeOK
<1>10. ErrorMeansKilledOrFreed'
  BY <1>0 DEF Inv, ErrorMeansKilledOrFreed
<1>q. QED
  BY <1>5, <1>6, <1>7, <1>8, <1>9, <1>10 DEF Inv

\* Kill, exit and fork
LEMMA LivesOK ==
    ASSUME Inv, NEW p \in Proc,
           \/ may_killed(p) \/ do_exit(p)
           \/ \E q \in Proc : do_kill(p, q) \/ do_fork(p, q)
    PROVE  Inv'
<1>0. TypeOK /\ pc[p] = "user" /\ refs \in [USem -> SUBSET Proc]
  BY DEF Inv, may_killed, do_exit, do_kill, do_fork, TypeOK
\* what these steps leave alone
<1>1. ASSUME UNCHANGED <<value, valid, wait_queue, sem, wakeup_flags, timer, timeout, elapsed,
                         panicked, net>>,
             TypeOK',
             \A x \in Proc : pc[x] \in {"down", "crit"} \/ pc'[x] \in {"down", "crit"}
                               => pc'[x] = pc[x],
             \A x \in Proc : pc[x] = "down" =>
                  /\ exiting[x] => exiting'[x]
                  /\ \A s \in USem : x \in refs[s] => x \in refs'[s],
             \A x \in Proc : \/ wait_state'[x] = wait_state[x]
                             \/ wait_state[x] = "USEM" /\ wait_state'[x] = "0" /\ exiting'[x],
             \A x \in Proc : ret'[x] = "error" => ret[x] = "error" /\ (exiting[x] => exiting'[x])
      PROVE  Inv'
  <2>1. /\ QueuesOK' /\ SleepersOK' /\ WaitsOK'
        /\ \A s \in Semaphore : Handed(s)' = Handed(s)
        /\ \A s \in KSem : Holders(s)' = Holders(s)
    BY <1>1, Quiet
  <2>2. TokensOK'
    BY <1>0, <1>1, <2>1, SameTokens DEF TypeOK
  <2>3. ErrorMeansKilledOrFreed'
    BY <1>1 DEF Inv, ErrorMeansKilledOrFreed
  <2>q. QED
    BY <1>1, <2>1, <2>2, <2>3 DEF Inv
<1>2. ASSUME BackToUser(p, refs)
      PROVE  /\ pc' \in [Proc -> {"user", "down", "crit", "dead"}] /\ pc'[p] \in {"user", "dead"}
             /\ refs' \in [USem -> SUBSET Proc]
             /\ \A x \in Proc : x # p => pc'[x] = pc[x]
             /\ \A u \in USem : \A x \in Proc : x # p /\ x \in refs[u] => x \in refs'[u]
  BY <1>0, <1>2, Leaves
<1>3. CASE may_killed(p)
  <2>1. /\ BackToUser(p, refs)
        /\ UNCHANGED <<value, valid, wait_queue, sem, wait_state, wakeup_flags, timer, timeout,
                       elapsed, exiting, ret, panicked, net>>
    BY <1>3 DEF may_killed, waitVars
  <2>2. TypeOK'
    BY <1>0, <1>2, <2>1 DEF TypeOK
  <2>q. QED
    BY <1>0, <1>1, <1>2, <2>1, <2>2
<1>4. CASE do_exit(p)
  <2>1. /\ pc' = [pc EXCEPT ![p] = "dead"] /\ exiting' = [exiting EXCEPT ![p] = TRUE]
        /\ refs' = [s \in USem |-> refs[s] \ {p}]
        /\ UNCHANGED <<value, valid, wait_queue, sem, wait_state, wakeup_flags, timer, timeout,
                       elapsed, ret, panicked, net>>
    BY <1>4 DEF do_exit, waitVars
  <2>2. /\ pc' \in [Proc -> {"user", "down", "crit", "dead"}] /\ pc'[p] = "dead"
        /\ exiting' \in [Proc -> BOOLEAN] /\ exiting'[p] = TRUE
        /\ refs' \in [USem -> SUBSET Proc]
        /\ \A x \in Proc : x # p => pc'[x] = pc[x] /\ exiting'[x] = exiting[x]
        /\ \A u \in USem : \A x \in Proc : x # p /\ x \in refs[u] => x \in refs'[u]
    BY <1>0, <2>1 DEF TypeOK
  <2>3. TypeOK'
    BY <1>0, <2>1, <2>2 DEF TypeOK
  <2>q. QED
    BY <1>0, <1>1, <2>1, <2>2, <2>3
<1>5. ASSUME NEW q \in Proc, do_kill(p, q)
      PROVE  Inv'
  <2>1. /\ BackToUser(p, refs) /\ p # q /\ exiting' = [exiting EXCEPT ![q] = TRUE]
        /\ wait_state' = [wait_state EXCEPT ![q] = IF Interruptible(@) THEN "0" ELSE @]
        /\ UNCHANGED <<value, valid, wait_queue, sem, wakeup_flags, timer, timeout,
                       elapsed, ret, panicked, net>>
    BY <1>5 DEF do_kill
  <2>2. /\ exiting' \in [Proc -> BOOLEAN] /\ exiting'[q] = TRUE
        /\ wait_state' \in [Proc -> {"0", "KSEM", "USEM"}]
        /\ wait_state'[q] = wait_state[q] \/ (wait_state[q] = "USEM" /\ wait_state'[q] = "0")
        /\ \A x \in Proc : x # q => exiting'[x] = exiting[x] /\ wait_state'[x] = wait_state[x]
    BY <1>0, <2>1 DEF TypeOK, Interruptible
  <2>3. TypeOK'
    BY <1>0, <1>2, <2>1, <2>2 DEF TypeOK
  <2>q. QED
    BY <1>0, <1>1, <1>2, <2>1, <2>2, <2>3
<1>6. ASSUME NEW q \in Proc, do_fork(p, q)
      PROVE  Inv'
  <2>1. /\ pc[q] = "dead" /\ pc' = [pc EXCEPT ![q] = "user"]
        /\ exiting' = [exiting EXCEPT ![q] = FALSE] /\ ret' = [ret EXCEPT ![q] = "none"]
        /\ refs' = [s \in USem |-> IF Found(p, s) THEN refs[s] \cup {q} ELSE refs[s]]
        /\ UNCHANGED <<value, valid, wait_queue, sem, wait_state, wakeup_flags, timer, timeout,
                       elapsed, panicked, net>>
    BY <1>6 DEF do_fork, waitVars
  <2>2. /\ pc' \in [Proc -> {"user", "down", "crit", "dead"}] /\ pc'[q] = "user"
        /\ exiting' \in [Proc -> BOOLEAN]
        /\ ret' \in [Proc -> {"none", "ok", "E_INVAL", "E_TIMEOUT", "error"}] /\ ret'[q] = "none"
        /\ \A x \in Proc : x # q => /\ pc'[x] = pc[x] /\ exiting'[x] = exiting[x]
                                    /\ ret'[x] = ret[x]
    BY <1>0, <2>1 DEF TypeOK
  <2>3. /\ refs' \in [USem -> SUBSET Proc]
        /\ \A u \in USem : \A x \in Proc : x \in refs[u] => x \in refs'[u]
    BY <1>0, <2>1
  <2>4. TypeOK'
    BY <1>0, <2>1, <2>2, <2>3 DEF TypeOK
  <2>q. QED
    BY <1>0, <1>1, <2>1, <2>2, <2>3, <2>4
<1>q. QED
  BY <1>3, <1>4, <1>5, <1>6
-----------------------------------------------------------------------------
LEMMA Begins == Init => Inv
<1> SUFFICES ASSUME Init PROVE Inv
  OBVIOUS
<1>1. TypeOK
  BY QueueEmpty DEF Init, TypeOK
<1>2. QueuesOK /\ SleepersOK /\ WaitsOK
  BY QueueEmpty DEF Init, QueuesOK, SleepersOK, WaitsOK
<1>3. \A s \in Semaphore : Handed(s) = {} /\ Holders(s) = {}
  BY DEF Init, Handed, Holders
<1>4. TokensOK
  <2>1. Cardinality({}) = 0
    BY FS_EmptySet
  <2>2. \A s \in Semaphore : value[s] = net[s] /\ value[s] \in Nat
    BY <1>1 DEF Init, TypeOK
  <2>3. \A s \in KSem : net[s] = 1
    BY DEF Init
  <2>4. \A s \in Semaphore : Cardinality(Handed(s)) = 0 /\ Cardinality(Holders(s)) = 0
    BY <1>3, <2>1, Zenon
  <2>5. \A s \in Semaphore : value[s] + Cardinality(Handed(s)) = net[s]
    BY <2>2, <2>4
  <2>6. \A s \in KSem : Cardinality(Holders(s)) + net[s] = 1
    BY <2>3, <2>4
  <2>q. QED
    BY <2>5, <2>6 DEF TokensOK, TokensConserved
<1>5. ErrorMeansKilledOrFreed
  BY DEF Init, ErrorMeansKilledOrFreed
<1>q. QED
  BY <1>1, <1>2, <1>4, <1>5 DEF Inv

LEMMA StepOK == Inv /\ [Next]_vars => Inv'
<1> SUFFICES ASSUME Inv, [Next]_vars PROVE Inv'
  OBVIOUS
<1>1. ASSUME NEW p \in Proc, DownReturns(p)
      PROVE  Inv'
  <2>1. sem[p] \in Semaphore
    BY <1>1 DEF DownReturns, Inv, WaitsOK
  <2>q. QED
    BY <1>1, <2>1, DownReturnsOK
<1>2. ASSUME NEW p \in Proc, up(p)
      PROVE  Inv'
  <2>1. sem[p] \in Semaphore
    BY <1>2 DEF up, Inv, WaitsOK
  <2>q. QED
    BY <1>2, <2>1, UpMutexOK
<1>3. ASSUME NEW p \in Proc, NEW s \in KSem, down(p, s)
      PROVE  Inv'
  <2>0. pc[p] = "user" /\ UNCHANGED <<valid, refs, exiting, ret, panicked>>
    BY <1>3 DEF down
  <2>1. CASE /\ Take(p, s)
             /\ pc' = [pc EXCEPT ![p] = "crit"]
             /\ sem' = [sem EXCEPT ![p] = s]
             /\ UNCHANGED <<wait_queue, wait_state, wakeup_flags, timer, timeout, elapsed>>
    BY <2>0, <2>1, TakeMutexOK
  <2>2. CASE SleepOn(p, s, 0) /\ UNCHANGED <<value, net>>
    <3>1. s \notin USem /\ ret' \in [Proc -> {"none", "ok", "E_INVAL", "E_TIMEOUT", "error"}]
          /\ \A x \in Proc : ret'[x] = ret[x]
      BY <2>0 DEF Inv, TypeOK
    <3>q. QED
      BY <2>0, <2>2, <3>1, SleepOnOK
  <2>q. QED
    BY <1>3, <2>1, <2>2 DEF down
<1>4. ASSUME NEW p \in Proc, NEW s \in USem,
             \/ \E t \in Timeout : ipc_sem_wait(p, s, t)
             \/ ipc_sem_post(p, s) \/ ipc_sem_free(p, s)
      PROVE  Inv'
  BY <1>4, WaitOK, PostOK, FreeOK
<1>5. ASSUME NEW p \in Proc,
             \/ may_killed(p) \/ do_exit(p)
             \/ \E q \in Proc : do_kill(p, q) \/ do_fork(p, q)
      PROVE  Inv'
  BY <1>5, LivesOK
<1>6. CASE tick
  BY <1>6, TickOK
<1>7. CASE UNCHANGED vars
  <2>1. UNCHANGED <<value, valid, wait_queue, refs, sem, wait_state, wakeup_flags, timer, timeout,
                    elapsed, pc, exiting, ret, panicked, net>>
    BY <1>7 DEF vars, semVars, waitVars
  <2>2. TypeOK'
    BY <2>1 DEF Inv, TypeOK
  <2>3. QueuesOK' /\ SleepersOK' /\ WaitsOK'
    BY <2>1 DEF Inv, QueuesOK, SleepersOK, WaitsOK, WaitStateOf, ipc_check_timeout
  <2>4. TokensOK'
    BY <2>1 DEF Inv, TokensOK, TokensConserved, Handed, Holders, WaitStateOf
  <2>5. ErrorMeansKilledOrFreed'
    BY <2>1 DEF Inv, ErrorMeansKilledOrFreed
  <2>q. QED
    BY <2>2, <2>3, <2>4, <2>5 DEF Inv
<1>q. QED
  BY <1>1, <1>2, <1>3, <1>4, <1>5, <1>6, <1>7 DEF Next, halt

LEMMA Always == Spec => []Inv
BY Begins, StepOK, PTL DEF Spec

\* Nobody is left in a semaphore's queue (sync/sem.c, __down) by a timeout, a
\* kill, a free or an exit, and the semaphore of a waiter stays in memory.
THEOREM QueueOfWaitersHolds == Spec => []QueueOfWaiters
<1>1. Inv => QueueOfWaiters
  BY DEF Inv, QueuesOK, QueueOfWaiters
<1>q. QED
  BY <1>1, Always, PTL

\* __up and __down never leave a sleeper beside a token, nor one that no __up
\* would find.
THEOREM NoLostWakeupHolds == Spec => []NoLostWakeup
<1>1. Inv => NoLostWakeup
  <2> SUFFICES ASSUME Inv, NEW s \in Semaphore
               PROVE  /\ value[s] > 0 => wait_queue[s] = <<>>
                      /\ \A p \in Proc : pc[p] = "down" /\ sem[p] = s /\ Sleeping(p)
                                           => Contains(wait_queue[s], p)
    BY DEF NoLostWakeup
  <2>1. \A p \in Proc : p \in ToSet(wait_queue[s]) => Contains(wait_queue[s], p)
    <3>1. wait_queue[s] \in Seq(Proc)
      BY DEF Inv, TypeOK
    <3>2. DOMAIN wait_queue[s] = 1..Len(wait_queue[s])
      BY <3>1, LenProperties
    <3>q. QED
      BY <3>2 DEF ToSet, Contains
  <2>q. QED
    BY <2>1 DEF Inv, QueuesOK, SleepersOK, Sleeping
<1>q. QED
  BY <1>1, Always, PTL

\* The token that __up hands to a waiter is neither lost nor doubled when a
\* timer, a kill or ipc_sem_free gets at the waiter before it runs again.
THEOREM TokensConservedHolds == Spec => []TokensConserved
<1>1. Inv => TokensConserved
  BY DEF Inv, TokensOK
<1>q. QED
  BY <1>1, Always, PTL

\* A kernel semaphore made with sem_init(s, 1) is a mutex: lock_mm, lock_sfs_fs
\* and the others admit one process at a time, also when holders and waiters
\* are killed.
THEOREM MutexExclusiveHolds == Spec => []MutexExclusive
<1>1. Inv => MutexExclusive
  <2> SUFFICES ASSUME Inv, NEW s \in KSem
               PROVE  Cardinality(Holders(s)) + Cardinality(Handed(s)) + value[s] = 1
    BY DEF MutexExclusive, Holders
  <2>1. /\ value[s] + Cardinality(Handed(s)) = net[s]
        /\ Cardinality(Holders(s)) + net[s] = 1
    BY DEF Inv, TokensOK, TokensConserved
  <2>2. /\ Cardinality(Holders(s)) \in Nat /\ Cardinality(Handed(s)) \in Nat
        /\ value[s] \in Nat /\ net[s] \in Int
    BY Count, SetsOfProcesses DEF Inv, TypeOK
  <2>q. QED
    BY <2>1, <2>2
<1>q. QED
  BY <1>1, Always, PTL

\* Neither the assertion in down() nor the one in run_timer_list can fail: a
\* wait for a kernel semaphore ends by up() and by nothing else.
THEOREM KernelWaitUndisturbedHolds == Spec => []KernelWaitUndisturbed
<1>1. Inv => KernelWaitUndisturbed
  BY DEF Inv, TypeOK, KernelWaitUndisturbed
<1>q. QED
  BY <1>1, Always, PTL

\* ipc_sem_wait reports a timeout as a timeout: an error that is none means a
\* kill or a freed semaphore, for every timeout.
THEOREM ErrorMeansKilledOrFreedHolds == Spec => []ErrorMeansKilledOrFreed
<1>1. Inv => ErrorMeansKilledOrFreed
  BY DEF Inv
<1>q. QED
  BY <1>1, Always, PTL

HIDE SemAssumption DEF Semaphore

(***************************************************************************)
(* The kernel lock is held by exactly the CPU that is in the kernel, and   *)
(* no CPU keeps a stale translation once mp_tlb_invalidate has dealt with  *)
(* it: for every number of CPUs, processes and address spaces.             *)
(*                                                                         *)
(* IInv is inductive.  The lock part needs SwitchedOutInv, because         *)
(* schedule hands the lock from the process it leaves to the one it        *)
(* resumes; the TLB part needs ShootdownInv, because the request flags,    *)
(* not the lock, connect the CPU that flushes with the one that waits.     *)
(***************************************************************************)
\* The vocabulary of every step below.
USE KernLockAssumption
    DEF IInv, KernTypeOK, lockVars, procVars, sdVars, ipiVars, Process, Pgdir,
        Free, At, InBody, InKern, OffCpu, PickNext, SwitchTo, TlbInvalidate,
        LocksKernel, InKernelFrame

\* trap from outside the kernel, up to kern_enter.
LEMMA TrapEnterInv == ASSUME IInv, NEW c \in CPU, TrapEnter(c) PROVE IInv'
<1>1. CASE LocksKernel(current[c])
  <2>1. locking' = [locking EXCEPT ![c] = TRUE]
        /\ at' = [at EXCEPT ![current[c]] = "chk"]
    BY <1>1 DEF TrapEnter
  <2>2. KernTypeOK'
    BY <2>1 DEF TrapEnter
  <2>3. BigKernelLock'
    BY <1>1, <2>1 DEF TrapEnter, BigKernelLock, OneCpuPerProcess, SwitchedOutInv
  <2>4. OneCpuPerProcess' /\ SwitchedOutInv'
    BY <2>1 DEF TrapEnter, OneCpuPerProcess, SwitchedOutInv
  <2>5. ShootdownInv'
    BY <1>1, <2>1 DEF TrapEnter, ShootdownInv, BigKernelLock, OneCpuPerProcess, Stale
  <2>6. TlbCoherence'
    BY <2>1 DEF TrapEnter, TlbCoherence, Pursues, Stale
  <2>q. QED
    BY <2>2, <2>3, <2>4, <2>5, <2>6
<1>2. CASE ~LocksKernel(current[c])
  <2>1. UNCHANGED locking /\ at' = [at EXCEPT ![current[c]] = "disp"]
    BY <1>2 DEF TrapEnter
  <2>2. KernTypeOK'
    BY <2>1 DEF TrapEnter
  <2>3. BigKernelLock'
    BY <1>2, <2>1 DEF TrapEnter, BigKernelLock, OneCpuPerProcess, SwitchedOutInv
  <2>4. OneCpuPerProcess' /\ SwitchedOutInv'
    BY <2>1 DEF TrapEnter, OneCpuPerProcess, SwitchedOutInv
  <2>5. ShootdownInv'
    BY <1>2, <2>1 DEF TrapEnter, ShootdownInv, BigKernelLock, OneCpuPerProcess, Stale
  <2>6. TlbCoherence'
    BY <2>1 DEF TrapEnter, TlbCoherence, Pursues, Stale
  <2>q. QED
    BY <2>2, <2>3, <2>4, <2>5, <2>6
<1>q. QED
  BY <1>1, <1>2

\* kern_enter looks at ipi_raise.
LEMMA EnterCheckInv == ASSUME IInv, NEW c \in CPU, EnterCheck(c) PROVE IInv'
<1>1. KernTypeOK'
  BY DEF EnterCheck
<1>2. OneCpuPerProcess'
  BY DEF EnterCheck, OneCpuPerProcess, SwitchedOutInv
<1>3. SwitchedOutInv'
  BY DEF EnterCheck, SwitchedOutInv, OneCpuPerProcess
<1>4. BigKernelLock'
  BY DEF EnterCheck, BigKernelLock, OneCpuPerProcess, SwitchedOutInv
<1>5. ShootdownInv'
  BY DEF EnterCheck, ShootdownInv, BigKernelLock, OneCpuPerProcess, Stale
<1>6. TlbCoherence'
  BY DEF EnterCheck, TlbCoherence, Pursues, Stale, ShootdownInv,
         OneCpuPerProcess, BigKernelLock
<1>q. QED
  BY <1>1, <1>2, <1>3, <1>4, <1>5, <1>6

\* kern_enter tries the lock.
LEMMA EnterTryInv == ASSUME IInv, NEW c \in CPU, EnterTry(c) PROVE IInv'
<1>1. KernTypeOK'
  BY ZenonT(30) DEF EnterTry
<1>2. OneCpuPerProcess'
  BY DEF EnterTry, OneCpuPerProcess, SwitchedOutInv
<1>3. SwitchedOutInv'
  BY DEF EnterTry, SwitchedOutInv, OneCpuPerProcess
<1>4. BigKernelLock'
  <2>1. CASE kern_lock
    BY <2>1 DEF EnterTry, BigKernelLock, OneCpuPerProcess, SwitchedOutInv
  <2>2. CASE ~kern_lock
    <3>1. \A d \in CPU : ~InKern(d)
      BY <2>2 DEF BigKernelLock
    <3>2. InKern(c)' /\ \A d \in CPU \ {c} : ~InKern(d)'
      BY <2>2, <3>1 DEF EnterTry, OneCpuPerProcess
    <3>3. \A d \in CPU : locking'[d] <=> (At(d, "chk") \/ At(d, "try"))'
      BY <2>2 DEF EnterTry, BigKernelLock, OneCpuPerProcess
    <3>q. QED
      BY <2>2, <3>2, <3>3 DEF EnterTry, BigKernelLock
  <2>q. QED
    BY <2>1, <2>2
<1>5. ShootdownInv'
  BY DEF EnterTry, ShootdownInv, BigKernelLock, OneCpuPerProcess, Stale
<1>6. TlbCoherence'
  BY DEF EnterTry, TlbCoherence, Pursues, Stale, ShootdownInv,
         OneCpuPerProcess, BigKernelLock
<1>q. QED
  BY <1>1, <1>2, <1>3, <1>4, <1>5, <1>6

\* A trap inside a handler leaves the lock alone.
LEMMA NestedTrapInv == ASSUME IInv, NEW c \in CPU, NestedTrap(c) PROVE IInv'
<1>1. KernTypeOK'
  BY DEF NestedTrap
<1>2. OneCpuPerProcess'
  BY DEF NestedTrap, OneCpuPerProcess, SwitchedOutInv
<1>3. SwitchedOutInv'
  BY DEF NestedTrap, SwitchedOutInv, OneCpuPerProcess
<1>4. BigKernelLock'
  BY DEF NestedTrap, BigKernelLock, OneCpuPerProcess, SwitchedOutInv
<1>5. ShootdownInv'
  BY DEF NestedTrap, ShootdownInv, BigKernelLock, OneCpuPerProcess, Stale
<1>6. TlbCoherence'
  BY DEF NestedTrap, TlbCoherence, Pursues, Stale, ShootdownInv,
         OneCpuPerProcess, BigKernelLock
<1>q. QED
  BY <1>1, <1>2, <1>3, <1>4, <1>5, <1>6

\* So does its return.
LEMMA NestedReturnInv == ASSUME IInv, NEW c \in CPU, NestedReturn(c) PROVE IInv'
<1>1. KernTypeOK'
  BY DEF NestedReturn
<1>2. OneCpuPerProcess'
  BY DEF NestedReturn, OneCpuPerProcess, SwitchedOutInv
<1>3. SwitchedOutInv'
  BY DEF NestedReturn, SwitchedOutInv, OneCpuPerProcess
<1>4. BigKernelLock'
  BY DEF NestedReturn, BigKernelLock, OneCpuPerProcess, SwitchedOutInv
<1>5. ShootdownInv'
  BY DEF NestedReturn, ShootdownInv, BigKernelLock, OneCpuPerProcess, Stale
<1>6. TlbCoherence'
  BY DEF NestedReturn, TlbCoherence, Pursues, Stale, ShootdownInv,
         OneCpuPerProcess, BigKernelLock
<1>q. QED
  BY <1>1, <1>2, <1>3, <1>4, <1>5, <1>6

\* trap_dispatch returns.
LEMMA DispatchDoneInv == ASSUME IInv, NEW c \in CPU, DispatchDone(c) PROVE IInv'
<1>1. KernTypeOK'
  BY DEF DispatchDone
<1>2. OneCpuPerProcess'
  BY DEF DispatchDone, OneCpuPerProcess, SwitchedOutInv
<1>3. SwitchedOutInv'
  BY DEF DispatchDone, SwitchedOutInv, OneCpuPerProcess
<1>4. BigKernelLock'
  BY DEF DispatchDone, BigKernelLock, OneCpuPerProcess, SwitchedOutInv
<1>5. ShootdownInv'
  BY DEF DispatchDone, ShootdownInv, BigKernelLock, OneCpuPerProcess, Stale
<1>6. TlbCoherence'
  BY DEF DispatchDone, TlbCoherence, Pursues, Stale, ShootdownInv,
         OneCpuPerProcess, BigKernelLock
<1>q. QED
  BY <1>1, <1>2, <1>3, <1>4, <1>5, <1>6

\* A handler or a kernel thread sleeps, and the lock passes to the process
\* that the CPU switches to.
LEMMA BlockInv == ASSUME IInv, NEW c \in CPU, Block(c) PROVE IInv'
<1>1. KernTypeOK'
  BY DEF Block
<1>2. OneCpuPerProcess'
  BY DEF Block, OneCpuPerProcess, SwitchedOutInv
<1>3. SwitchedOutInv'
  BY DEF Block, SwitchedOutInv, OneCpuPerProcess
<1>4. BigKernelLock'
  BY DEF Block, BigKernelLock, OneCpuPerProcess, SwitchedOutInv
<1>5. ShootdownInv'
  BY DEF Block, ShootdownInv, BigKernelLock, OneCpuPerProcess, Stale
<1>6. TlbCoherence'
  BY DEF Block, TlbCoherence, Pursues, Stale, ShootdownInv,
         OneCpuPerProcess, BigKernelLock
<1>q. QED
  BY <1>1, <1>2, <1>3, <1>4, <1>5, <1>6

\* schedule at the end of trap.
LEMMA TailInv == ASSUME IInv, NEW c \in CPU, TrapTail(c) PROVE IInv'
<1>1. PICK q \in Process :
        /\ q \in OffCpu \cup {c, current[c]}
        /\ current' = [current EXCEPT ![c] = q]
        /\ tlb' = [tlb EXCEPT ![c] = IF q = current[c] THEN @ ELSE NoEntry]
  <2>1. CASE \E q \in PickNext(c) \cup {current[c]} : SwitchTo(c, q)
    BY <2>1 DEF TrapTail
  <2>2. CASE UNCHANGED <<current, tlb>>
    BY <2>2 DEF TrapTail
  <2>q. QED
    BY <2>1, <2>2 DEF TrapTail
<1>2. /\ sd[c] = "none" /\ ipi_pc[c] = "none" /\ at[current[c]] = "tail"
      /\ at' = [at EXCEPT ![current[c]] = "leave"]
      /\ UNCHANGED <<lockVars, user, nested, mm, pte, sdVars, ipiVars>>
  BY DEF TrapTail
<1>3. KernTypeOK'
  BY <1>1, <1>2
<1>4. OneCpuPerProcess'
  BY <1>1, <1>2 DEF OneCpuPerProcess, SwitchedOutInv
<1>5. SwitchedOutInv'
  BY <1>1, <1>2 DEF SwitchedOutInv, OneCpuPerProcess
<1>6. BigKernelLock'
  <2>1. InKern(c) /\ InKern(c)' /\ ~locking[c]
    BY <1>1, <1>2 DEF SwitchedOutInv, OneCpuPerProcess, BigKernelLock
  <2>2. \A d \in CPU \ {c} : current'[d] = current[d] /\ at'[current[d]] = at[current[d]]
    BY <1>1, <1>2 DEF OneCpuPerProcess
  <2>3. at'[current'[c]] \notin {"chk", "try"}
    BY <1>1, <1>2 DEF SwitchedOutInv, OneCpuPerProcess
  <2>q. QED
    BY <1>2, <2>1, <2>2, <2>3 DEF BigKernelLock
<1>7. ShootdownInv'
  <2>1. \A d \in CPU \ {c} : /\ current'[d] = current[d]
                             /\ at'[current[d]] = at[current[d]]
                             /\ tlb'[d] = tlb[d]
    BY <1>1, <1>2 DEF OneCpuPerProcess
  <2>q. QED
    BY <1>1, <1>2, <2>1 DEF ShootdownInv, Stale
<1>8. TlbCoherence'
  BY <1>1, <1>2 DEF TlbCoherence, Pursues, Stale, OneCpuPerProcess
<1>q. QED
  BY <1>3, <1>4, <1>5, <1>6, <1>7, <1>8

\* do_exit: the process that is switched to inherits the lock.
LEMMA ExitInv == ASSUME IInv, NEW c \in CPU, Exit(c) PROVE IInv'
<1>1. KernTypeOK'
  BY DEF Exit
<1>2. OneCpuPerProcess'
  BY DEF Exit, OneCpuPerProcess, SwitchedOutInv
<1>3. SwitchedOutInv'
  BY DEF Exit, SwitchedOutInv, OneCpuPerProcess
<1>4. BigKernelLock'
  BY DEF Exit, BigKernelLock, OneCpuPerProcess, SwitchedOutInv
<1>5. ShootdownInv'
  BY DEF Exit, ShootdownInv, BigKernelLock, OneCpuPerProcess, Stale
<1>6. TlbCoherence'
  BY DEF Exit, TlbCoherence, Pursues, Stale, ShootdownInv, OneCpuPerProcess,
         BigKernelLock
<1>q. QED
  BY <1>1, <1>2, <1>3, <1>4, <1>5, <1>6

\* The end of trap.
LEMMA LeaveInv == ASSUME IInv, NEW c \in CPU, Leave(c) PROVE IInv'
<1>1. KernTypeOK'
  BY DEF Leave
<1>2. OneCpuPerProcess'
  BY DEF Leave, OneCpuPerProcess, SwitchedOutInv
<1>3. SwitchedOutInv'
  BY DEF Leave, SwitchedOutInv, OneCpuPerProcess
<1>4. BigKernelLock'
  BY DEF Leave, BigKernelLock, OneCpuPerProcess, SwitchedOutInv
<1>5. ShootdownInv'
  BY DEF Leave, ShootdownInv, BigKernelLock, OneCpuPerProcess, Stale
<1>6. TlbCoherence'
  BY DEF Leave, TlbCoherence, Pursues, Stale, ShootdownInv,
         OneCpuPerProcess, BigKernelLock
<1>q. QED
  BY <1>1, <1>2, <1>3, <1>4, <1>5, <1>6

\* The first return of a new process.
LEMMA ForkRetInv == ASSUME IInv, NEW c \in CPU, ForkRet(c) PROVE IInv'
<1>1. KernTypeOK'
  BY DEF ForkRet
<1>2. OneCpuPerProcess'
  BY DEF ForkRet, OneCpuPerProcess, SwitchedOutInv
<1>3. SwitchedOutInv'
  BY DEF ForkRet, SwitchedOutInv, OneCpuPerProcess
<1>4. BigKernelLock'
  BY DEF ForkRet, BigKernelLock, OneCpuPerProcess, SwitchedOutInv
<1>5. ShootdownInv'
  BY DEF ForkRet, ShootdownInv, BigKernelLock, OneCpuPerProcess, Stale
<1>6. TlbCoherence'
  BY DEF ForkRet, TlbCoherence, Pursues, Stale, ShootdownInv,
         OneCpuPerProcess, BigKernelLock
<1>q. QED
  BY <1>1, <1>2, <1>3, <1>4, <1>5, <1>6

\* do_fork.
LEMMA ForkInv == ASSUME IInv, NEW c \in CPU, Fork(c) PROVE IInv'
<1>1. KernTypeOK'
  BY DEF Fork
<1>2. OneCpuPerProcess'
  BY DEF Fork, OneCpuPerProcess, SwitchedOutInv
<1>3. SwitchedOutInv'
  BY DEF Fork, SwitchedOutInv, OneCpuPerProcess
<1>4. BigKernelLock'
  BY DEF Fork, BigKernelLock, OneCpuPerProcess, SwitchedOutInv
<1>5. ShootdownInv'
  BY DEF Fork, ShootdownInv, BigKernelLock, OneCpuPerProcess, Stale
<1>6. TlbCoherence'
  BY DEF Fork, TlbCoherence, Pursues, Stale, ShootdownInv, OneCpuPerProcess,
         BigKernelLock
<1>q. QED
  BY <1>1, <1>2, <1>3, <1>4, <1>5, <1>6

\* do_execve: a kernel thread's frame becomes a user frame.
LEMMA ExecInv == ASSUME IInv, NEW c \in CPU, Exec(c) PROVE IInv'
<1>1. KernTypeOK'
  BY DEF Exec
<1>2. OneCpuPerProcess'
  BY DEF Exec, OneCpuPerProcess, SwitchedOutInv
<1>3. SwitchedOutInv'
  BY DEF Exec, SwitchedOutInv, OneCpuPerProcess
<1>4. BigKernelLock'
  BY DEF Exec, BigKernelLock, OneCpuPerProcess, SwitchedOutInv
<1>5. ShootdownInv'
  BY DEF Exec, ShootdownInv, BigKernelLock, OneCpuPerProcess, Stale
<1>6. TlbCoherence'
  BY DEF Exec, TlbCoherence, Pursues, Stale, ShootdownInv, OneCpuPerProcess,
         BigKernelLock
<1>q. QED
  BY <1>1, <1>2, <1>3, <1>4, <1>5, <1>6

\* A page table entry changes: the shootdown that follows accounts for every
\* translation that is now stale.
LEMMA SetPteInv == ASSUME IInv, NEW c \in CPU, SetPte(c) PROVE IInv'
<1>1. KernTypeOK'
  BY DEF SetPte
<1>2. OneCpuPerProcess'
  BY DEF SetPte, OneCpuPerProcess, SwitchedOutInv
<1>3. SwitchedOutInv'
  BY DEF SetPte, SwitchedOutInv, OneCpuPerProcess
<1>4. BigKernelLock'
  BY DEF SetPte, BigKernelLock, OneCpuPerProcess, SwitchedOutInv
<1>5. ShootdownInv'
  <2>1. \A d \in CPU : sd[d] = "none"
    BY DEF SetPte, ShootdownInv, BigKernelLock
  <2>2. \A d \in CPU : ipi_pc[d] = "none" /\ ~ipi_raise[d]
    BY <2>1 DEF ShootdownInv
  <2>q. QED
    BY <2>1, <2>2 DEF SetPte, ShootdownInv
<1>6. TlbCoherence'
  BY DEF SetPte, TlbCoherence, Pursues, Stale, ShootdownInv,
         OneCpuPerProcess, BigKernelLock
<1>q. QED
  BY <1>1, <1>2, <1>3, <1>4, <1>5, <1>6

\* A page walk reads the entry in force.
LEMMA TlbFillInv == ASSUME IInv, NEW c \in CPU, TlbFill(c) PROVE IInv'
<1>1. KernTypeOK'
  BY DEF TlbFill
<1>2. OneCpuPerProcess'
  BY DEF TlbFill, OneCpuPerProcess, SwitchedOutInv
<1>3. SwitchedOutInv'
  BY DEF TlbFill, SwitchedOutInv, OneCpuPerProcess
<1>4. BigKernelLock'
  BY DEF TlbFill, BigKernelLock, OneCpuPerProcess, SwitchedOutInv
<1>5. ShootdownInv'
  BY DEF TlbFill, ShootdownInv, BigKernelLock, OneCpuPerProcess, Stale
<1>6. TlbCoherence'
  BY SMTT(30) DEF TlbFill, TlbCoherence, Pursues, Stale, ShootdownInv,
         OneCpuPerProcess, BigKernelLock
<1>q. QED
  BY <1>1, <1>2, <1>3, <1>4, <1>5, <1>6

\* mp_tlb_invalidate publishes its arguments.
LEMMA SdBeginInv == ASSUME IInv, NEW c \in CPU, SdBegin(c) PROVE IInv'
<1>1. KernTypeOK'
  BY DEF SdBegin
<1>2. OneCpuPerProcess'
  BY DEF SdBegin, OneCpuPerProcess, SwitchedOutInv
<1>3. SwitchedOutInv'
  BY DEF SdBegin, SwitchedOutInv, OneCpuPerProcess
<1>4. BigKernelLock'
  BY DEF SdBegin, BigKernelLock, OneCpuPerProcess, SwitchedOutInv
<1>5. ShootdownInv'
  BY SMTT(30) DEF SdBegin, ShootdownInv, BigKernelLock, OneCpuPerProcess, Stale
<1>6. TlbCoherence'
  BY DEF SdBegin, TlbCoherence, Pursues, Stale, ShootdownInv,
         OneCpuPerProcess, BigKernelLock
<1>q. QED
  BY <1>1, <1>2, <1>3, <1>4, <1>5, <1>6

\* mp_tlb_invalidate asks one more CPU.
LEMMA SdRaiseInv == ASSUME IInv, NEW c \in CPU, SdRaise(c) PROVE IInv'
<1>1. KernTypeOK'
  BY DEF SdRaise
<1>2. OneCpuPerProcess'
  BY DEF SdRaise, OneCpuPerProcess, SwitchedOutInv
<1>3. SwitchedOutInv'
  BY DEF SdRaise, SwitchedOutInv, OneCpuPerProcess
<1>4. BigKernelLock'
  BY DEF SdRaise, BigKernelLock, OneCpuPerProcess, SwitchedOutInv
<1>5. ShootdownInv'
  BY SMTT(30) DEF SdRaise, ShootdownInv, BigKernelLock, OneCpuPerProcess, Stale
<1>6. TlbCoherence'
  BY DEF SdRaise, TlbCoherence, Pursues, Stale, ShootdownInv,
         OneCpuPerProcess, BigKernelLock
<1>q. QED
  BY <1>1, <1>2, <1>3, <1>4, <1>5, <1>6

\* mp_tlb_invalidate flushes its own TLB and sets mpti_end.
LEMMA SdFlushInv == ASSUME IInv, NEW c \in CPU, SdFlush(c) PROVE IInv'
<1>1. KernTypeOK'
  BY DEF SdFlush
<1>2. OneCpuPerProcess'
  BY DEF SdFlush, OneCpuPerProcess, SwitchedOutInv
<1>3. SwitchedOutInv'
  BY DEF SdFlush, SwitchedOutInv, OneCpuPerProcess
<1>4. BigKernelLock'
  BY DEF SdFlush, BigKernelLock, OneCpuPerProcess, SwitchedOutInv
<1>5. ShootdownInv'
  BY DEF SdFlush, ShootdownInv, BigKernelLock, OneCpuPerProcess, Stale
<1>6. TlbCoherence'
  BY DEF SdFlush, TlbCoherence, Pursues, Stale, ShootdownInv,
         OneCpuPerProcess, BigKernelLock
<1>q. QED
  BY <1>1, <1>2, <1>3, <1>4, <1>5, <1>6

\* mp_tlb_invalidate's wait loop passes a CPU that has answered.
LEMMA SdWaitInv == ASSUME IInv, NEW c \in CPU, SdWait(c) PROVE IInv'
<1>1. KernTypeOK'
  BY DEF SdWait
<1>2. OneCpuPerProcess'
  BY DEF SdWait, OneCpuPerProcess, SwitchedOutInv
<1>3. SwitchedOutInv'
  BY DEF SdWait, SwitchedOutInv, OneCpuPerProcess
<1>4. BigKernelLock'
  BY DEF SdWait, BigKernelLock, OneCpuPerProcess, SwitchedOutInv
<1>5. ShootdownInv'
  BY DEF SdWait, ShootdownInv, BigKernelLock, OneCpuPerProcess, Stale
<1>6. TlbCoherence'
  BY DEF SdWait, TlbCoherence, Pursues, Stale, ShootdownInv,
         OneCpuPerProcess, BigKernelLock
<1>q. QED
  BY <1>1, <1>2, <1>3, <1>4, <1>5, <1>6

\* mp_tlb_invalidate returns.
LEMMA SdEndInv == ASSUME IInv, NEW c \in CPU, SdEnd(c) PROVE IInv'
<1>1. KernTypeOK'
  BY DEF SdEnd
<1>2. OneCpuPerProcess'
  BY DEF SdEnd, OneCpuPerProcess, SwitchedOutInv
<1>3. SwitchedOutInv'
  BY DEF SdEnd, SwitchedOutInv, OneCpuPerProcess
<1>4. BigKernelLock'
  BY DEF SdEnd, BigKernelLock, OneCpuPerProcess, SwitchedOutInv
<1>5. ShootdownInv'
  BY DEF SdEnd, ShootdownInv, BigKernelLock, OneCpuPerProcess, Stale
<1>6. TlbCoherence'
  BY DEF SdEnd, TlbCoherence, Pursues, Stale, ShootdownInv,
         OneCpuPerProcess, BigKernelLock
<1>q. QED
  BY <1>1, <1>2, <1>3, <1>4, <1>5, <1>6

\* The interrupt is taken.
LEMMA IpiDeliverInv == ASSUME IInv, NEW c \in CPU, IpiDeliver(c) PROVE IInv'
<1>1. KernTypeOK'
  BY DEF IpiDeliver
<1>2. OneCpuPerProcess'
  BY DEF IpiDeliver, OneCpuPerProcess, SwitchedOutInv
<1>3. SwitchedOutInv'
  BY DEF IpiDeliver, SwitchedOutInv, OneCpuPerProcess
<1>4. BigKernelLock'
  BY DEF IpiDeliver, BigKernelLock, OneCpuPerProcess, SwitchedOutInv
<1>5. ShootdownInv'
  BY DEF IpiDeliver, ShootdownInv, BigKernelLock, OneCpuPerProcess, Stale
<1>6. TlbCoherence'
  BY DEF IpiDeliver, TlbCoherence, Pursues, Stale, ShootdownInv,
         OneCpuPerProcess, BigKernelLock
<1>q. QED
  BY <1>1, <1>2, <1>3, <1>4, <1>5, <1>6

\* ipi flushes.
LEMMA IpiFlushInv == ASSUME IInv, NEW c \in CPU, IpiFlush(c) PROVE IInv'
<1>1. KernTypeOK'
  BY DEF IpiFlush
<1>2. OneCpuPerProcess'
  BY DEF IpiFlush, OneCpuPerProcess, SwitchedOutInv
<1>3. SwitchedOutInv'
  BY DEF IpiFlush, SwitchedOutInv, OneCpuPerProcess
<1>4. BigKernelLock'
  BY DEF IpiFlush, BigKernelLock, OneCpuPerProcess, SwitchedOutInv
<1>5. ShootdownInv'
  <2>1. PICK d \in CPU \ {c} : sd[d] \in {"raise", "wait"}
    BY DEF IpiFlush, ShootdownInv
  <2>2. \A e \in CPU : Stale(e) => Pursues(d, e)
    BY <2>1 DEF TlbCoherence, Pursues, ShootdownInv, BigKernelLock
  <2>3. mpti_pgdir = sd_mm[d]
    BY <2>1 DEF ShootdownInv
  <2>4. ~Stale(c)'
    BY <2>2, <2>3 DEF IpiFlush, Stale, Pursues
  <2>5. \A e \in CPU \ {c} : Stale(e)' <=> Stale(e)
    BY DEF IpiFlush, Stale
  <2>q. QED
    BY <2>4, <2>5 DEF IpiFlush, ShootdownInv
<1>6. TlbCoherence'
  BY DEF IpiFlush, TlbCoherence, Pursues, Stale, ShootdownInv,
         OneCpuPerProcess, BigKernelLock
<1>q. QED
  BY <1>1, <1>2, <1>3, <1>4, <1>5, <1>6

\* ipi answers.
LEMMA IpiEndInv == ASSUME IInv, NEW c \in CPU, IpiEnd(c) PROVE IInv'
<1>1. KernTypeOK'
  BY DEF IpiEnd
<1>2. OneCpuPerProcess'
  BY DEF IpiEnd, OneCpuPerProcess, SwitchedOutInv
<1>3. SwitchedOutInv'
  BY DEF IpiEnd, SwitchedOutInv, OneCpuPerProcess
<1>4. BigKernelLock'
  BY DEF IpiEnd, BigKernelLock, OneCpuPerProcess, SwitchedOutInv
<1>5. ShootdownInv'
  BY DEF IpiEnd, ShootdownInv, BigKernelLock, OneCpuPerProcess, Stale
<1>6. TlbCoherence'
  BY DEF IpiEnd, TlbCoherence, Pursues, Stale, ShootdownInv,
         OneCpuPerProcess, BigKernelLock
<1>q. QED
  BY <1>1, <1>2, <1>3, <1>4, <1>5, <1>6

\* IInv holds at boot's end and is kept by every step.
THEOREM Inductive == KernSpec => []IInv
<1>1. KernInit => IInv
  <2> SUFFICES ASSUME KernInit PROVE IInv
    OBVIOUS
  <2>1. KernTypeOK
    BY DEF KernInit
  <2>2. OneCpuPerProcess /\ SwitchedOutInv
    BY DEF KernInit, OneCpuPerProcess, SwitchedOutInv
  <2>3. BigKernelLock
    BY DEF KernInit, BigKernelLock
  <2>4. ShootdownInv /\ TlbCoherence
    BY DEF KernInit, ShootdownInv, TlbCoherence, Stale
  <2>q. QED
    BY <2>1, <2>2, <2>3, <2>4
<1>2. IInv /\ [KernNext]_kernVars => IInv'
  <2> SUFFICES ASSUME IInv, [KernNext]_kernVars PROVE IInv'
    OBVIOUS
  <2>1. CASE UNCHANGED kernVars
    BY <2>1 DEF kernVars, OneCpuPerProcess, SwitchedOutInv, BigKernelLock,
                ShootdownInv, TlbCoherence, Pursues, Stale
  <2>2. CASE KernNext
    <3>1. PICK c \in CPU :
            \/ TrapEnter(c) \/ NestedTrap(c) \/ NestedReturn(c) \/ DispatchDone(c)
            \/ Block(c) \/ TrapTail(c) \/ Exit(c) \/ Leave(c) \/ ForkRet(c)
            \/ Fork(c) \/ Exec(c) \/ SetPte(c) \/ TlbFill(c)
            \/ CpuStep(c)
      BY <2>2 DEF KernNext
    <3> HIDE DEF IInv
    <3>q. QED
      BY <3>1,
         TrapEnterInv, NestedTrapInv, NestedReturnInv, DispatchDoneInv,
         BlockInv, TailInv, ExitInv, LeaveInv, ForkRetInv, ForkInv, ExecInv,
         SetPteInv, TlbFillInv, EnterCheckInv, EnterTryInv,
         SdBeginInv, SdRaiseInv, SdFlushInv, SdWaitInv, SdEndInv,
         IpiDeliverInv, IpiFlushInv, IpiEndInv
      DEF CpuStep
  <2>q. QED
    BY <2>1, <2>2
<1>q. QED
  BY <1>1, <1>2, PTL DEF KernSpec

\* For every set of CPUs and processes: at most one CPU executes kernel code,
\* the lock word says whether one does, and kern_enter is never re-entered
\* (kern_enter, kern_leave, trap, forkret).
THEOREM MutualExclusion == KernSpec => []BigKernelLock
<1>1. IInv => BigKernelLock
  OBVIOUS
<1>q. QED
  BY <1>1, Inductive, PTL

\* For every set of CPUs and processes: no process executes on two CPUs.
THEOREM SingleCpu == KernSpec => []OneCpuPerProcess
<1>1. IInv => OneCpuPerProcess
  OBVIOUS
<1>q. QED
  BY <1>1, Inductive, PTL

\* For every set of CPUs, processes and address spaces: a translation is
\* stale only while mp_tlb_invalidate is still dealing with its CPU.
THEOREM Coherence == KernSpec => []TlbCoherence
<1>1. IInv => TlbCoherence
  OBVIOUS
<1>q. QED
  BY <1>1, Inductive, PTL

\* Every variable keeps its type.
THEOREM Typing == KernSpec => []KernTypeOK
<1>1. IInv => KernTypeOK
  OBVIOUS
<1>q. QED
  BY <1>1, Inductive, PTL
=============================================================================
