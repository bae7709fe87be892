---------------------------- MODULE SchedProofs -----------------------------
(***************************************************************************)
(* The scheduler never loses or duplicates a process and never runs one on *)
(* two CPUs or on a used-up slice: for every number of CPUs, processes and *)
(* queues, and whatever their slices.  The timer list beside it implements *)
(* independent countdowns, for every number of timers and any timeouts.    *)
(***************************************************************************)
EXTENDS Sched, TimerList, QueueLemmas

USE SchedAssumption DEF Level, Proc, queueVars

\* Positions in a sequence before and after its head is removed.
LEMMA Shift ==
    \A n \in Nat \ {0} :
        /\ \A i \in 1..(n - 1) : i + 1 \in 1..n /\ i + 1 # 1
        /\ \A i \in 1..n : i # 1 => i - 1 \in 1..(n - 1) /\ (i - 1) + 1 = i
OBVIOUS

\* MLFQ_enqueue and RR_enqueue: a process that is in no queue goes to the end
\* of one.
LEMMA QueueAppend ==
    ASSUME NEW q \in [Level -> Seq(Task)], NEW link \in [Proc -> BOOLEAN],
           NEW r \in [Proc -> Level \cup {0}], NEW p \in Task, NEW l \in Level,
           QueueOK(q, link, r), ~link[p]
    PROVE  QueueOK([q EXCEPT ![l] = Append(@, p)], [link EXCEPT ![p] = TRUE],
                   [r EXCEPT ![p] = l])
<1> DEFINE q2 == [q EXCEPT ![l] = Append(@, p)]
           link2 == [link EXCEPT ![p] = TRUE]
           r2 == [r EXCEPT ![p] = l]
           n == Len(q[l])
<1>1. /\ \A k \in Level \ {l} : q2[k] = q[k]
      /\ q2[l] = Append(q[l], p) /\ Len(q2[l]) = n + 1 /\ q2[l][n + 1] = p
      /\ \A i \in 1..n : q2[l][i] = q[l][i]
  OBVIOUS
<1>2. \A k \in Level : \A i \in 1..Len(q[k]) : q[k][i] # p /\ q[k][i] \in Task
  BY DEF QueueOK
<1>0. n = Len(q[l]) /\ n \in Nat
  OBVIOUS
<1> HIDE DEF q2, n
<1>3. \A k \in Level : \A i \in 1..Len(q2[k]) : link2[q2[k][i]] /\ r2[q2[k][i]] = k
  <2> TAKE k \in Level
  <2> TAKE i \in 1..Len(q2[k])
  <2>1. CASE k # l
    <3>1. q2[k] = q[k]
      BY <1>1, <2>1
    <3>2. q[k][i] \in Task \ {p} /\ link[q[k][i]] /\ r[q[k][i]] = k
      BY <1>2, <3>1 DEF QueueOK
    <3>q. QED
      BY <3>1, <3>2
  <2>2. CASE k = l /\ i \in 1..n
    <3>1. q2[l][i] = q[l][i]
      BY <1>1, <2>2
    <3>2. q[l][i] \in Task \ {p} /\ link[q[l][i]] /\ r[q[l][i]] = l
      BY <1>0, <1>2, <2>2 DEF QueueOK
    <3>q. QED
      BY <2>2, <3>1, <3>2
  <2>3. CASE k = l /\ i = n + 1
    BY <1>1, <2>3
  <2>q. QED
    BY <1>0, <1>1, <2>1, <2>2, <2>3
<1>4. \A k \in Level : \A i, j \in 1..Len(q2[k]) : q2[k][i] = q2[k][j] => i = j
  <2> SUFFICES ASSUME NEW k \in Level, NEW i \in 1..Len(q2[k]), NEW j \in 1..Len(q2[k]),
                      q2[k][i] = q2[k][j]
               PROVE  i = j
    OBVIOUS
  <2>1. CASE k # l
    <3>1. q2[k] = q[k]
      BY <1>1, <2>1
    <3>q. QED
      BY <3>1 DEF QueueOK
  <2>2. CASE k = l
    <3>2. (i \in 1..n \/ i = n + 1) /\ (j \in 1..n \/ j = n + 1)
      BY <1>0, <1>1, <2>2
    <3>3. CASE i \in 1..n /\ j \in 1..n
      <4>1. q[l][i] = q[l][j]
        BY <1>1, <2>2, <3>3
      <4>q. QED
        BY <1>0, <3>3, <4>1 DEF QueueOK
    <3>4. CASE i = n + 1 /\ j \in 1..n
      <4>1. q2[k][i] = p
        BY <1>1, <2>2, <3>4
      <4>2. q2[k][j] = q[l][j] /\ q[l][j] # p
        BY <1>0, <1>1, <1>2, <2>2, <3>4
      <4>q. QED
        BY <4>1, <4>2
    <3>5. CASE j = n + 1 /\ i \in 1..n
      <4>1. q2[k][j] = p
        BY <1>1, <2>2, <3>5
      <4>2. q2[k][i] = q[l][i] /\ q[l][i] # p
        BY <1>0, <1>1, <1>2, <2>2, <3>5
      <4>q. QED
        BY <4>1, <4>2
    <3>q. QED
      BY <3>2, <3>3, <3>4, <3>5
  <2>q. QED
    BY <2>1, <2>2
<1>5. \A t \in Task : link2[t] =>
        r2[t] \in Level /\ \E i \in 1..Len(q2[r2[t]]) : q2[r2[t]][i] = t
  <2> SUFFICES ASSUME NEW t \in Task, link2[t]
               PROVE  r2[t] \in Level /\ \E i \in 1..Len(q2[r2[t]]) : q2[r2[t]][i] = t
    OBVIOUS
  <2>1. CASE t = p
    <3>1. n + 1 \in 1..(n + 1)
      BY <1>0
    <3>q. QED
      BY <1>1, <2>1, <3>1
  <2>2. CASE t # p
    <3>1. link[t] /\ r2[t] = r[t]
      BY <2>2
    <3>2. PICK i \in 1..Len(q[r[t]]) : q[r[t]][i] = t
      BY <3>1 DEF QueueOK
    <3>3. r[t] \in Level
      BY <3>1 DEF QueueOK
    <3>4. CASE r[t] = l
      <4>1. i \in 1..n /\ i \in 1..(n + 1)
        BY <1>0, <3>4
      <4>2. q2[l][i] = t
        BY <1>1, <3>2, <3>4, <4>1
      <4>3. r2[t] = l /\ i \in 1..Len(q2[l])
        BY <1>1, <3>1, <3>4, <4>1
      <4>q. QED
        BY <4>2, <4>3
    <3>5. CASE r[t] # l
      <4>1. q2[r[t]] = q[r[t]]
        BY <1>1, <3>3, <3>5
      <4>q. QED
        BY <3>1, <3>2, <3>3, <4>1
    <3>q. QED
      BY <3>4, <3>5
  <2>q. QED
    BY <2>1, <2>2
<1>q. QED
  BY <1>3, <1>4, <1>5 DEF QueueOK, q2

\* RR_dequeue of the process that pick_next has found: the head of a queue.
LEMMA QueuePop ==
    ASSUME NEW q \in [Level -> Seq(Task)], NEW link \in [Proc -> BOOLEAN],
           NEW r \in [Proc -> Level \cup {0}], NEW l \in Level,
           QueueOK(q, link, r), q[l] # <<>>
    PROVE  /\ Head(q[l]) \in Task /\ link[Head(q[l])] /\ r[Head(q[l])] = l
           /\ [q EXCEPT ![l] = Tail(@)] \in [Level -> Seq(Task)]
           /\ QueueOK([q EXCEPT ![l] = Tail(@)], [link EXCEPT ![Head(q[l])] = FALSE], r)
<1> DEFINE q2 == [q EXCEPT ![l] = Tail(@)]
           h == Head(q[l])
           link2 == [link EXCEPT ![h] = FALSE]
           n == Len(q[l])
<1>1. /\ n \in Nat \ {0} /\ h = q[l][1] /\ h \in Task /\ 1 \in 1..n
      /\ Tail(q[l]) \in Seq(Task)
  OBVIOUS
<1>2. /\ \A k \in Level \ {l} : q2[k] = q[k]
      /\ q2[l] = Tail(q[l]) /\ Len(q2[l]) = n - 1
      /\ \A i \in 1..(n - 1) : q2[l][i] = q[l][i + 1]
  BY <1>1
<1>3. q2 \in [Level -> Seq(Task)]
  BY <1>1
<1>4. link[h] /\ r[h] = l
  BY <1>1 DEF QueueOK
<1>5. \A k \in Level : \A i \in 1..Len(q[k]) : q[k][i] = h => k = l /\ i = 1
  <2> HIDE DEF h, n
  <2> SUFFICES ASSUME NEW k \in Level, NEW i \in 1..Len(q[k]), q[k][i] = h
               PROVE  k = l /\ i = 1
    OBVIOUS
  <2>1. r[h] = k
    BY DEF QueueOK
  <2>2. k = l
    BY <1>4, <2>1
  <2>3. n = Len(q[l])
    BY DEF n
  <2>q. QED
    BY <1>1, <2>2, <2>3 DEF QueueOK
<1>6. \A k \in Level : \A i \in 1..Len(q[k]) : q[k][i] \in Task
  OBVIOUS
<1>0. n = Len(q[l])
  OBVIOUS
<1>n. n \in Nat \ {0}
  BY <1>1
<1> HIDE DEF q2, h, n
<1>7. \A k \in Level : \A i \in 1..Len(q2[k]) : link2[q2[k][i]] /\ r[q2[k][i]] = k
  <2> TAKE k \in Level
  <2> TAKE i \in 1..Len(q2[k])
  <2>1. CASE k # l
    <3>1. q2[k] = q[k]
      BY <1>2, <2>1
    <3>2. q[k][i] \in Task \ {h} /\ link[q[k][i]] /\ r[q[k][i]] = k
      BY <1>5, <1>6, <2>1, <3>1 DEF QueueOK
    <3>q. QED
      BY <3>1, <3>2
  <2>2. CASE k = l
    <3>1. i \in 1..(n - 1)
      BY <1>2, <2>2
    <3>2. q2[l][i] = q[l][i + 1]
      BY <1>2, <3>1
    <3>3. i + 1 \in 1..n /\ i + 1 # 1
      BY <1>n, <3>1, Shift, Zenon
    <3>4. q[l][i + 1] \in Task \ {h} /\ link[q[l][i + 1]] /\ r[q[l][i + 1]] = l
      BY <1>0, <1>5, <1>6, <3>3 DEF QueueOK
    <3>q. QED
      BY <2>2, <3>2, <3>4
  <2>q. QED
    BY <2>1, <2>2
<1>8. \A k \in Level : \A i, j \in 1..Len(q2[k]) : q2[k][i] = q2[k][j] => i = j
  <2> SUFFICES ASSUME NEW k \in Level, NEW i \in 1..Len(q2[k]), NEW j \in 1..Len(q2[k]),
                      q2[k][i] = q2[k][j]
               PROVE  i = j
    OBVIOUS
  <2>1. CASE k # l
    <3>1. q2[k] = q[k]
      BY <1>2, <2>1
    <3>q. QED
      BY <3>1 DEF QueueOK
  <2>2. CASE k = l
    <3>1. i \in 1..(n - 1) /\ j \in 1..(n - 1)
      BY <1>2, <2>2
    <3>2. i + 1 \in 1..n /\ j + 1 \in 1..n
      BY <1>n, <3>1, Shift, Zenon
    <3>3. q[l][i + 1] = q[l][j + 1]
      BY <1>2, <2>2, <3>1
    <3>4. i + 1 = j + 1
      BY <1>0, <3>2, <3>3 DEF QueueOK
    <3>q. QED
      BY <3>1, <3>4
  <2>q. QED
    BY <2>1, <2>2
<1>9. \A t \in Task : link2[t] =>
        r[t] \in Level /\ \E i \in 1..Len(q2[r[t]]) : q2[r[t]][i] = t
  <2> SUFFICES ASSUME NEW t \in Task, link2[t]
               PROVE  r[t] \in Level /\ \E i \in 1..Len(q2[r[t]]) : q2[r[t]][i] = t
    OBVIOUS
  <2>1. link[t] /\ t # h
    BY <1>1
  <2>2. r[t] \in Level
    BY <2>1 DEF QueueOK
  <2>3. PICK i \in 1..Len(q[r[t]]) : q[r[t]][i] = t
    BY <2>1 DEF QueueOK
  <2>4. CASE r[t] # l
    <3>1. q2[r[t]] = q[r[t]]
      BY <1>2, <2>2, <2>4
    <3>q. QED
      BY <2>2, <2>3, <3>1
  <2>5. CASE r[t] = l
    <3>1. i \in 1..n /\ i # 1
      BY <1>0, <1>1, <2>1, <2>3, <2>5
    <3>2. i - 1 \in 1..(n - 1) /\ (i - 1) + 1 = i
      BY <1>n, <3>1, Shift, Zenon
    <3>3. q2[l][i - 1] = t
      BY <1>2, <2>3, <2>5, <3>2
    <3>q. QED
      BY <1>2, <2>2, <2>5, <3>2, <3>3
  <2>q. QED
    BY <2>4, <2>5
<1>q. QED
  BY <1>1, <1>3, <1>4, <1>7, <1>8, <1>9 DEF QueueOK, q2, h

-----------------------------------------------------------------------------
(* Levels and slices.                                                      *)

\* MLFQ_pick_next finds a first queue among the ones that are not empty.
LEMMA TopLevelExists ==
    ASSUME NEW q, NonEmpty(q) # {}
    PROVE  TopLevel(q) \in Level /\ q[TopLevel(q)] # <<>>
<1>1. NonEmpty(q) \subseteq Nat
  BY DEF NonEmpty
<1>2. \E l \in NonEmpty(q) : \A k \in NonEmpty(q) : l <= k
  BY <1>1, LeastNat
<1>3. TopLevel(q) \in NonEmpty(q)
  BY <1>2, Zenon DEF TopLevel
<1>q. QED
  BY <1>3 DEF NonEmpty

\* MLFQ_enqueue chooses one of the queues.
LEMMA TargetLevelOK ==
    ASSUME TypeOK, NEW p \in Proc
    PROVE  TargetLevel(p) \in Level
BY DEF TypeOK, TargetLevel

\* RR_enqueue leaves a slice between one tick and what the queue allows.
LEMMA SliceAtOK ==
    ASSUME NEW l \in Level, NEW s \in Nat
    PROVE  SliceAt(l, s) \in 1..MaxSlice[l] /\ SliceAt(l, s) \in Nat \ {0}
<1>1. MaxSlice[l] \in Nat \ {0}
  OBVIOUS
<1>q. QED
  BY <1>1 DEF SliceAt

\* A queue stays a queue of processes.
LEMMA AppendType ==
    ASSUME NEW q \in [Level -> Seq(Task)], NEW l \in Level, NEW p \in Task
    PROVE  [q EXCEPT ![l] = Append(@, p)] \in [Level -> Seq(Task)]
OBVIOUS

\* do_wait's reaping: the rq field of a process that is in no queue does not
\* matter.
LEMMA QueueForget ==
    ASSUME NEW q \in [Level -> Seq(Task)], NEW link \in [Proc -> BOOLEAN],
           NEW r \in [Proc -> Level \cup {0}], NEW p \in Task, NEW l,
           QueueOK(q, link, r), ~link[p]
    PROVE  QueueOK(q, link, [r EXCEPT ![p] = l])
<1> DEFINE r2 == [r EXCEPT ![p] = l]
<1>1. \A k \in Level : \A i \in 1..Len(q[k]) : q[k][i] # p /\ q[k][i] \in Task
  BY DEF QueueOK
<1>2. \A t \in Task : t # p => r2[t] = r[t]
  OBVIOUS
<1> HIDE DEF r2
<1>q. QED
  BY <1>1, <1>2 DEF QueueOK, r2

-----------------------------------------------------------------------------
(* One lemma per action: it preserves SInv, conjunct by conjunct.          *)

\* kern_enter changes nothing but who is in the kernel: the one who enters
\* runs a runnable process with a slice left, which is all it needs.
LEMMA Step_kern_enter ==
    ASSUME SInv, NEW c \in CPU, kern_enter(c)
    PROVE  SInv'
<1> USE DEF SInv
<1>1. TypeOK'
  BY DEF kern_enter, TypeOK
<1>2. RunnableOnce'
  BY DEF kern_enter, TypeOK, RunnableOnce, Running
<1>3. OnCpuIsAlive'
  BY DEF kern_enter, TypeOK, RunnableOnce, OnCpuIsAlive, Running
<1>4. QueuesMatchLinks'
  BY DEF kern_enter, QueuesMatchLinks
<1>5. SliceLeft'
  BY DEF kern_enter, TypeOK, SliceLeft, OnCpuIsAlive, RunnableOnce, Running
<1>6. WaitStateMatches'
  BY DEF kern_enter, TypeOK, WaitStateMatches
<1>7. /\ (\A d \in CPU : state[d] = "RUNNABLE")'
      /\ (\A d \in CPU : current[d] \in Task /\ time_slice[current[d]] = 0
                        => need_resched[current[d]])'
  BY DEF kern_enter, TypeOK
<1>q. QED
  BY <1>1, <1>2, <1>3, <1>4, <1>5, <1>6, <1>7

\* trap's return to user mode happens only with the slice not used up.
LEMMA Step_kern_leave ==
    ASSUME SInv, NEW c \in CPU, kern_leave(c)
    PROVE  SInv'
<1> USE DEF SInv
<1>1. TypeOK'
  BY DEF kern_leave, TypeOK
<1>2. RunnableOnce'
  BY DEF kern_leave, TypeOK, RunnableOnce, Running
<1>3. OnCpuIsAlive'
  BY DEF kern_leave, TypeOK, RunnableOnce, OnCpuIsAlive, Running
<1>4. QueuesMatchLinks'
  BY DEF kern_leave, QueuesMatchLinks
<1>5. SliceLeft'
  BY DEF kern_leave, TypeOK, SliceLeft, OnCpuIsAlive, RunnableOnce, Running
<1>6. WaitStateMatches'
  BY DEF kern_leave, TypeOK, WaitStateMatches
<1>7. /\ (\A d \in CPU : state[d] = "RUNNABLE")'
      /\ (\A d \in CPU : current[d] \in Task /\ time_slice[current[d]] = 0
                        => need_resched[current[d]])'
  BY DEF kern_leave, TypeOK
<1>q. QED
  BY <1>1, <1>2, <1>3, <1>4, <1>5, <1>6, <1>7

\* do_yield only asks for a schedule.
LEMMA Step_do_yield ==
    ASSUME SInv, NEW c \in CPU, do_yield(c)
    PROVE  SInv'
<1> USE DEF SInv
<1>1. TypeOK'
  BY DEF do_yield, TypeOK
<1>2. RunnableOnce'
  BY DEF do_yield, TypeOK, RunnableOnce, Running
<1>3. OnCpuIsAlive'
  BY DEF do_yield, TypeOK, RunnableOnce, OnCpuIsAlive, Running
<1>4. QueuesMatchLinks'
  BY DEF do_yield, QueuesMatchLinks
<1>5. SliceLeft'
  BY DEF do_yield, TypeOK, SliceLeft, OnCpuIsAlive, RunnableOnce, Running
<1>6. WaitStateMatches'
  BY DEF do_yield, TypeOK, WaitStateMatches
<1>7. /\ (\A d \in CPU : state[d] = "RUNNABLE")'
      /\ (\A d \in CPU : current[d] \in Task /\ time_slice[current[d]] = 0
                        => need_resched[current[d]])'
  BY DEF do_yield, TypeOK
<1>q. QED
  BY <1>1, <1>2, <1>3, <1>4, <1>5, <1>6, <1>7

\* __do_exit turns the process of the CPU in the kernel into a zombie.
LEMMA Step_do_exit ==
    ASSUME SInv, NEW c \in CPU, do_exit(c)
    PROVE  SInv'
<1> USE DEF SInv
<1>1. TypeOK'
  BY DEF do_exit, TypeOK
<1>2. RunnableOnce'
  BY DEF do_exit, TypeOK, RunnableOnce, Running
<1>3. OnCpuIsAlive'
  BY DEF do_exit, TypeOK, RunnableOnce, OnCpuIsAlive, Running
<1>4. QueuesMatchLinks'
  BY DEF do_exit, QueuesMatchLinks
<1>5. SliceLeft'
  BY DEF do_exit, TypeOK, SliceLeft, OnCpuIsAlive, RunnableOnce, Running
<1>6. WaitStateMatches'
  BY DEF do_exit, TypeOK, WaitStateMatches
<1>7. /\ (\A d \in CPU : state[d] = "RUNNABLE")'
      /\ (\A d \in CPU : current[d] \in Task /\ time_slice[current[d]] = 0
                        => need_resched[current[d]])'
  BY DEF do_exit, TypeOK
<1>q. QED
  BY <1>1, <1>2, <1>3, <1>4, <1>5, <1>6, <1>7

\* Going to sleep sets the state and its reason together.
LEMMA Step_sleep ==
    ASSUME SInv, NEW c \in CPU, NEW w \in {"int", "unint"}, sleep(c, w)
    PROVE  SInv'
<1> USE DEF SInv
<1>1. TypeOK'
  BY DEF sleep, TypeOK
<1>2. RunnableOnce'
  BY DEF sleep, TypeOK, RunnableOnce, Running
<1>3. OnCpuIsAlive'
  BY DEF sleep, TypeOK, RunnableOnce, OnCpuIsAlive, Running
<1>4. QueuesMatchLinks'
  BY DEF sleep, QueuesMatchLinks
<1>5. SliceLeft'
  BY DEF sleep, TypeOK, SliceLeft, OnCpuIsAlive, RunnableOnce, Running
<1>6. WaitStateMatches'
  BY DEF sleep, TypeOK, WaitStateMatches
<1>7. /\ (\A d \in CPU : state[d] = "RUNNABLE")'
      /\ (\A d \in CPU : current[d] \in Task /\ time_slice[current[d]] = 0
                        => need_resched[current[d]])'
  BY DEF sleep, TypeOK
<1>q. QED
  BY <1>1, <1>2, <1>3, <1>4, <1>5, <1>6, <1>7

\* A fork that fails leaves the parent at least one tick if it had one.
LEMMA Step_fork_fails ==
    ASSUME SInv, NEW c \in CPU, fork_fails(c)
    PROVE  SInv'
<1> USE DEF SInv
<1>1. TypeOK'
  <2>1. /\ current[c] \in Proc
        /\ time_slice[current[c]] - time_slice[current[c]] \div 2 \in Nat
    BY DEF TypeOK
  <2>2. time_slice' \in [Proc -> Nat]
    BY <2>1 DEF fork_fails, TypeOK
  <2>q. QED
    BY <2>2 DEF fork_fails, TypeOK
<1>2. RunnableOnce'
  BY DEF fork_fails, TypeOK, RunnableOnce, Running
<1>3. OnCpuIsAlive'
  BY DEF fork_fails, TypeOK, RunnableOnce, OnCpuIsAlive, Running
<1>4. QueuesMatchLinks'
  BY DEF fork_fails, QueuesMatchLinks
<1>5. SliceLeft'
  BY DEF fork_fails, TypeOK, SliceLeft, OnCpuIsAlive, RunnableOnce, Running
<1>6. WaitStateMatches'
  BY DEF fork_fails, TypeOK, WaitStateMatches
<1>7. /\ (\A d \in CPU : state[d] = "RUNNABLE")'
      /\ (\A d \in CPU : current[d] \in Task /\ time_slice[current[d]] = 0
                        => need_resched[current[d]])'
  BY DEF fork_fails, TypeOK
<1>q. QED
  BY <1>1, <1>2, <1>3, <1>4, <1>5, <1>6, <1>7

\* RR_proc_tick sets need_resched with the tick that uses up the slice.
LEMMA Step_proc_tick ==
    ASSUME SInv, NEW c \in CPU, proc_tick(c)
    PROVE  SInv'
<1> USE DEF SInv
<1>1. TypeOK'
  <2> DEFINE p == current[c]
             s == IF time_slice[p] > 0 THEN time_slice[p] - 1 ELSE 0
  <2>1. p \in Proc /\ s \in Nat
    BY DEF TypeOK
  <2>2. time_slice' \in [Proc -> Nat]
    <3>1. time_slice' = time_slice \/ time_slice' = [time_slice EXCEPT ![p] = s]
      BY DEF proc_tick
    <3> HIDE DEF p, s
    <3>q. QED
      BY <2>1, <3>1 DEF TypeOK
  <2>3. (need_resched[p] \/ s = 0) \in BOOLEAN
    OBVIOUS
  <2>4. need_resched' = [need_resched EXCEPT ![p] = TRUE]
        \/ need_resched' = [need_resched EXCEPT ![p] = @ \/ s = 0]
    BY DEF proc_tick
  <2> HIDE DEF p, s
  <2>5. need_resched' \in [Proc -> BOOLEAN]
    BY <2>1, <2>3, <2>4, Zenon DEF TypeOK
  <2>q. QED
    BY <2>2, <2>5 DEF proc_tick, TypeOK
<1>2. RunnableOnce'
  BY DEF proc_tick, TypeOK, RunnableOnce, Running
<1>3. OnCpuIsAlive'
  BY DEF proc_tick, TypeOK, RunnableOnce, OnCpuIsAlive, Running
<1>4. QueuesMatchLinks'
  BY DEF proc_tick, QueuesMatchLinks
<1>5. SliceLeft'
  BY DEF proc_tick, TypeOK, SliceLeft, OnCpuIsAlive, RunnableOnce, Running
<1>6. WaitStateMatches'
  BY DEF proc_tick, TypeOK, WaitStateMatches
<1>7. /\ (\A d \in CPU : state[d] = "RUNNABLE")'
      /\ (\A d \in CPU : current[d] \in Task /\ time_slice[current[d]] = 0
                        => need_resched[current[d]])'
  <2> DEFINE p == current[c]
             s == IF time_slice[p] > 0 THEN time_slice[p] - 1 ELSE 0
  <2>1. \A d \in CPU : d # c => current[d] # p
    BY DEF RunnableOnce
  <2>2. p \in CPU => time_slice' = time_slice /\ p \notin Task
    BY DEF proc_tick
  <2>3. p \notin CPU => time_slice'[p] = s /\ (s = 0 => need_resched'[p])
    <3>1. p \notin CPU => need_resched' = [need_resched EXCEPT ![p] = @ \/ s = 0]
      BY DEF proc_tick
    <3>2. p \in Proc /\ need_resched \in [Proc -> BOOLEAN]
      BY DEF TypeOK
    <3>3. p \notin CPU => need_resched'[p] = (need_resched[p] \/ s = 0)
      BY <3>1, <3>2, Zenon
    <3>4. p \notin CPU => time_slice'[p] = s
      BY <3>2 DEF proc_tick, TypeOK
    <3>q. QED
      BY <3>3, <3>4
  <2>4. \A r \in Proc : r # p => time_slice'[r] = time_slice[r]
                               /\ need_resched'[r] = need_resched[r]
    BY DEF proc_tick, TypeOK
  <2>5. current' = current /\ state' = state /\ current \in [CPU -> Proc]
    BY DEF proc_tick, TypeOK
  <2> HIDE DEF p, s
  <2>6. ASSUME NEW d \in CPU, current[d] \in Task, time_slice'[current[d]] = 0
        PROVE  need_resched'[current[d]]
    BY <2>1, <2>2, <2>3, <2>4, <2>5, <2>6 DEF p
  <2>q. QED
    BY <2>5, <2>6
<1>q. QED
  BY <1>1, <1>2, <1>3, <1>4, <1>5, <1>6, <1>7

\* do_wait frees a zombie, which no other CPU runs and no queue holds.
LEMMA Step_reap ==
    ASSUME SInv, NEW c \in CPU, NEW p \in Task, reap(c, p)
    PROVE  SInv'
<1> USE DEF SInv
<1>1. TypeOK'
  BY DEF reap, TypeOK
<1>2. RunnableOnce'
  BY DEF reap, TypeOK, RunnableOnce, Running
<1>3. OnCpuIsAlive'
  BY DEF reap, TypeOK, RunnableOnce, OnCpuIsAlive, Running
<1>4. QueuesMatchLinks'
  BY QueueForget DEF reap, TypeOK, RunnableOnce, QueuesMatchLinks
<1>5. SliceLeft'
  BY DEF reap, TypeOK, SliceLeft, OnCpuIsAlive, RunnableOnce, Running
<1>6. WaitStateMatches'
  BY DEF reap, TypeOK, WaitStateMatches
<1>7. /\ (\A d \in CPU : state[d] = "RUNNABLE")'
      /\ (\A d \in CPU : current[d] \in Task /\ time_slice[current[d]] = 0
                        => need_resched[current[d]])'
  BY DEF reap, TypeOK, OnCpuIsAlive
<1>q. QED
  BY <1>1, <1>2, <1>3, <1>4, <1>5, <1>6, <1>7

\* wakeup_proc queues a process unless it is the one that runs here.
LEMMA Step_wakeup_proc ==
    ASSUME SInv, NEW c \in CPU, NEW p \in Task, wakeup_proc(c, p)
    PROVE  SInv'
<1> USE DEF SInv
<1> DEFINE l == TargetLevel(p)
           s == SliceAt(l, time_slice[p])
<1>1. /\ state[p] = "SLEEPING" /\ ~run_link[p] /\ kern = c
      /\ \A d \in CPU : d # c => current[d] # p
  BY DEF wakeup_proc, RunnableOnce, OnCpuIsAlive
<1>2. l \in Level /\ time_slice[p] \in Nat
  BY TargetLevelOK DEF TypeOK
<1>3. s \in 1..MaxSlice[l] /\ s \in Nat \ {0}
  BY <1>2, SliceAtOK
<1>4. CASE p = current[c]
  <2>1. TypeOK'
    BY <1>4 DEF wakeup_proc, TypeOK
  <2>2. RunnableOnce'
    BY <1>1, <1>4 DEF wakeup_proc, TypeOK, RunnableOnce, Running
  <2>3. OnCpuIsAlive'
    BY <1>1, <1>4 DEF wakeup_proc, TypeOK, OnCpuIsAlive
  <2>4. QueuesMatchLinks'
    BY <1>4 DEF wakeup_proc, QueuesMatchLinks
  <2>5. SliceLeft'
    BY <1>4 DEF wakeup_proc, SliceLeft
  <2>6. WaitStateMatches'
    BY <1>4 DEF wakeup_proc, TypeOK, WaitStateMatches
  <2>7. /\ (\A d \in CPU : state[d] = "RUNNABLE")'
        /\ (\A d \in CPU : current[d] \in Task /\ time_slice[current[d]] = 0
                          => need_resched[current[d]])'
    BY <1>4 DEF wakeup_proc, TypeOK
  <2>q. QED
    BY <2>1, <2>2, <2>3, <2>4, <2>5, <2>6, <2>7
<1>5. CASE p # current[c]
  <2>0. /\ runq' = [runq EXCEPT ![l] = Append(@, p)]
        /\ rq' = [rq EXCEPT ![p] = l]
        /\ time_slice' = [time_slice EXCEPT ![p] = s]
        /\ run_link' = [run_link EXCEPT ![p] = TRUE]
        /\ state' = [state EXCEPT ![p] = "RUNNABLE"]
        /\ wait_state' = [wait_state EXCEPT ![p] = "0"]
        /\ UNCHANGED <<kern, current, need_resched>>
    BY <1>5 DEF wakeup_proc, EnqueueWith
  <2>a. \A d \in CPU : current[d] # p
    BY <1>1, <1>5
  <2> HIDE DEF l, s
  <2>1. TypeOK'
    BY <1>2, <1>3, <2>0, AppendType DEF TypeOK
  <2>2. RunnableOnce'
    BY <1>1, <2>0, <2>a DEF TypeOK, RunnableOnce, Running
  <2>3. OnCpuIsAlive'
    BY <2>0, <2>a DEF TypeOK, OnCpuIsAlive
  <2>4. QueuesMatchLinks'
    BY <1>1, <1>2, <2>0, QueueAppend DEF TypeOK, QueuesMatchLinks
  <2>5. SliceLeft'
    BY <1>2, <1>3, <2>0, <2>a DEF TypeOK, SliceLeft
  <2>6. WaitStateMatches'
    BY <2>0 DEF TypeOK, WaitStateMatches
  <2>7. /\ (\A d \in CPU : state[d] = "RUNNABLE")'
        /\ (\A d \in CPU : current[d] \in Task /\ time_slice[current[d]] = 0
                          => need_resched[current[d]])'
    BY <2>0, <2>a DEF TypeOK
  <2>q. QED
    BY <2>1, <2>2, <2>3, <2>4, <2>5, <2>6, <2>7
<1>q. QED
  BY <1>4, <1>5

\* The child is in no queue and has half of a slice that may be zero; the
\* parent keeps at least one tick if it had one.
LEMMA Step_do_fork ==
    ASSUME SInv, NEW c \in CPU, NEW p \in Task, do_fork(c, p)
    PROVE  SInv'
<1> USE DEF SInv
<1> DEFINE me == current[c]
           half == time_slice[me] \div 2
           s == SliceAt(1, half)
           rest == time_slice[me] - half
<1>1. /\ me \in Task /\ kern = c /\ state[me] = "RUNNABLE" /\ state[p] = "UNINIT"
      /\ me # p /\ ~run_link[p]
  BY DEF do_fork, RunnableOnce
<1>2. \A d \in CPU : current[d] # p
  BY DEF do_fork, OnCpuIsAlive
<1>3. time_slice[me] \in Nat
  BY <1>1 DEF TypeOK
<1>4. half \in Nat /\ rest \in Nat /\ (rest = 0 => time_slice[me] = 0)
  BY <1>3
<1>5. 1 \in Level
  OBVIOUS
<1>6. s \in 1..MaxSlice[1] /\ s \in Nat \ {0}
  BY <1>4, <1>5, SliceAtOK
<1>7. /\ time_slice' = [time_slice EXCEPT ![me] = rest, ![p] = s]
      /\ state' = [state EXCEPT ![p] = "RUNNABLE"]
      /\ runq' = [runq EXCEPT ![1] = Append(@, p)]
      /\ rq' = [rq EXCEPT ![p] = 1]
      /\ run_link' = [run_link EXCEPT ![p] = TRUE]
      /\ need_resched' = [need_resched EXCEPT ![p] = FALSE]
      /\ UNCHANGED <<kern, current, wait_state>>
  BY DEF do_fork
<1> HIDE DEF half, s, rest
<1>8. /\ time_slice' \in [Proc -> Nat]
      /\ time_slice'[me] = rest /\ time_slice'[p] = s
      /\ \A r \in Proc : r # me /\ r # p => time_slice'[r] = time_slice[r]
  BY <1>1, <1>4, <1>6, <1>7 DEF TypeOK
<1>9. \A d \in CPU : d # c => current[d] # me
  BY DEF RunnableOnce
<1>10. ~run_link[me]
  BY <1>1 DEF RunnableOnce, Running
<1>11. TypeOK'
  BY <1>5, <1>7, <1>8, AppendType DEF TypeOK
<1>12. RunnableOnce'
  BY <1>1, <1>2, <1>7 DEF TypeOK, RunnableOnce, Running
<1>13. OnCpuIsAlive'
  BY <1>2, <1>7 DEF TypeOK, OnCpuIsAlive
<1>14. QueuesMatchLinks'
  BY <1>1, <1>5, <1>7, QueueAppend DEF TypeOK, QueuesMatchLinks
<1>15. SliceLeft'
  <2>1. ASSUME NEW d \in CPU, kern' # d, current'[d] \in Task
        PROVE  time_slice'[current'[d]] > 0
    BY <1>1, <1>2, <1>7, <1>8, <1>9, <2>1 DEF TypeOK, SliceLeft
  <2>2. ASSUME NEW r \in Task, run_link'[r]
        PROVE  time_slice'[r] \in 1..MaxSlice[rq'[r]]
    <3>1. CASE r = p
      BY <1>6, <1>7, <1>8, <3>1 DEF TypeOK
    <3>2. CASE r # p
      <4>1. run_link[r] /\ rq'[r] = rq[r] /\ r # me
        BY <1>7, <1>10, <2>2, <3>2 DEF TypeOK
      <4>q. QED
        BY <1>8, <3>2, <4>1 DEF SliceLeft
    <3>q. QED
      BY <3>1, <3>2
  <2>q. QED
    BY <2>1, <2>2 DEF SliceLeft
<1>16. WaitStateMatches'
  BY <1>1, <1>7 DEF TypeOK, WaitStateMatches
<1>17. /\ (\A d \in CPU : state[d] = "RUNNABLE")'
       /\ (\A d \in CPU : current[d] \in Task /\ time_slice[current[d]] = 0
                         => need_resched[current[d]])'
  BY <1>1, <1>2, <1>4, <1>7, <1>8, <1>9 DEF TypeOK
<1>q. QED
  BY <1>11, <1>12, <1>13, <1>14, <1>15, <1>16, <1>17

\* schedule is two changes of the queues: the running process goes back if it
\* can go on (q1, link1, r1 and slice1 are the queues then), and the first of
\* what is there, if anything is, comes out.
LEMMA Step_schedule ==
    ASSUME SInv, NEW c \in CPU, schedule(c)
    PROVE  SInv'
<1> USE DEF SInv
<1> DEFINE p == current[c]
           again == state[p] = "RUNNABLE" /\ p \in Task
           to == TargetLevel(p)
           q1 == IF again THEN Requeued(p) ELSE runq
           link1 == [t \in Proc |-> run_link[t] \/ (again /\ t = p)]
           r1 == IF again THEN [rq EXCEPT ![p] = to] ELSE rq
           slice1 == IF again THEN [time_slice EXCEPT ![p] = SliceAt(to, @)]
                              ELSE time_slice
           l == TopLevel(q1)
           next == IF NonEmpty(q1) = {} THEN c ELSE Head(q1[l])
<1>1. /\ p \in Proc /\ kern = c /\ to \in Level /\ time_slice[p] \in Nat
      /\ p \in CPU => p = c
      /\ \A d \in CPU : d # c => current[d] # p
      /\ p \in Task => ~run_link[p]
  BY TargetLevelOK DEF schedule, TypeOK, RunnableOnce, Running
<1>2. SliceAt(to, time_slice[p]) \in 1..MaxSlice[to] /\ SliceAt(to, time_slice[p]) \in Nat
  BY <1>1, SliceAtOK
<1>3. /\ q1 \in [Level -> Seq(Task)] /\ link1 \in [Proc -> BOOLEAN]
      /\ r1 \in [Proc -> Level \cup {0}] /\ slice1 \in [Proc -> Nat]
      /\ QueueOK(q1, link1, r1)
  <2>1. CASE again
    <3>1. link1 = [run_link EXCEPT ![p] = TRUE]
      BY <2>1, ZenonT(30) DEF TypeOK
    <3>2. q1 = [runq EXCEPT ![to] = Append(@, p)] /\ r1 = [rq EXCEPT ![p] = to]
      BY <2>1 DEF Requeued
    <3>3. slice1 = [time_slice EXCEPT ![p] = SliceAt(to, time_slice[p])]
      BY <2>1
    <3> HIDE DEF link1, q1, r1, slice1, to
    <3>4. QueueOK(q1, link1, r1)
      BY <1>1, <2>1, <3>1, <3>2, QueueAppend DEF TypeOK, QueuesMatchLinks
    <3>5. q1 \in [Level -> Seq(Task)]
      BY <1>1, <2>1, <3>2, AppendType DEF TypeOK
    <3>q. QED
      BY <1>1, <1>2, <3>1, <3>2, <3>3, <3>4, <3>5 DEF TypeOK
  <2>2. CASE ~again
    <3>1. link1 = run_link /\ q1 = runq /\ r1 = rq /\ slice1 = time_slice
      BY <2>2 DEF TypeOK
    <3> HIDE DEF link1, q1, r1, slice1
    <3>q. QED
      BY <3>1 DEF TypeOK, QueuesMatchLinks
  <2>q. QED
    BY <2>1, <2>2
<1>4. \A t \in Task : link1[t] <=> state[t] = "RUNNABLE" /\ \A d \in CPU \ {c} : current[d] # t
  <2> TAKE t \in Task
  <2>1. CASE t = p
    <3>1. link1[t] <=> state[t] = "RUNNABLE"
      BY <1>1, <2>1
    <3>q. QED
      BY <1>1, <2>1, <3>1
  <2>2. CASE t # p
    <3>1. link1[t] = run_link[t]
      BY <2>2 DEF TypeOK
    <3>2. run_link[t] <=> state[t] = "RUNNABLE" /\ \A d \in CPU : current[d] # t
      BY DEF RunnableOnce, Running
    <3>q. QED
      BY <2>2, <3>1, <3>2
  <2>q. QED
    BY <2>1, <2>2
<1>5. \A t \in Task : link1[t] => slice1[t] \in 1..MaxSlice[r1[t]]
  BY <1>1, <1>2 DEF TypeOK, SliceLeft
<1>6. ~link1[c] /\ \A d \in CPU : ~link1[d]
  BY <1>1 DEF RunnableOnce
<1>7. \A t \in Proc : t # p => slice1[t] = time_slice[t]
  BY DEF TypeOK
<1>8. /\ need_resched' = [need_resched EXCEPT ![p] = FALSE]
      /\ runq' = IF next = c THEN q1 ELSE [q1 EXCEPT ![l] = Tail(@)]
      /\ rq' = r1 /\ time_slice' = slice1
      /\ current' = [current EXCEPT ![c] = next]
      /\ kern' = IF next = c THEN NoCpu ELSE c
      /\ state' = state /\ wait_state' = wait_state
  BY DEF schedule
<1>9. run_link' = [link1 EXCEPT ![next] = FALSE]
  BY DEF schedule
<1> HIDE DEF again, to, q1, link1, r1, slice1
<1>10. CASE NonEmpty(q1) = {}
  <2>1. next = c
    BY <1>10
  <2>2. run_link' = link1
    BY <1>3, <1>6, <1>9, <2>1
  <2>3. \A t \in Task : ~link1[t]
    <3>1. SUFFICES ASSUME NEW t \in Task, link1[t] PROVE FALSE
      OBVIOUS
    <3>2. PICK i \in 1..Len(q1[r1[t]]) : r1[t] \in Level /\ q1[r1[t]][i] = t
      BY <3>1, <1>3 DEF QueueOK
    <3>3. q1[r1[t]] = <<>>
      BY <1>10, <3>2 DEF NonEmpty
    <3>q. QED
      BY <3>2, <3>3
  <2>4. TypeOK'
    BY <1>1, <1>3, <1>8, <2>1, <2>2, SMTT(30) DEF TypeOK
  <2>5. RunnableOnce'
    BY <1>1, <1>4, <1>6, <1>8, <2>1, <2>2 DEF TypeOK, RunnableOnce, Running
  <2>6. OnCpuIsAlive'
    BY <1>1, <1>8, <2>1 DEF TypeOK, OnCpuIsAlive
  <2>7. QueuesMatchLinks'
    BY <1>3, <1>8, <2>1, <2>2 DEF QueuesMatchLinks
  <2>8. SliceLeft'
    BY <1>1, <1>7, <1>8, <2>1, <2>2, <2>3 DEF TypeOK, SliceLeft
  <2>9. WaitStateMatches'
    BY <1>8 DEF WaitStateMatches
  <2>10. /\ (\A d \in CPU : state[d] = "RUNNABLE")'
         /\ (\A d \in CPU : current[d] \in Task /\ time_slice[current[d]] = 0
                           => need_resched[current[d]])'
    BY <1>1, <1>7, <1>8, <2>1 DEF TypeOK
  <2>q. QED
    BY <2>4, <2>5, <2>6, <2>7, <2>8, <2>9, <2>10
<1>11. CASE NonEmpty(q1) # {}
  <2>1. l \in Level /\ q1[l] # <<>> /\ next = Head(q1[l])
    BY <1>11, TopLevelExists
  <2>2. /\ next \in Task /\ link1[next]
        /\ [q1 EXCEPT ![l] = Tail(@)] \in [Level -> Seq(Task)]
        /\ QueueOK([q1 EXCEPT ![l] = Tail(@)], [link1 EXCEPT ![next] = FALSE], r1)
    <3>1. /\ Head(q1[l]) \in Task /\ link1[Head(q1[l])]
          /\ [q1 EXCEPT ![l] = Tail(@)] \in [Level -> Seq(Task)]
          /\ QueueOK([q1 EXCEPT ![l] = Tail(@)], [link1 EXCEPT ![Head(q1[l])] = FALSE], r1)
      BY <1>3, <2>1, QueuePop
    <3> HIDE DEF next, l
    <3>q. QED
      BY <2>1, <3>1
  <2>3. /\ next # c /\ state[next] = "RUNNABLE"
        /\ \A d \in CPU \ {c} : current[d] # next
        /\ slice1[next] > 0 /\ slice1[next] # 0
    <3> HIDE DEF next, l
    <3>1. next # c
      BY <2>2
    <3>2. state[next] = "RUNNABLE" /\ \A d \in CPU \ {c} : current[d] # next
      BY <1>4, <2>2
    <3>3. slice1[next] > 0 /\ slice1[next] # 0
      <4>1. slice1[next] \in Nat /\ slice1[next] \in 1 .. MaxSlice[r1[next]]
        BY <1>3, <1>5, <2>2
      <4>2. \A k \in Nat : \A n : k \in 1 .. n => k > 0 /\ k # 0
        OBVIOUS
      <4>q. QED
        BY <4>1, <4>2, Zenon
    <3>q. QED
      BY <3>1, <3>2, <3>3
  <2>4. /\ run_link' \in [Proc -> BOOLEAN] /\ ~run_link'[next]
        /\ \A t \in Proc : t # next => run_link'[t] = link1[t]
    BY <1>3, <1>9, <2>2
  <2> HIDE DEF next, l
  <2>5. TypeOK'
    BY <1>1, <1>3, <1>8, <2>2, <2>3, <2>4 DEF TypeOK
  <2>6. current' \in [CPU -> Proc] /\ current'[c] = next
        /\ \A d \in CPU \ {c} : current'[d] = current[d]
    BY <1>8, <2>2 DEF TypeOK
  <2>7. RunnableOnce'
    <3>1. ASSUME NEW t \in Task
          PROVE  run_link'[t] <=> state'[t] = "RUNNABLE" /\ ~Running(t)'
      BY <1>4, <1>8, <2>2, <2>3, <2>4, <2>6 DEF Running
    <3>2. ASSUME NEW d \in CPU, NEW e \in CPU, current'[d] = current'[e]
          PROVE  d = e
      BY <2>3, <2>6, <3>2 DEF RunnableOnce
    <3>3. ASSUME NEW d \in CPU
          PROVE  ~run_link'[d] /\ (current'[d] \in CPU => current'[d] = d)
      BY <1>6, <2>2, <2>4, <2>6 DEF RunnableOnce
    <3>q. QED
      BY <3>1, <3>2, <3>3 DEF RunnableOnce
  <2>8. OnCpuIsAlive'
    BY <1>1, <1>8, <2>2, <2>3, <2>6, SMTT(30) DEF TypeOK, OnCpuIsAlive
  <2>9. QueuesMatchLinks'
    BY <1>8, <1>9, <2>2, <2>3 DEF QueuesMatchLinks
  <2>10. SliceLeft'
    <3>1. ASSUME NEW d \in CPU, kern' # d, current'[d] \in Task
          PROVE  time_slice'[current'[d]] > 0
      BY <1>1, <1>7, <1>8, <2>3, <2>6, <3>1 DEF SliceLeft
    <3>2. ASSUME NEW t \in Task, run_link'[t]
          PROVE  time_slice'[t] \in 1..MaxSlice[rq'[t]]
      BY <1>5, <1>8, <2>4, <3>2
    <3>q. QED
      BY <3>1, <3>2 DEF SliceLeft
  <2>11. WaitStateMatches'
    BY <1>8 DEF WaitStateMatches
  <2>12. /\ (\A d \in CPU : state[d] = "RUNNABLE")'
         /\ (\A d \in CPU : current[d] \in Task /\ time_slice[current[d]] = 0
                           => need_resched[current[d]])'
    <3>1. ASSUME NEW d \in CPU, current'[d] \in Task, time_slice'[current'[d]] = 0
          PROVE  need_resched'[current'[d]]
      <4>1. d # c /\ current'[d] = current[d] /\ current[d] # p
        BY <1>1, <1>8, <2>3, <2>6, <3>1
      <4>q. QED
        BY <1>7, <1>8, <3>1, <4>1 DEF TypeOK
    <3>q. QED
      BY <1>8, <3>1
  <2>q. QED
    BY <2>5, <2>7, <2>8, <2>9, <2>10, <2>11, <2>12
<1>q. QED
  BY <1>10, <1>11

-----------------------------------------------------------------------------
(* The theorems.                                                           *)

\* proc_init: every CPU idles and initproc is in the first queue.
LEMMA Initially == Init => SInv
<1> SUFFICES ASSUME Init PROVE SInv
  OBVIOUS
<1>1. /\ \A i \in Level : i = 1 => runq[i] = <<InitTask>> /\ Len(runq[i]) = 1
                                   /\ runq[i][1] = InitTask
      /\ \A i \in Level : i # 1 => runq[i] = <<>> /\ Len(runq[i]) = 0
  BY DEF Init
<1>2. runq \in [Level -> Seq(Task)]
  BY DEF Init
<1>3. MaxSlice[1] \in Nat \ {0}
  OBVIOUS
<1>4. TypeOK
  BY <1>2, <1>3 DEF Init, TypeOK
<1>5. RunnableOnce
  BY DEF Init, RunnableOnce, Running
<1>6. OnCpuIsAlive
  BY DEF Init, OnCpuIsAlive
<1>7. QueuesMatchLinks
  <2>1. \A i \in Level : \A k \in 1..Len(runq[i]) : i = 1 /\ k = 1 /\ runq[i][k] = InitTask
    <3> TAKE i \in Level
    <3> TAKE k \in 1..Len(runq[i])
    <3>1. i = 1
      BY <1>1
    <3>2. Len(runq[i]) = 1 /\ runq[i][1] = InitTask
      BY <1>1, <3>1
    <3>3. k = 1
      BY <3>2
    <3>q. QED
      BY <3>1, <3>2, <3>3
  <2>2. /\ \A t \in Task : run_link[t] => t = InitTask
        /\ rq[InitTask] = 1 /\ run_link[InitTask]
    BY DEF Init
  <2>3. 1 \in Level /\ 1 \in 1..Len(runq[1])
    BY <1>1
  <2>q. QED
    BY <1>1, <2>1, <2>2, <2>3 DEF QueuesMatchLinks, QueueOK
<1>8. SliceLeft
  <2>1. \A d \in CPU : current[d] \notin Task
    BY DEF Init
  <2>2. /\ \A t \in Task : run_link[t] => t = InitTask
        /\ rq[InitTask] = 1 /\ time_slice[InitTask] = MaxSlice[1]
    BY DEF Init
  <2>3. MaxSlice[1] \in 1..MaxSlice[1]
    BY <1>3
  <2>q. QED
    BY <2>1, <2>2, <2>3 DEF SliceLeft
<1>9. WaitStateMatches
  BY DEF Init, WaitStateMatches
<1>q. QED
  BY <1>4, <1>5, <1>6, <1>7, <1>8, <1>9 DEF Init, SInv

\* SInv holds of every state the scheduler reaches.
THEOREM Inductive == Spec => []SInv
<1>1. SInv /\ [Next]_vars => SInv'
  <2> SUFFICES ASSUME SInv, [Next]_vars PROVE SInv'
    OBVIOUS
  <2>1. CASE Next
    <3>1. PICK c \in CPU :
            \/ kern_enter(c) \/ kern_leave(c) \/ proc_tick(c) \/ schedule(c)
            \/ do_yield(c) \/ fork_fails(c) \/ do_exit(c)
            \/ \E w \in {"int", "unint"} : sleep(c, w)
            \/ \E p \in Task : wakeup_proc(c, p) \/ do_fork(c, p) \/ reap(c, p)
      BY <2>1 DEF Next
    <3>q. QED
      BY <3>1, Step_kern_enter, Step_kern_leave, Step_proc_tick, Step_schedule,
         Step_do_yield, Step_fork_fails, Step_do_exit, Step_sleep,
         Step_wakeup_proc, Step_do_fork, Step_reap
  <2>2. CASE UNCHANGED vars
    BY <2>2 DEF vars, SInv, TypeOK, RunnableOnce, Running, OnCpuIsAlive,
                QueuesMatchLinks, SliceLeft, WaitStateMatches
  <2>q. QED
    BY <2>1, <2>2
<1>q. QED
  BY Initially, <1>1, PTL DEF Spec

\* A process that can run is in one queue or on one CPU, never both, never
\* neither.
THEOREM NobodyLost == Spec => []RunnableOnce
<1>1. SInv => RunnableOnce
  BY DEF SInv
<1>q. QED
  BY <1>1, Inductive, PTL

\* A CPU outside the kernel runs a process that is runnable and alive, so no
\* reaping frees the stack a CPU stands on.
THEOREM NoStackFreed == Spec => []OnCpuIsAlive
<1>1. SInv => OnCpuIsAlive
  BY DEF SInv
<1>q. QED
  BY <1>1, Inductive, PTL

\* The run queues hold exactly the linked processes, each once, in the queue
\* that its rq field names.
THEOREM QueuesConsistent == Spec => []QueuesMatchLinks
<1>1. SInv => QueuesMatchLinks
  BY DEF SInv
<1>q. QED
  BY <1>1, Inductive, PTL

\* No process runs outside the kernel on a used-up slice.
THEOREM SliceRespected == Spec => []SliceLeft
<1>1. SInv => SliceLeft
  BY DEF SInv
<1>q. QED
  BY <1>1, Inductive, PTL
\* A CPU turns to its idle process only when the queues are empty, the process
\* it has just put back included.
THEOREM IdleIsLast == Spec => IdleOnlyWhenEmpty
<1> DEFINE Idles == \A c \in CPU : current'[c] = c /\ current[c] # c
                                    => \A l \in Level : runq'[l] = <<>>
<1>1. ASSUME SInv, NEW d \in CPU, schedule(d) PROVE Idles
  <2> DEFINE p == current[d]
             again == state[p] = "RUNNABLE" /\ p \in Task
             q == IF again THEN Requeued(p) ELSE runq
             next == IF NonEmpty(q) = {} THEN d ELSE Head(q[TopLevel(q)])
  <2>1. /\ runq' = (IF next = d THEN q ELSE [q EXCEPT ![TopLevel(q)] = Tail(@)])
        /\ current' = [current EXCEPT ![d] = next]
    BY <1>1 DEF schedule
  <2>2. q \in [Level -> Seq(Task)] /\ current \in [CPU -> Proc]
    <3>1. runq \in [Level -> Seq(Task)] /\ TargetLevel(p) \in Level /\ current \in [CPU -> Proc]
      BY <1>1, TargetLevelOK DEF SInv, TypeOK
    <3>2. again => Requeued(p) \in [Level -> Seq(Task)]
      BY <3>1, AppendType DEF Requeued
    <3>q. QED
      BY <3>1, <3>2
  <2> HIDE DEF q
  <2>3. NonEmpty(q) # {} => next \in Task
    <3>1. ASSUME NonEmpty(q) # {} PROVE next \in Task
      <4>1. TopLevel(q) \in Level /\ q[TopLevel(q)] # <<>>
        BY <3>1, TopLevelExists
      <4>2. q[TopLevel(q)] \in Seq(Task)
        BY <2>2, <4>1
      <4>3. Head(q[TopLevel(q)]) \in Task
        BY <4>1, <4>2
      <4>q. QED
        BY <3>1, <4>3
    <3>q. QED
      BY <3>1
  <2> HIDE DEF next
  <2>4. ASSUME NEW c \in CPU, current'[c] = c, current[c] # c
        PROVE  \A l \in Level : runq'[l] = <<>>
    <3>1. c = d /\ next = d
      BY <2>1, <2>2, <2>4
    <3>2. NonEmpty(q) = {}
      BY <2>3, <3>1
    <3>q. QED
      BY <2>1, <3>1, <3>2 DEF NonEmpty
  <2>q. QED
    BY <2>4
<1>2. ASSUME current' = current PROVE Idles
  BY <1>2
<1>3. SInv /\ [Next]_vars => [Idles]_vars
  <2> SUFFICES ASSUME SInv, Next PROVE Idles
    OBVIOUS
  <2>1. PICK c \in CPU :
            \/ kern_enter(c) \/ kern_leave(c) \/ proc_tick(c) \/ schedule(c)
            \/ do_yield(c) \/ fork_fails(c) \/ do_exit(c)
            \/ \E w \in {"int", "unint"} : sleep(c, w)
            \/ \E p \in Task : wakeup_proc(c, p) \/ do_fork(c, p) \/ reap(c, p)
    BY DEF Next
  <2>2. schedule(c) \/ current' = current
    BY <2>1, Zenon DEF kern_enter, kern_leave, proc_tick, do_yield, fork_fails, do_exit,
                       sleep, wakeup_proc, do_fork, reap
  <2> HIDE DEF Idles
  <2>q. QED
    BY <1>1, <1>2, <2>2
<1>q. QED
  BY <1>3, Inductive, PTL DEF Spec, IdleOnlyWhenEmpty

HIDE SchedAssumption DEF Level, Proc, queueVars

-----------------------------------------------------------------------------
(* The sums of the deltas.                                                  *)

IsSums(d, l, e) ==
    d = [k \in 0 .. Len(l) |-> IF k = 0 THEN 0 ELSE d[k - 1] + e[l[k]]]

\* Sums is the function its definition asks for.
LEMMA SumsExist ==
    ASSUME NEW l \in Seq(Timer), NEW e \in [Timer -> Nat]
    PROVE  \E d : IsSums(d, l, e)
<1> DEFINE n == Len(l)
           G(f, k) == f[k] = IF k = 0 THEN 0 ELSE f[k - 1] + e[l[k]]
           S == {i \in 0 .. n : \E f \in [0 .. i -> Nat] : \A k \in 0 .. i : G(f, k)}
<1>1. n \in Nat /\ \A k \in 1 .. n : e[l[k]] \in Nat
  OBVIOUS
<1> HIDE DEF n
<1>2. 0 \in S
  <2> DEFINE g == [k \in 0 .. 0 |-> 0]
  <2>1. g \in [0 .. 0 -> Nat]
    OBVIOUS
  <2>2. \A k \in 0 .. 0 : G(g, k)
    OBVIOUS
  <2> HIDE DEF g
  <2>q. QED
    BY <1>1, <2>1, <2>2
<1>3. \A i \in 0 .. n - 1 : i \in S => i + 1 \in S
  <2> TAKE i \in 0 .. n - 1
  <2> HAVE i \in S
  <2>1. PICK f \in [0 .. i -> Nat] : \A k \in 0 .. i : G(f, k)
    OBVIOUS
  <2> DEFINE g == [k \in 0 .. i + 1 |-> IF k \in 0 .. i THEN f[k] ELSE f[i] + e[l[i + 1]]]
  <2>2. i \in 0 .. i /\ i + 1 \in 0 .. n /\ i + 1 \in 1 .. n /\ i \in Nat
    BY <1>1
  <2>3. f[i] + e[l[i + 1]] \in Nat
    BY <1>1, <2>2
  <2>4. g \in [0 .. i + 1 -> Nat]
    BY <2>2, <2>3
  <2>5. ASSUME NEW k \in 0 .. i + 1 PROVE G(g, k)
    <3>1. CASE k \in 0 .. i
      <4>1. g[k] = f[k] /\ (k # 0 => k - 1 \in 0 .. i /\ g[k - 1] = f[k - 1])
        BY <2>2, <3>1
      <4>q. QED
        BY <2>1, <3>1, <4>1
    <3>2. CASE k \notin 0 .. i
      <4>1. k = i + 1 /\ k # 0 /\ k - 1 = i
        BY <2>2, <3>2
      <4>2. g[k - 1] = f[i]
        BY <2>2, <4>1
      <4>3. g[k] = f[i] + e[l[i + 1]]
        BY <3>2
      <4>q. QED
        BY <4>1, <4>2, <4>3
    <3>q. QED
      BY <3>1, <3>2
  <2> HIDE DEF g
  <2>q. QED
    BY <2>2, <2>4, <2>5
<1>4. \A i \in 0 .. n : i \in S
  <2> HIDE DEF S
  <2>q. QED
    BY <1>1, <1>2, <1>3, Upwards
<1>5. PICK d \in [0 .. n -> Nat] : \A k \in 0 .. n : G(d, k)
  <2> HIDE DEF G
  <2>1. n \in 0 .. n
    BY <1>1
  <2>q. QED
    BY <1>4, <2>1
<1>6. IsSums(d, l, e)
  BY <1>5 DEF IsSums, n
<1>q. QED
  BY <1>6

\* What Sums is: each sum is the one before and a delta.
LEMMA SumsAre ==
    ASSUME NEW l \in Seq(Timer), NEW e \in [Timer -> Nat]
    PROVE  /\ Sums(l, e)[0] = 0
           /\ \A k \in 1 .. Len(l) : Sums(l, e)[k] = Sums(l, e)[k - 1] + e[l[k]]
           /\ \A k \in 0 .. Len(l) : Sums(l, e)[k] \in Nat
<1> DEFINE d == Sums(l, e)
           n == Len(l)
<1>1. d = CHOOSE w : IsSums(w, l, e)
  BY DEF Sums, IsSums
<1> HIDE DEF d
<1>2. IsSums(d, l, e)
  BY <1>1, SumsExist, Zenon
<1>3. n \in Nat /\ \A k \in 1 .. n : e[l[k]] \in Nat
  OBVIOUS
<1>4. d[0] = 0 /\ \A k \in 1 .. n : d[k] = d[k - 1] + e[l[k]]
  <2>1. 0 \in 0 .. n /\ \A k \in 1 .. n : k \in 0 .. n /\ k # 0
    BY <1>3
  <2>q. QED
    BY <1>2, <2>1 DEF IsSums
<1> HIDE DEF n
<1> DEFINE S == {k \in 0 .. n : d[k] \in Nat}
<1>5. 0 \in S
  BY <1>3, <1>4
<1>6. \A k \in 0 .. n - 1 : k \in S => k + 1 \in S
  <2> TAKE k \in 0 .. n - 1
  <2> HAVE k \in S
  <2>1. k + 1 \in 1 .. n /\ k + 1 \in 0 .. n /\ (k + 1) - 1 = k
    BY <1>3
  <2>2. d[k + 1] = d[k] + e[l[k + 1]] /\ e[l[k + 1]] \in Nat
    BY <1>3, <1>4, <2>1
  <2>q. QED
    BY <2>1, <2>2
<1>7. \A k \in 0 .. n : k \in S
  <2> HIDE DEF S
  <2>q. QED
    BY <1>3, <1>5, <1>6, Upwards
<1>q. QED
  BY <1>4, <1>7 DEF d, n

\* ... and no other function is like that.
LEMMA SumsUnique ==
    ASSUME NEW l \in Seq(Timer), NEW e \in [Timer -> Nat], NEW d, d[0] = 0,
           \A k \in 1 .. Len(l) : d[k] = d[k - 1] + e[l[k]]
    PROVE  \A k \in 0 .. Len(l) : Sums(l, e)[k] = d[k]
<1> DEFINE w == Sums(l, e)
           n == Len(l)
           S == {k \in 0 .. n : w[k] = d[k]}
<1>1. n \in Nat
  OBVIOUS
<1>2. w[0] = 0 /\ \A k \in 1 .. n : w[k] = w[k - 1] + e[l[k]]
  BY SumsAre
<1> HIDE DEF w, n
<1>3. 0 \in S
  BY <1>1, <1>2
<1>4. \A k \in 0 .. n - 1 : k \in S => k + 1 \in S
  <2> TAKE k \in 0 .. n - 1
  <2> HAVE k \in S
  <2>1. k + 1 \in 1 .. n /\ k + 1 \in 0 .. n /\ (k + 1) - 1 = k
    BY <1>1
  <2>2. w[k + 1] = w[k] + e[l[k + 1]] /\ d[k + 1] = d[k] + e[l[k + 1]]
    BY <1>2, <2>1 DEF n
  <2>q. QED
    BY <2>1, <2>2
<1>5. \A k \in 0 .. n : k \in S
  <2> HIDE DEF S
  <2>q. QED
    BY <1>1, <1>3, <1>4, Upwards
<1>q. QED
  BY <1>5 DEF w, n

\* The sums do not fall.
LEMMA SumsGrow ==
    ASSUME NEW l \in Seq(Timer), NEW e \in [Timer -> Nat],
           NEW j \in 0 .. Len(l), NEW i \in 0 .. j
    PROVE  Sums(l, e)[i] <= Sums(l, e)[j]
<1> DEFINE d == Sums(l, e)
           n == Len(l)
           S == {k \in 0 .. n : \A m \in 0 .. k : d[m] <= d[k]}
<1>1. n \in Nat
  OBVIOUS
<1>2. /\ \A k \in 1 .. n : d[k] = d[k - 1] + e[l[k]] /\ e[l[k]] \in Nat
      /\ \A k \in 0 .. n : d[k] \in Nat
  BY SumsAre
<1> HIDE DEF d, n
<1>3. 0 \in S
  BY <1>1, <1>2
<1>4. \A k \in 0 .. n - 1 : k \in S => k + 1 \in S
  <2> TAKE k \in 0 .. n - 1
  <2> HAVE k \in S
  <2>1. k + 1 \in 1 .. n /\ k + 1 \in 0 .. n /\ k \in 0 .. n /\ (k + 1) - 1 = k
    BY <1>1
  <2>2. d[k] <= d[k + 1] /\ d[k + 1] \in Nat /\ d[k] \in Nat
    BY <1>2, <2>1
  <2>3. ASSUME NEW m \in 0 .. k + 1 PROVE d[m] <= d[k + 1]
    <3>1. CASE m = k + 1
      BY <2>2, <3>1
    <3>2. CASE m # k + 1
      <4>1. m \in 0 .. k /\ m \in 0 .. n
        BY <1>1, <3>2
      <4>2. d[m] <= d[k] /\ d[m] \in Nat
        BY <1>2, <4>1
      <4>q. QED
        BY <2>2, <4>2
    <3>q. QED
      BY <3>1, <3>2
  <2>q. QED
    BY <2>1, <2>3
<1>5. \A k \in 0 .. n : k \in S
  <2> HIDE DEF S
  <2>q. QED
    BY <1>1, <1>3, <1>4, Upwards
<1>6. j \in S
  BY <1>5 DEF n
<1>q. QED
  BY <1>6 DEF d

-----------------------------------------------------------------------------
(* A list with its deltas, and the times left.                              *)

InOrder(l, e) ==
    /\ l \in Seq(Timer) /\ e \in [Timer -> Nat]
    /\ \A i, j \in 1 .. Len(l) : l[i] = l[j] => i = j
    /\ Len(l) > 0 => e[l[1]] >= 1

TimesLeft(l, e) ==
    [t \in Timer |-> IF \E i \in 1 .. Len(l) : l[i] = t
                     THEN Sums(l, e)[CHOOSE i \in 1 .. Len(l) : l[i] = t] ELSE 0]

\* The time left of the timers in the list and of the others
LEMMA TimesAre ==
    ASSUME NEW l, NEW e, InOrder(l, e)
    PROVE  /\ \A i \in 1 .. Len(l) : TimesLeft(l, e)[l[i]] = Sums(l, e)[i]
           /\ \A t \in Timer : (\A i \in 1 .. Len(l) : l[i] # t) => TimesLeft(l, e)[t] = 0
           /\ \A i \in 1 .. Len(l) : Sums(l, e)[i] \in Nat /\ Sums(l, e)[i] >= 1
<1>1. \A i \in 1 .. Len(l) : TimesLeft(l, e)[l[i]] = Sums(l, e)[i]
  <2> TAKE i \in 1 .. Len(l)
  <2>1. l[i] \in Timer /\ \A j \in 1 .. Len(l) : l[j] = l[i] => j = i
    BY DEF InOrder
  <2>2. (CHOOSE j \in 1 .. Len(l) : l[j] = l[i]) = i
    BY <2>1
  <2>q. QED
    BY <2>1, <2>2 DEF TimesLeft
<1>2. \A t \in Timer : (\A i \in 1 .. Len(l) : l[i] # t) => TimesLeft(l, e)[t] = 0
  BY DEF TimesLeft
<1>3. \A i \in 1 .. Len(l) : Sums(l, e)[i] \in Nat /\ Sums(l, e)[i] >= 1
  <2> TAKE i \in 1 .. Len(l)
  <2>1. l \in Seq(Timer) /\ e \in [Timer -> Nat] /\ Len(l) \in Nat
    BY DEF InOrder
  <2>2. i \in 0 .. Len(l) /\ 1 \in 1 .. Len(l) /\ 1 \in 0 .. i /\ 1 \in 0 .. Len(l) /\ 1 - 1 = 0 /\ Len(l) > 0
    BY <2>1
  <2>3. /\ Sums(l, e)[1] = Sums(l, e)[1 - 1] + e[l[1]] /\ Sums(l, e)[0] = 0
        /\ Sums(l, e)[i] \in Nat /\ Sums(l, e)[1] \in Nat
    BY <2>1, <2>2, SumsAre
  <2>4. e[l[1]] \in Nat /\ e[l[1]] >= 1
    BY <2>2 DEF InOrder
  <2>5. Sums(l, e)[1] <= Sums(l, e)[i]
    BY <2>1, <2>2, SumsGrow
  <2>6. Sums(l, e)[1] >= 1
    BY <2>2, <2>3, <2>4
  <2>q. QED
    BY <2>3, <2>5, <2>6
<1>q. QED
  BY <1>1, <1>2, <1>3

\* A timer that is not in the list has no time left.
LEMMA NoTimeLeft ==
    ASSUME NEW l, NEW e, InOrder(l, e), NEW t \in Timer, \A i \in 1 .. Len(l) : l[i] # t
    PROVE  TimesLeft(l, e)[t] = 0
  BY TimesAre

\* ... and a function that grows by the deltas gives the times left.
LEMMA TimesBySums ==
    ASSUME NEW l, NEW e, InOrder(l, e), NEW d, d[0] = 0,
           \A i \in 1 .. Len(l) : d[i] = d[i - 1] + e[l[i]]
    PROVE  \A i \in 1 .. Len(l) : TimesLeft(l, e)[l[i]] = d[i]
<1>1. l \in Seq(Timer) /\ e \in [Timer -> Nat] /\ Len(l) \in Nat
  BY DEF InOrder
<1>2. \A i \in 0 .. Len(l) : Sums(l, e)[i] = d[i]
  BY <1>1, SumsUnique
<1>3. \A i \in 1 .. Len(l) : TimesLeft(l, e)[l[i]] = Sums(l, e)[i]
  BY TimesAre
<1>4. \A i \in 1 .. Len(l) : i \in 0 .. Len(l)
  BY <1>1
<1>q. QED
  BY <1>2, <1>3, <1>4

\* What a list is after an element is put in it.
LEMMA PutAt ==
    ASSUME NEW S, NEW q \in Seq(S), NEW k \in 1 .. Len(q) + 1, NEW x \in S
    PROVE  /\ InsertAt(q, k, x) \in Seq(S)
           /\ Len(InsertAt(q, k, x)) = Len(q) + 1
           /\ \A i \in 1 .. Len(q) + 1 :
                InsertAt(q, k, x)[i] = IF i < k THEN q[i] ELSE IF i = k THEN x ELSE q[i - 1]
<1> DEFINE n == Len(q)
           a == SubSeq(q, 1, k - 1)
           b == SubSeq(q, k, n)
           ax == a \o <<x>>
<1>1. n \in Nat /\ k \in 1 .. n + 1
  OBVIOUS
<1>2. a \in Seq(S) /\ Len(a) = k - 1 /\ \A i \in 1 .. k - 1 : a[i] = q[i]
  OBVIOUS
<1>3. b \in Seq(S) /\ Len(b) = n + 1 - k /\ \A i \in 1 .. n + 1 - k : b[i] = q[k + i - 1]
  OBVIOUS
<1>4. InsertAt(q, k, x) = ax \o b
  BY DEF InsertAt
<1> HIDE DEF a, b, n
<1>5. /\ ax \in Seq(S) /\ Len(ax) = k
      /\ \A i \in 1 .. k : ax[i] = IF i < k THEN q[i] ELSE x
  BY <1>1, <1>2
<1> HIDE DEF ax
<1>6. /\ ax \o b \in Seq(S) /\ Len(ax \o b) = n + 1
      /\ \A i \in 1 .. n + 1 : (ax \o b)[i] = IF i <= k THEN ax[i] ELSE b[i - k]
  BY <1>1, <1>3, <1>5
<1>7. ASSUME NEW i \in 1 .. n + 1
      PROVE  (ax \o b)[i] = IF i < k THEN q[i] ELSE IF i = k THEN x ELSE q[i - 1]
  <2>1. CASE i <= k
    <3>1. i \in 1 .. k
      BY <1>1, <2>1
    <3>q. QED
      BY <1>1, <1>5, <1>6, <2>1, <3>1
  <2>2. CASE ~(i <= k)
    <3>1. i - k \in 1 .. n + 1 - k /\ k + (i - k) - 1 = i - 1
      BY <1>1, <2>2
    <3>2. b[i - k] = q[k + (i - k) - 1]
      BY <1>3, <3>1
    <3>q. QED
      BY <1>1, <1>6, <2>2, <3>1, <3>2
  <2>q. QED
    BY <2>1, <2>2
<1>q. QED
  BY <1>4, <1>6, <1>7 DEF n

\* The place that add_timer finds for n ticks, and the deltas it leaves
Walk(l, e, n) == Cardinality({i \in 1 .. Len(l) : Sums(l, e)[i] <= n})

Deltas(l, e, t, delta, k) ==
    [u \in Timer |-> CASE u = t -> delta
                       [] k < Len(l) /\ u = l[k + 1] -> e[u] - delta
                       [] OTHER -> e[u]]

\* add_timer keeps the list in order, arms the one timer, and leaves the time
\* of every other timer alone.
LEMMA AddTimes ==
    ASSUME NEW l, NEW e, InOrder(l, e), NEW t \in Timer, NEW n \in Nat \ {0},
           \A i \in 1 .. Len(l) : l[i] # t,
           NEW k, k = Walk(l, e, n),
           NEW l2, l2 = InsertAt(l, k + 1, t),
           NEW e2, e2 = Deltas(l, e, t, n - Sums(l, e)[k], k)
    PROVE  /\ InOrder(l2, e2)
           /\ TimesLeft(l2, e2) = [u \in Timer |-> IF u = t THEN n ELSE TimesLeft(l, e)[u]]
<1> DEFINE d == Sums(l, e)
           L == Len(l)
           S == {i \in 1 .. L : d[i] <= n}
<1>1. l \in Seq(Timer) /\ e \in [Timer -> Nat] /\ L \in Nat
  BY DEF InOrder
<1>2. /\ d[0] = 0
      /\ \A i \in 1 .. L : d[i] = d[i - 1] + e[l[i]]
      /\ \A i \in 0 .. L : d[i] \in Nat
  BY <1>1, SumsAre
<1>3. \A j \in 0 .. L : \A i \in 0 .. j : d[i] <= d[j]
  BY <1>1, SumsGrow
<1>4. /\ \A i \in 1 .. L : l[i] \in Timer /\ l[i] # t /\ e[l[i]] \in Nat
      /\ \A i, j \in 1 .. L : l[i] = l[j] => i = j
      /\ L > 0 => e[l[1]] >= 1
  BY <1>1 DEF InOrder
<1>5. k \in 0 .. L /\ S = 1 .. k
  <2>1. S \in SUBSET (1 .. L)
    OBVIOUS
  <2>2. ASSUME NEW i \in S, NEW j \in 1 .. L, j <= i PROVE j \in S
    <3>1. i \in 0 .. L /\ j \in 0 .. i /\ j \in 0 .. L
      BY <1>1, <2>2
    <3>2. d[j] <= d[i] /\ d[i] \in Nat /\ d[j] \in Nat /\ d[i] <= n
      BY <1>2, <1>3, <3>1
    <3> HIDE DEF d
    <3>q. QED
      BY <3>2
  <2>3. k = Cardinality(S)
    BY DEF Walk
  <2> HIDE DEF S
  <2>q. QED
    BY <1>1, <2>1, <2>2, <2>3, InitialSegment
<1>6. /\ l2 \in Seq(Timer) /\ Len(l2) = L + 1
      /\ \A i \in 1 .. L + 1 : l2[i] = IF i < k + 1 THEN l[i] ELSE IF i = k + 1 THEN t ELSE l[i - 1]
  <2>1. k + 1 \in 1 .. Len(l) + 1
    BY <1>1, <1>5
  <2> HIDE DEF d, S
  <2>2. PICK j \in 1 .. Len(l) + 1 : j = k + 1
    BY <2>1
  <2>3. /\ InsertAt(l, j, t) \in Seq(Timer) /\ Len(InsertAt(l, j, t)) = Len(l) + 1
        /\ \A i \in 1 .. Len(l) + 1 :
             InsertAt(l, j, t)[i] = IF i < j THEN l[i] ELSE IF i = j THEN t ELSE l[i - 1]
    BY <1>1, PutAt
  <2>q. QED
    BY <2>2, <2>3, Zenon DEF L
<1>7. /\ d[k] \in Nat /\ d[k] <= n
      /\ k < L => d[k + 1] \in Nat /\ d[k + 1] > n /\ d[k + 1] = d[k] + e[l[k + 1]]
  <2> HIDE DEF d, L
  <2>0. \A i \in 1 .. L : i \in S <=> d[i] <= n
    OBVIOUS
  <2> HIDE DEF S
  <2>1. /\ k \in 0 .. L /\ (k # 0 => k \in S /\ k \in 1 .. L)
        /\ k < L => k + 1 \in 1 .. L /\ k + 1 \notin S /\ k + 1 \in 0 .. L /\ (k + 1) - 1 = k
    BY <1>1, <1>5
  <2>2. d[k] <= n
    BY <1>2, <2>0, <2>1
  <2>3. k < L => ~(d[k + 1] <= n)
    BY <2>0, <2>1
  <2>q. QED
    BY <1>2, <2>1, <2>2, <2>3
<1>8. /\ e2[t] = n - d[k]
      /\ k < L => e2[l[k + 1]] = e[l[k + 1]] - (n - d[k])
      /\ \A i \in 1 .. L : i # k + 1 => e2[l[i]] = e[l[i]]
      /\ \A u \in Timer : u # t => e2[u] = e[u] \/ (k < L /\ u = l[k + 1])
  <2> HIDE DEF S
  <2> DEFINE x == n - d[k]
  <2>0. e2 = Deltas(l, e, t, x, k)
    OBVIOUS
  <2> HIDE DEF x, d
  <2>5. \A u \in Timer : e2[u] = CASE u = t -> x
                       [] k < Len(l) /\ u = l[k + 1] -> e[u] - x
                       [] OTHER -> e[u]
    BY <2>0, Zenon DEF Deltas
  <2>6. \A u \in Timer : /\ u = t => e2[u] = x
                         /\ u # t /\ k < L /\ u = l[k + 1] => e2[u] = e[u] - x
                         /\ u # t /\ ~(k < L /\ u = l[k + 1]) => e2[u] = e[u]
    <3> TAKE u \in Timer
    <3>0. ~(k < Len(l) /\ t = l[k + 1])
      BY <1>1, <1>4, <1>5
    <3>1. CASE u = t
      BY <2>5, <3>0, <3>1, Zenon
    <3>2. CASE u # t /\ k < L /\ u = l[k + 1]
      BY <2>5, <3>2, Zenon
    <3>3. CASE u # t /\ ~(k < L /\ u = l[k + 1])
      BY <2>5, <3>3, Zenon
    <3>q. QED
      BY <3>1, <3>2, <3>3, Zenon
  <2> HIDE DEF L
  <2>1. e2[t] = n - d[k]
    BY <2>6 DEF x
  <2>2. ASSUME k < L PROVE e2[l[k + 1]] = e[l[k + 1]] - (n - d[k])
    <3>1. k + 1 \in 1 .. L
      BY <1>1, <1>5, <2>2
    <3>2. l[k + 1] \in Timer /\ l[k + 1] # t
      BY <1>4, <3>1
    <3>q. QED
      BY <2>2, <2>6, <3>2 DEF x
  <2>3. \A u \in Timer : u # t /\ ~(k < L /\ u = l[k + 1]) => e2[u] = e[u]
    BY <2>6
  <2>4. ASSUME NEW i \in 1 .. L, i # k + 1 PROVE e2[l[i]] = e[l[i]]
    <3>1. k < L => k + 1 \in 1 .. L
      BY <1>1, <1>5
    <3>2. l[i] \in Timer /\ l[i] # t /\ ~(k < L /\ l[i] = l[k + 1])
      BY <1>4, <2>4, <3>1
    <3>q. QED
      BY <2>3, <3>2
  <2>q. QED
    BY <2>1, <2>2, <2>3, <2>4
<1> DEFINE d2 == [i \in 0 .. L + 1 |-> IF i <= k THEN d[i] ELSE IF i = k + 1 THEN n ELSE d[i - 1]]
<1>9. \A i \in 0 .. L + 1 : d2[i] = IF i <= k THEN d[i] ELSE IF i = k + 1 THEN n ELSE d[i - 1]
  OBVIOUS
<1>10. e2 \in [Timer -> Nat]
  <2> HIDE DEF d, L, S
  <2>1. e2 = [u \in Timer |-> e2[u]]
    BY DEF Deltas
  <2>2. ASSUME NEW u \in Timer PROVE e2[u] \in Nat
    <3>1. CASE u = t
      BY <1>7, <1>8, <3>1
    <3>2. CASE u # t /\ e2[u] = e[u]
      BY <1>1, <3>2
    <3>3. CASE k < L /\ u = l[k + 1]
      <4>0. e[l[k + 1]] \in Nat
        BY <1>1, <3>3
      <4>1. e[l[k + 1]] - (n - d[k]) \in Nat
        BY <1>7, <3>3, <4>0
      <4>q. QED
        BY <1>8, <3>3, <4>1
    <3>q. QED
      BY <1>8, <3>1, <3>2, <3>3
  <2>q. QED
    BY <2>1, <2>2
<1> HIDE DEF d, d2, L, S
<1>11. d2[0] = 0
  BY <1>1, <1>2, <1>5, <1>9
<1>12. ASSUME NEW i \in 1 .. L + 1 PROVE d2[i] = d2[i - 1] + e2[l2[i]]
  <2>1. i \in 0 .. L + 1 /\ i - 1 \in 0 .. L + 1
    BY <1>1
  <2>2. CASE i <= k
    <3>1. i \in 1 .. L /\ i # k + 1 /\ i - 1 <= k /\ i < k + 1
      BY <1>1, <1>5, <2>2
    <3>2. l2[i] = l[i] /\ d2[i] = d[i] /\ d2[i - 1] = d[i - 1]
      BY <1>6, <1>9, <2>1, <2>2, <3>1
    <3>q. QED
      BY <1>2, <1>8, <3>1, <3>2
  <2>3. CASE i = k + 1
    <3>1. ~(i <= k) /\ i - 1 <= k /\ i - 1 = k /\ ~(i < k + 1)
      BY <1>1, <1>5, <2>3
    <3>2. l2[i] = t /\ d2[i] = n /\ d2[i - 1] = d[k]
      BY <1>6, <1>9, <2>1, <2>3, <3>1
    <3>3. n = d[k] + (n - d[k])
      BY <1>7
    <3>q. QED
      BY <1>8, <3>2, <3>3
  <2>4. CASE i = k + 2
    <3>1. ~(i <= k) /\ i # k + 1 /\ ~(i - 1 <= k) /\ i - 1 = k + 1 /\ ~(i < k + 1) /\ k < L
      BY <1>1, <1>5, <2>4
    <3>2. l2[i] = l[k + 1] /\ d2[i] = d[k + 1] /\ d2[i - 1] = n
      BY <1>6, <1>9, <2>1, <3>1
    <3>3. k + 1 \in 1 .. L
      BY <1>1, <1>5, <3>1
    <3>4. d[k + 1] = n + (e[l[k + 1]] - (n - d[k]))
      BY <1>4, <1>7, <3>1, <3>3
    <3>q. QED
      BY <1>8, <3>1, <3>2, <3>4
  <2>5. CASE i > k + 2
    <3>1. /\ ~(i <= k) /\ i # k + 1 /\ ~(i - 1 <= k) /\ i - 1 # k + 1 /\ ~(i < k + 1)
          /\ i - 1 \in 1 .. L
      BY <1>1, <1>5, <2>5
    <3>2. l2[i] = l[i - 1] /\ d2[i] = d[i - 1] /\ d2[i - 1] = d[(i - 1) - 1]
      BY <1>6, <1>9, <2>1, <3>1
    <3>q. QED
      BY <1>2, <1>8, <3>1, <3>2
  <2>6. k \in Nat /\ i \in Nat
    BY <1>1, <1>5
  <2>7. i <= k \/ i = k + 1 \/ i = k + 2 \/ i > k + 2
    BY <2>6
  <2>q. QED
    BY <2>2, <2>3, <2>4, <2>5, <2>7, Zenon
<1>13. \A i, j \in 1 .. L + 1 : l2[i] = l2[j] => i = j
  <2> DEFINE pos(i) == IF i < k + 1 THEN i ELSE i - 1
  <2>1. ASSUME NEW i \in 1 .. L + 1, i # k + 1
        PROVE  pos(i) \in 1 .. L /\ l2[i] = l[pos(i)] /\ l2[i] # t
    <3>1. pos(i) \in 1 .. L
      BY <1>1, <1>5, <2>1
    <3>2. l2[i] = l[pos(i)]
      BY <1>6, <2>1
    <3> HIDE DEF pos
    <3>q. QED
      BY <1>4, <3>1, <3>2
  <2>2. l2[k + 1] = t /\ k + 1 \in 1 .. L + 1
    <3>1. k + 1 \in 1 .. L + 1 /\ ~(k + 1 < k + 1)
      BY <1>1, <1>5
    <3>q. QED
      BY <1>6, <3>1
  <2>3. \A i, j \in 1 .. L + 1 : i # k + 1 /\ j # k + 1 /\ pos(i) = pos(j) => i = j
    BY <1>1, <1>5
  <2> HIDE DEF pos
  <2>q. QED
    BY <1>4, <2>1, <2>2, <2>3
<1>14. e2[l2[1]] >= 1
  <2>1. CASE k = 0
    <3>0. 1 \in 1 .. L + 1 /\ ~(1 < k + 1) /\ 1 = k + 1
      BY <1>1, <2>1
    <3>1. l2[1] = t /\ d[k] = 0 /\ n - 0 = n
      BY <1>2, <1>6, <2>1, <3>0
    <3>q. QED
      BY <1>8, <3>1
  <2>2. CASE k # 0
    <3>1. 1 < k + 1 /\ 1 \in 1 .. L + 1 /\ 1 \in 1 .. L /\ 1 # k + 1 /\ L > 0
      BY <1>1, <1>5, <2>2
    <3>2. l2[1] = l[1] /\ e2[l[1]] = e[l[1]]
      BY <1>6, <1>8, <3>1
    <3>q. QED
      BY <1>4, <3>1, <3>2
  <2>q. QED
    BY <2>1, <2>2
<1>15. InOrder(l2, e2)
  BY <1>6, <1>10, <1>13, <1>14 DEF InOrder
<1>16. \A i \in 1 .. L + 1 : TimesLeft(l2, e2)[l2[i]] = d2[i]
  <2>1. \A i \in 1 .. Len(l2) : d2[i] = d2[i - 1] + e2[l2[i]]
    BY <1>6, <1>12
  <2>2. \A i \in 1 .. Len(l2) : TimesLeft(l2, e2)[l2[i]] = d2[i]
    BY <1>11, <1>15, <2>1, TimesBySums
  <2>q. QED
    BY <1>6, <2>2
<1>17. ASSUME NEW u \in Timer
       PROVE  TimesLeft(l2, e2)[u] = IF u = t THEN n ELSE TimesLeft(l, e)[u]
  <2>1. CASE u = t
    <3>1. k + 1 \in 1 .. L + 1 /\ k + 1 \in 0 .. L + 1 /\ ~(k + 1 <= k) /\ ~(k + 1 < k + 1)
      BY <1>1, <1>5
    <3>2. l2[k + 1] = t /\ d2[k + 1] = n
      BY <1>6, <1>9, <3>1
    <3>q. QED
      BY <1>16, <2>1, <3>1, <3>2
  <2>2. ASSUME u # t, NEW i \in 1 .. L, u = l[i] PROVE TimesLeft(l2, e2)[u] = TimesLeft(l, e)[u]
    <3>0. TimesLeft(l, e)[u] = d[i]
      BY <2>2, TimesAre DEF d, L
    <3>1. CASE i <= k
      <4>1. i \in 1 .. L + 1 /\ i \in 0 .. L + 1 /\ i < k + 1
        BY <1>1, <1>5, <3>1
      <4>2. l2[i] = l[i] /\ d2[i] = d[i]
        BY <1>6, <1>9, <3>1, <4>1
      <4>q. QED
        BY <1>16, <2>2, <3>0, <4>1, <4>2
    <3>2. CASE ~(i <= k)
      <4>1. /\ i + 1 \in 1 .. L + 1 /\ i + 1 \in 0 .. L + 1 /\ ~(i + 1 < k + 1) /\ i + 1 # k + 1
            /\ ~(i + 1 <= k) /\ (i + 1) - 1 = i
        BY <1>1, <1>5, <3>2
      <4>2. l2[i + 1] = l[i] /\ d2[i + 1] = d[i]
        BY <1>6, <1>9, <4>1
      <4>q. QED
        BY <1>16, <2>2, <3>0, <4>1, <4>2
    <3>q. QED
      BY <3>1, <3>2
  <2>3. ASSUME u # t, \A i \in 1 .. L : l[i] # u PROVE TimesLeft(l2, e2)[u] = TimesLeft(l, e)[u]
    <3>1. ASSUME NEW i \in 1 .. L + 1 PROVE l2[i] # u
      <4>1. i < k + 1 => i \in 1 .. L
        BY <1>1, <1>5
      <4>2. ~(i < k + 1) /\ i # k + 1 => i - 1 \in 1 .. L
        BY <1>1, <1>5
      <4>q. QED
        BY <1>6, <2>3, <4>1, <4>2
    <3>2. TimesLeft(l2, e2)[u] = 0
      BY <1>6, <1>15, <3>1, NoTimeLeft
    <3>3. TimesLeft(l, e)[u] = 0
      BY <2>3, NoTimeLeft DEF L
    <3>q. QED
      BY <3>2, <3>3
  <2>q. QED
    BY <2>1, <2>2, <2>3
<1>18. TimesLeft(l2, e2) = [u \in Timer |-> TimesLeft(l2, e2)[u]]
  BY DEF TimesLeft
<1>q. QED
  BY <1>15, <1>17, <1>18, Zenon

\* What is left of a list and its deltas when the k-th timer is unlinked
Unlinked(l, e, k, l2, e2) ==
    /\ l2 = RemoveAt(l, k)
    /\ e2 \in [Timer -> Nat]
    /\ \A u \in Timer : e2[u] = IF k < Len(l) /\ u = l[k + 1] THEN e[u] + e[l[k]] ELSE e[u]

\* del_timer keeps the list in order, and takes no time from any other timer.
LEMMA DelTimes ==
    ASSUME NEW l, NEW e, InOrder(l, e), NEW k \in 1 .. Len(l),
           NEW l2, NEW e2, Unlinked(l, e, k, l2, e2)
    PROVE  /\ InOrder(l2, e2)
           /\ TimesLeft(l2, e2) = [u \in Timer |-> IF u = l[k] THEN 0 ELSE TimesLeft(l, e)[u]]
<1> DEFINE d == Sums(l, e)
           L == Len(l)
           to(i) == IF i < k THEN i ELSE i + 1
<1>1. l \in Seq(Timer) /\ e \in [Timer -> Nat] /\ L \in Nat
  BY DEF InOrder
<1>2. /\ d[0] = 0
      /\ \A i \in 1 .. L : d[i] = d[i - 1] + e[l[i]]
      /\ \A i \in 0 .. L : d[i] \in Nat
  BY <1>1, SumsAre
<1>3. /\ \A i \in 1 .. L : l[i] \in Timer /\ e[l[i]] \in Nat
      /\ \A i, j \in 1 .. L : l[i] = l[j] => i = j
      /\ L > 0 => e[l[1]] >= 1
  BY <1>1 DEF InOrder
<1>4. /\ l2 \in Seq(Timer) /\ Len(l2) = L - 1
      /\ \A i \in 1 .. L - 1 : l2[i] = l[to(i)]
  <2> HIDE DEF d
  <2>1. /\ RemoveAt(l, k) \in Seq(Timer) /\ Len(RemoveAt(l, k)) = Len(l) - 1
        /\ \A i \in 1 .. (Len(l) - 1) : RemoveAt(l, k)[i] = IF i < k THEN l[i] ELSE l[i + 1]
    BY <1>1, CutAt
  <2>q. QED
    BY <2>1 DEF Unlinked
<1> HIDE DEF d, L
<1>5. k \in 1 .. L /\ L \in Nat \ {0} /\ L - 1 \in Nat
  BY <1>1 DEF L
<1>6. \A i \in 1 .. L - 1 : to(i) \in 1 .. L /\ to(i) # k
  BY <1>5
<1>7. /\ k < L => e2[l[k + 1]] = e[l[k + 1]] + e[l[k]]
      /\ \A i \in 1 .. L : i # k + 1 => e2[l[i]] = e[l[i]]
  <2>1. k < L => k + 1 \in 1 .. L
    BY <1>5
  <2>2. ASSUME NEW i \in 1 .. L, i # k + 1 PROVE e2[l[i]] = e[l[i]]
    <3>1. l[i] \in Timer /\ ~(k < L /\ l[i] = l[k + 1])
      BY <1>3, <2>1, <2>2
    <3>q. QED
      BY <3>1 DEF L, Unlinked
  <2>3. ASSUME k < L PROVE e2[l[k + 1]] = e[l[k + 1]] + e[l[k]]
    <3>1. l[k + 1] \in Timer
      BY <1>3, <2>1, <2>3
    <3>q. QED
      BY <2>3, <3>1 DEF L, Unlinked
  <2>q. QED
    BY <2>2, <2>3
<1> DEFINE d2 == [i \in 0 .. L - 1 |-> IF i < k THEN d[i] ELSE d[i + 1]]
<1>8. \A i \in 0 .. L - 1 : d2[i] = IF i < k THEN d[i] ELSE d[i + 1]
  OBVIOUS
<1> HIDE DEF d2
<1>9. d2[0] = 0
  BY <1>2, <1>5, <1>8
<1>10. ASSUME NEW i \in 1 .. L - 1 PROVE d2[i] = d2[i - 1] + e2[l2[i]]
  <2>1. i \in 0 .. L - 1 /\ i - 1 \in 0 .. L - 1
    BY <1>5
  <2>2. CASE i < k
    <3>1. i - 1 < k /\ i \in 1 .. L /\ i # k + 1
      BY <1>5, <2>2
    <3>2. l2[i] = l[i] /\ d2[i] = d[i] /\ d2[i - 1] = d[i - 1]
      BY <1>4, <1>8, <2>1, <2>2, <3>1
    <3>q. QED
      BY <1>2, <1>7, <3>1, <3>2
  <2>3. CASE i = k
    <3>1. /\ i - 1 < k /\ ~(i < k) /\ k < L /\ k + 1 \in 1 .. L /\ (k + 1) - 1 = k
          /\ k \in 1 .. L /\ k - 1 \in 0 .. L
      BY <1>5, <2>3
    <3>2. l2[i] = l[k + 1] /\ d2[i] = d[k + 1] /\ d2[i - 1] = d[k - 1]
      BY <1>4, <1>8, <2>1, <2>3, <3>1
    <3>3. d[k + 1] = d[k] + e[l[k + 1]] /\ d[k] = d[k - 1] + e[l[k]]
      BY <1>2, <3>1
    <3>4. d[k + 1] = d[k - 1] + (e[l[k + 1]] + e[l[k]])
      BY <1>2, <1>3, <3>1, <3>3
    <3>q. QED
      BY <1>7, <3>1, <3>2, <3>4
  <2>4. CASE i > k
    <3>1. /\ ~(i - 1 < k) /\ ~(i < k) /\ i + 1 \in 1 .. L /\ i + 1 # k + 1
          /\ (i - 1) + 1 = i /\ (i + 1) - 1 = i
      BY <1>5, <2>4
    <3>2. l2[i] = l[i + 1] /\ d2[i] = d[i + 1] /\ d2[i - 1] = d[i]
      BY <1>4, <1>8, <2>1, <3>1
    <3>3. d[i + 1] = d[i] + e[l[i + 1]]
      BY <1>2, <3>1
    <3>q. QED
      BY <1>7, <3>1, <3>2, <3>3
  <2>q. QED
    BY <1>5, <2>2, <2>3, <2>4
<1>11. \A i, j \in 1 .. L - 1 : l2[i] = l2[j] => i = j
  <2>1. \A i, j \in 1 .. L - 1 : to(i) = to(j) => i = j
    BY <1>5
  <2> HIDE DEF to
  <2>q. QED
    BY <1>3, <1>4, <1>6, <2>1
<1>12. ASSUME L - 1 > 0 PROVE e2[l2[1]] >= 1
  <2>0. 1 \in 1 .. L - 1 /\ L > 0 /\ 1 \in 1 .. L
    BY <1>5, <1>12
  <2>1. CASE k = 1
    <3>1. k < L /\ l2[1] = l[k + 1] /\ k + 1 \in 1 .. L
      BY <1>4, <1>5, <2>0, <2>1
    <3>2. e[l[k + 1]] + e[l[k]] >= 1
      BY <1>3, <2>0, <2>1, <3>1
    <3>q. QED
      BY <1>7, <3>1, <3>2
  <2>2. CASE k # 1
    <3>1. 1 < k /\ 1 # k + 1
      BY <1>5, <2>2
    <3>2. l2[1] = l[1] /\ e2[l[1]] = e[l[1]]
      BY <1>4, <1>7, <2>0, <3>1
    <3>q. QED
      BY <1>3, <2>0, <3>2
  <2>q. QED
    BY <2>1, <2>2
<1>13. InOrder(l2, e2)
  BY <1>4, <1>11, <1>12 DEF InOrder, Unlinked
<1>14. \A i \in 1 .. L - 1 : TimesLeft(l2, e2)[l2[i]] = d2[i]
  <2>1. \A i \in 1 .. Len(l2) : d2[i] = d2[i - 1] + e2[l2[i]]
    BY <1>4, <1>10
  <2>2. \A i \in 1 .. Len(l2) : TimesLeft(l2, e2)[l2[i]] = d2[i]
    BY <1>9, <1>13, <2>1, TimesBySums
  <2>q. QED
    BY <1>4, <2>2
<1>15. ASSUME NEW u \in Timer
       PROVE  TimesLeft(l2, e2)[u] = IF u = l[k] THEN 0 ELSE TimesLeft(l, e)[u]
  <2>1. ASSUME NEW i \in 1 .. L, u = l[i], u # l[k]
        PROVE  TimesLeft(l2, e2)[u] = TimesLeft(l, e)[u]
    <3>0. TimesLeft(l, e)[u] = d[i] /\ i # k
      BY <2>1, TimesAre DEF d, L
    <3>1. CASE i < k
      <4>1. i \in 1 .. L - 1 /\ i \in 0 .. L - 1
        BY <1>5, <3>1
      <4>2. l2[i] = l[i] /\ d2[i] = d[i]
        BY <1>4, <1>8, <3>1, <4>1
      <4>q. QED
        BY <1>14, <2>1, <3>0, <4>1, <4>2
    <3>2. CASE ~(i < k)
      <4>1. i - 1 \in 1 .. L - 1 /\ i - 1 \in 0 .. L - 1 /\ ~(i - 1 < k) /\ (i - 1) + 1 = i
        BY <1>5, <3>0, <3>2
      <4>2. l2[i - 1] = l[i] /\ d2[i - 1] = d[i]
        BY <1>4, <1>8, <4>1
      <4>q. QED
        BY <1>14, <2>1, <3>0, <4>1, <4>2
    <3>q. QED
      BY <3>1, <3>2
  <2>2. ASSUME u = l[k] \/ \A i \in 1 .. L : l[i] # u
        PROVE  TimesLeft(l2, e2)[u] = 0
    <3>1. ASSUME NEW i \in 1 .. L - 1 PROVE l2[i] # u
      <4> HIDE DEF to
      <4>1. l2[i] = l[to(i)] /\ to(i) \in 1 .. L /\ to(i) # k
        BY <1>4, <1>6
      <4>2. l[to(i)] # l[k]
        BY <1>3, <1>5, <4>1
      <4>q. QED
        BY <2>2, <4>1, <4>2
    <3>q. QED
      BY <1>4, <1>13, <3>1, NoTimeLeft
  <2>3. ASSUME \A i \in 1 .. L : l[i] # u PROVE TimesLeft(l, e)[u] = 0
    BY <2>3, NoTimeLeft DEF L
  <2>q. QED
    BY <2>1, <2>2, <2>3
<1>16. TimesLeft(l2, e2) = [u \in Timer |-> TimesLeft(l2, e2)[u]]
  BY DEF TimesLeft
<1>q. QED
  BY <1>13, <1>15, <1>16, Zenon

\* How many timers at the front of the list have no ticks left
Expired(l, e) == Cardinality({k \in 1 .. Len(l) : \A i \in 1 .. k : e[l[i]] = 0})

\* What is left of a list and its deltas after a tick, and what has fired
Ticked(l, e, n, l2, e2, f) ==
    /\ e2 \in [Timer -> Nat]
    /\ \A u \in Timer : e2[u] = IF u = l[1] THEN e[u] - 1 ELSE e[u]
    /\ n = Expired(l, e2)
    /\ l2 = SubSeq(l, n + 1, Len(l))
    /\ f = SubSeq(l, 1, n)

\* run_timer_list takes a tick from every timer and fires those that had one.
LEMMA TickTimes ==
    ASSUME NEW l, NEW e, InOrder(l, e), Len(l) > 0,
           NEW n, NEW l2, NEW e2, NEW f, Ticked(l, e, n, l2, e2, f)
    PROVE  /\ InOrder(l2, e2) /\ f \in Seq(Timer)
           /\ TimesLeft(l2, e2) = [u \in Timer |-> IF TimesLeft(l, e)[u] = 0 THEN 0
                                                   ELSE TimesLeft(l, e)[u] - 1]
           /\ ToSet(f) = {u \in Timer : TimesLeft(l, e)[u] = 1}
<1> DEFINE d == Sums(l, e)
           w == Sums(l, e2)
           L == Len(l)
           S == {k \in 1 .. L : \A i \in 1 .. k : e2[l[i]] = 0}
<1>1. l \in Seq(Timer) /\ e \in [Timer -> Nat] /\ L \in Nat \ {0} /\ e2 \in [Timer -> Nat]
  BY DEF InOrder, Ticked
<1>2. /\ d[0] = 0
      /\ \A i \in 1 .. L : d[i] = d[i - 1] + e[l[i]]
      /\ \A i \in 0 .. L : d[i] \in Nat
  BY <1>1, SumsAre
<1>3. /\ w[0] = 0
      /\ \A i \in 1 .. L : w[i] = w[i - 1] + e2[l[i]]
      /\ \A i \in 0 .. L : w[i] \in Nat
  BY <1>1, SumsAre
<1>4. \A j \in 0 .. L : \A i \in 0 .. j : w[i] <= w[j]
  BY <1>1, SumsGrow
<1>5. /\ \A i \in 1 .. L : l[i] \in Timer /\ e[l[i]] \in Nat /\ e2[l[i]] \in Nat
      /\ \A i, j \in 1 .. L : l[i] = l[j] => i = j
      /\ e[l[1]] >= 1
  BY <1>1 DEF InOrder
<1> HIDE DEF d, w, L
<1>6. /\ \A i \in 1 .. L : i # 1 => e2[l[i]] = e[l[i]]
      /\ e2[l[1]] = e[l[1]] - 1 /\ 1 \in 1 .. L
  <2>1. \A u \in Timer : e2[u] = IF u = l[1] THEN e[u] - 1 ELSE e[u]
    BY DEF Ticked
  <2>q. QED
    BY <1>1, <1>5, <2>1
<1>7. \A i \in 1 .. L : w[i] = d[i] - 1
  <2> DEFINE g == [i \in 0 .. L |-> IF i = 0 THEN 0 ELSE d[i] - 1]
  <2>1. \A i \in 0 .. L : g[i] = IF i = 0 THEN 0 ELSE d[i] - 1
    OBVIOUS
  <2> HIDE DEF g
  <2>2. g[0] = 0
    BY <1>1, <2>1
  <2>3. ASSUME NEW i \in 1 .. L PROVE g[i] = g[i - 1] + e2[l[i]]
    <3>1. i \in 0 .. L /\ i - 1 \in 0 .. L /\ i # 0 /\ d[i] = d[i - 1] + e[l[i]]
      BY <1>1, <1>2
    <3>2. CASE i = 1
      <4>1. g[i] = d[i] - 1 /\ g[i - 1] = 0 /\ d[i - 1] = 0 /\ e2[l[i]] = e[l[i]] - 1 /\ e[l[i]] \in Nat
        BY <1>2, <1>5, <1>6, <2>1, <3>1, <3>2
      <4>q. QED
        BY <3>1, <4>1
    <3>3. CASE i # 1
      <4>1. i - 1 # 0
        BY <3>3
      <4>2. g[i] = d[i] - 1 /\ g[i - 1] = d[i - 1] - 1 /\ e2[l[i]] = e[l[i]] /\ e[l[i]] \in Nat
        BY <1>5, <1>6, <2>1, <3>1, <3>3, <4>1
      <4>3. d[i - 1] \in Nat
        BY <1>2, <3>1
      <4>q. QED
        BY <3>1, <4>2, <4>3
    <3>q. QED
      BY <3>2, <3>3
  <2>4. \A i \in 0 .. Len(l) : Sums(l, e2)[i] = g[i]
    BY <1>1, <2>2, <2>3, SumsUnique DEF L
  <2>5. \A i \in 1 .. L : i \in 0 .. L /\ i # 0
    BY <1>1
  <2>q. QED
    BY <2>1, <2>4, <2>5 DEF w, L
<1>8. n \in 0 .. L /\ S = 1 .. n
  <2>1. S \in SUBSET (1 .. L)
    OBVIOUS
  <2>2. ASSUME NEW i \in S, NEW j \in 1 .. L, j <= i PROVE j \in S
    <3>1. i \in 1 .. L /\ \A m \in 1 .. i : e2[l[m]] = 0
      BY <2>2
    <3>2. \A m \in 1 .. j : m \in 1 .. i
      BY <1>1, <2>2, <3>1
    <3>q. QED
      BY <3>1, <3>2
  <2>3. n = Cardinality(S)
    BY DEF Expired, L, Ticked
  <2> HIDE DEF S
  <2>q. QED
    BY <1>1, <2>1, <2>2, <2>3, InitialSegment
<1>9. \A i \in 1 .. n : e2[l[i]] = 0
  <2>1. ASSUME NEW i \in 1 .. n PROVE e2[l[i]] = 0
    <3>1. i \in 1 .. i
      BY <1>8
    <3>2. i \in S
      BY <1>8, Zenon
    <3>q. QED
      BY <3>1, <3>2
  <2>q. QED
    BY <2>1
<1>10. \A i \in 0 .. n : w[i] = 0
  <2> DEFINE Z == {i \in 0 .. n : w[i] = 0}
  <2>1. 0 \in Z
    BY <1>1, <1>3, <1>8
  <2>2. \A i \in 0 .. n - 1 : i \in Z => i + 1 \in Z
    <3> TAKE i \in 0 .. n - 1
    <3> HAVE i \in Z
    <3>1. i + 1 \in 1 .. L /\ i + 1 \in 1 .. n /\ i + 1 \in 0 .. n /\ (i + 1) - 1 = i
      BY <1>1, <1>8
    <3>2. w[i + 1] = w[i] + 0
      BY <1>3, <1>9, <3>1
    <3>q. QED
      BY <3>1, <3>2
  <2>3. n \in Nat
    BY <1>8
  <2>4. \A i \in 0 .. n : i \in Z
    <3> HIDE DEF Z
    <3>q. QED
      BY <2>1, <2>2, <2>3, Upwards
  <2>q. QED
    BY <2>4
<1>11. ASSUME n < L PROVE e2[l[n + 1]] >= 1 /\ w[n + 1] >= 1
  <2>1. n + 1 \in 1 .. L /\ n + 1 \notin S /\ (n + 1) - 1 = n /\ n \in 0 .. n
    <3> HIDE DEF S
    <3>q. QED
      BY <1>1, <1>8, <1>11
  <2>2. PICK i \in 1 .. n + 1 : e2[l[i]] # 0
    BY <2>1
  <2>3. i = n + 1
    BY <1>8, <1>9, <2>2
  <2>4. e2[l[n + 1]] \in Nat /\ e2[l[n + 1]] # 0
    BY <1>5, <2>1, <2>2, <2>3
  <2>5. w[n + 1] = 0 + e2[l[n + 1]]
    BY <1>3, <1>10, <2>1
  <2>q. QED
    BY <2>4, <2>5
<1>12. \A i \in 1 .. L : i > n => w[i] >= 1
  <2> TAKE i \in 1 .. L
  <2> HAVE i > n
  <2>1. n < L /\ n + 1 \in 0 .. i /\ i \in 0 .. L /\ n + 1 \in 0 .. L
    BY <1>1, <1>8
  <2>2. w[n + 1] >= 1 /\ w[n + 1] <= w[i] /\ w[i] \in Nat /\ w[n + 1] \in Nat
    BY <1>3, <1>4, <1>11, <2>1
  <2>q. QED
    BY <2>2
<1> HIDE DEF S
<1>13. /\ l2 \in Seq(Timer) /\ Len(l2) = L - n
       /\ \A i \in 1 .. L - n : l2[i] = l[n + i]
  <2>1. n \in 0 .. Len(l) /\ Len(l) \in Nat
    BY <1>1, <1>8 DEF L
  <2>2. l2 = SubSeq(l, n + 1, Len(l))
    BY DEF Ticked
  <2>q. QED
    BY <1>1, <2>1, <2>2 DEF L
<1>14. /\ f \in Seq(Timer) /\ Len(f) = n
       /\ \A i \in 1 .. n : f[i] = l[i]
  <2>1. n \in 0 .. Len(l) /\ Len(l) \in Nat
    BY <1>1, <1>8 DEF L
  <2>q. QED
    BY <1>1, <2>1 DEF Ticked
<1> DEFINE d2 == [i \in 0 .. L - n |-> w[n + i]]
<1>15. \A i \in 0 .. L - n : d2[i] = w[n + i]
  OBVIOUS
<1> HIDE DEF d2
<1>16. L - n \in Nat /\ n \in 0 .. n /\ n + 0 = n /\ 0 \in 0 .. L - n
  BY <1>1, <1>8
<1>17. d2[0] = 0
  BY <1>10, <1>15, <1>16
<1>18. ASSUME NEW i \in 1 .. L - n PROVE d2[i] = d2[i - 1] + e2[l2[i]]
  <2>1. /\ i \in 0 .. L - n /\ i - 1 \in 0 .. L - n /\ n + i \in 1 .. L
        /\ n + (i - 1) = (n + i) - 1
    BY <1>1, <1>8
  <2>2. d2[i] = w[n + i] /\ d2[i - 1] = w[(n + i) - 1]
    BY <1>15, <2>1
  <2>3. l2[i] = l[n + i]
    BY <1>13
  <2>4. w[n + i] = w[(n + i) - 1] + e2[l[n + i]]
    BY <1>3, <2>1
  <2>q. QED
    BY <2>2, <2>3, <2>4
<1>19. \A i, j \in 1 .. L - n : l2[i] = l2[j] => i = j
  <2>1. \A i \in 1 .. L - n : n + i \in 1 .. L
    BY <1>1, <1>8
  <2>2. \A i, j \in 1 .. L - n : n + i = n + j => i = j
    BY <1>1, <1>8
  <2> TAKE i, j \in 1 .. L - n
  <2> HAVE l2[i] = l2[j]
  <2>3. l[n + i] = l[n + j]
    BY <1>13
  <2>4. n + i = n + j
    BY <1>5, <2>1, <2>3
  <2>q. QED
    BY <2>2, <2>4
<1>20. ASSUME L - n > 0 PROVE e2[l2[1]] >= 1
  <2>1. 1 \in 1 .. L - n /\ n < L
    BY <1>1, <1>8, <1>20
  <2>2. l2[1] = l[n + 1]
    BY <1>13, <2>1
  <2>q. QED
    BY <1>11, <2>1, <2>2
<1>21. InOrder(l2, e2)
  BY <1>1, <1>13, <1>19, <1>20 DEF InOrder
<1>22. \A i \in 1 .. L - n : TimesLeft(l2, e2)[l2[i]] = d2[i]
  <2>1. \A i \in 1 .. Len(l2) : d2[i] = d2[i - 1] + e2[l2[i]]
    BY <1>13, <1>18
  <2>2. \A i \in 1 .. Len(l2) : TimesLeft(l2, e2)[l2[i]] = d2[i]
    BY <1>17, <1>21, <2>1, TimesBySums
  <2>q. QED
    BY <1>13, <2>2
<1> DEFINE T(u) == TimesLeft(l, e)[u]
           T2(u) == TimesLeft(l2, e2)[u]
<1>23. ASSUME NEW i \in 1 .. n PROVE T(l[i]) = 1 /\ T2(l[i]) = 0
  <2>1. i \in 1 .. L /\ i \in 0 .. n
    BY <1>1, <1>8
  <2>2. T(l[i]) = d[i]
    BY <2>1, TimesAre DEF d, L
  <2>3. d[i] = 1
    <3>1. w[i] = 0 /\ w[i] = d[i] - 1 /\ d[i] \in Nat
      BY <1>2, <1>7, <1>10, <2>1
    <3>q. QED
      BY <3>1
  <2>4. \A j \in 1 .. L - n : l2[j] # l[i]
    <3>1. \A j \in 1 .. L - n : n + j \in 1 .. L /\ n + j # i
      BY <1>1, <1>8
    <3>2. \A j \in 1 .. L - n : l[n + j] # l[i]
      BY <1>5, <2>1, <3>1
    <3>q. QED
      BY <1>13, <3>2, Zenon
  <2>5. T2(l[i]) = 0
    <3>1. l[i] \in Timer /\ \A j \in 1 .. Len(l2) : l2[j] # l[i]
      BY <1>5, <1>13, <2>1, <2>4, Zenon
    <3>q. QED
      BY <1>21, <3>1, NoTimeLeft
  <2>q. QED
    BY <2>2, <2>3, <2>5
<1>24. ASSUME NEW i \in 1 .. L, i > n
       PROVE  T(l[i]) # 0 /\ T(l[i]) # 1 /\ T2(l[i]) = T(l[i]) - 1
  <2>1. i - n \in 1 .. L - n /\ n + (i - n) = i /\ i - n \in 0 .. L - n /\ i \in 0 .. L
    BY <1>1, <1>8, <1>24
  <2>2. T(l[i]) = d[i]
    BY TimesAre DEF d, L
  <2>3. l2[i - n] = l[i] /\ d2[i - n] = w[i]
    BY <1>13, <1>15, <2>1
  <2>4. T2(l[i]) = w[i]
    BY <1>22, <2>1, <2>3
  <2>5. w[i] = d[i] - 1 /\ w[i] >= 1 /\ d[i] \in Nat
    BY <1>2, <1>7, <1>12, <1>24, <2>1
  <2>6. d[i] # 0 /\ d[i] # 1
    BY <2>5
  <2>q. QED
    BY <2>2, <2>4, <2>5, <2>6
<1>25. ASSUME NEW u \in Timer, \A i \in 1 .. L : l[i] # u PROVE T(u) = 0 /\ T2(u) = 0
  <2>1. T(u) = 0
    BY <1>25, NoTimeLeft DEF L
  <2>2. \A i \in 1 .. L - n : n + i \in 1 .. L
    BY <1>1, <1>8
  <2>3. \A i \in 1 .. Len(l2) : l2[i] # u
    BY <1>13, <1>25, <2>2, Zenon
  <2>4. T2(u) = 0
    BY <1>21, <2>3, NoTimeLeft
  <2>q. QED
    BY <2>1, <2>4
<1> HIDE DEF T, T2
<1>26. ASSUME NEW u \in Timer PROVE T2(u) = IF T(u) = 0 THEN 0 ELSE T(u) - 1
  <2>1. ASSUME NEW i \in 1 .. L, u = l[i] PROVE T2(u) = IF T(u) = 0 THEN 0 ELSE T(u) - 1
    <3>1. CASE i > n
      BY <1>24, <2>1, <3>1
    <3>2. CASE ~(i > n)
      <4>1. i \in 1 .. n /\ 1 - 1 = 0
        BY <1>1, <1>8, <3>2
      <4>q. QED
        BY <1>23, <2>1, <4>1
    <3>q. QED
      BY <3>1, <3>2
  <2>q. QED
    BY <1>25, <2>1
<1>27. ToSet(f) = {u \in Timer : T(u) = 1}
  <2>1. ToSet(f) = {f[i] : i \in 1 .. n}
    <3>1. DOMAIN f = 1 .. n
      BY <1>14
    <3>q. QED
      BY <3>1, Zenon DEF ToSet
  <2>2. ASSUME NEW i \in 1 .. n PROVE f[i] \in Timer /\ T(f[i]) = 1
    <3>1. i \in 1 .. L
      BY <1>1, <1>8
    <3>q. QED
      BY <1>5, <1>14, <1>23, <3>1
  <2>3. ASSUME NEW u \in Timer, T(u) = 1 PROVE \E i \in 1 .. n : u = f[i]
    <3>1. PICK i \in 1 .. L : u = l[i]
      BY <1>25, <2>3
    <3>2. ~(i > n)
      BY <1>24, <2>3, <3>1
    <3>3. i \in 1 .. n
      BY <1>1, <1>8, <3>2
    <3>q. QED
      BY <1>14, <3>1, <3>3
  <2>q. QED
    BY <2>1, <2>2, <2>3, Zenon
<1>28. TimesLeft(l2, e2) = [u \in Timer |-> TimesLeft(l2, e2)[u]]
  BY DEF TimesLeft
<1>q. QED
  BY <1>14, <1>21, <1>26, <1>27, <1>28, Zenon DEF T, T2

-----------------------------------------------------------------------------
(* The timer list as countdowns.                                            *)

TimerInv == InOrder(timer_list, expires) /\ fired \in Seq(Timer)

\* The refinement mapping is TimesLeft of the list.
LEMMA LeftIs == left = TimesLeft(timer_list, expires)
  BY Zenon DEF left, TimesLeft, Linked, Contains, Due, Position

LEMMA LeftIsNext == left' = TimesLeft(timer_list', expires')
  BY Zenon DEF left, TimesLeft, Linked, Contains, Due, Position

\* A step that fires nothing
LEMMA NoneFired == ASSUME fired' = <<>> PROVE fired' \in Seq(Timer) /\ ToSet(fired)' = {}
  BY QueueEmpty

LEMMA InitCounts == ASSUME TimerInit PROVE TimerInv /\ Countdown!Init
<1>1. timer_list = <<>> /\ expires = [t \in Timer |-> 0] /\ fired = <<>>
  BY DEF TimerInit
<1>2. InOrder(timer_list, expires)
  BY <1>1 DEF InOrder
<1>3. left = [t \in Timer |-> 0]
  <2>1. \A i \in 1 .. Len(timer_list) : FALSE
    BY <1>1
  <2>q. QED
    BY <2>1, LeftIs, Zenon DEF TimesLeft
<1>4. ToSet(fired) = {} /\ fired \in Seq(Timer)
  BY <1>1, QueueEmpty
<1>q. QED
  BY <1>2, <1>3, <1>4 DEF TimerInv, Countdown!Init

\* add_timer is Arm.
LEMMA AddCounts ==
    ASSUME TimerInv, NEW t \in Timer, NEW n \in 1 .. MaxExpires, add_timer(t, n)
    PROVE  TimerInv' /\ Countdown!Arm(t, n)
<1> DEFINE k == Passed(n)
           L == timer_list
           E == expires
<1>1. InOrder(L, E) /\ n \in Nat \ {0}
  BY TimerListAssumption DEF TimerInv
<1>2. \A i \in 1 .. Len(L) : L[i] # t
  BY DEF add_timer, Linked, Contains
<1>3. k = Walk(L, E, n)
  BY DEF Passed, Walk, Due
<1>4. L' = InsertAt(L, k + 1, t)
  BY DEF add_timer
<1>5. E' = Deltas(L, E, t, n - Sums(L, E)[k], k)
  BY DEF add_timer, Deltas, Due
<1>6. fired' = <<>>
  BY DEF add_timer
<1> HIDE DEF k
<1>7. /\ InOrder(L', E')
      /\ TimesLeft(L', E') = [u \in Timer |-> IF u = t THEN n ELSE TimesLeft(L, E)[u]]
  BY <1>1, <1>2, <1>3, <1>4, <1>5, AddTimes
<1>8. left[t] = 0
  BY <1>1, <1>2, LeftIs, NoTimeLeft
<1>9. left' = [left EXCEPT ![t] = n]
  <2>1. left = [u \in Timer |-> left[u]]
    BY LeftIs DEF TimesLeft
  <2>2. left' = [u \in Timer |-> IF u = t THEN n ELSE left[u]]
    BY <1>7, LeftIs, LeftIsNext, Zenon
  <2>q. QED
    BY <2>1, <2>2
<1>q. QED
  BY <1>6, <1>7, <1>8, <1>9, NoneFired DEF TimerInv, Countdown!Arm

\* del_timer is Cancel, of a timer that may have fired already.
LEMMA DelCounts ==
    ASSUME TimerInv, NEW t \in Timer, del_timer(t)
    PROVE  TimerInv' /\ Countdown!Cancel(t)
<1> DEFINE L == timer_list
           E == expires
<1>1. InOrder(L, E) /\ fired' = <<>>
  BY DEF TimerInv, del_timer
<1>2. left = [u \in Timer |-> left[u]]
  BY LeftIs DEF TimesLeft
<1>3. CASE Linked(t)
  <2> DEFINE k == Position(t)
  <2>1. /\ E' = IF k < Len(L) THEN [E EXCEPT ![L[k + 1]] = @ + E[t]] ELSE E
        /\ L' = RemoveAt(L, k)
    BY <1>3 DEF del_timer
  <2>2. k \in 1 .. Len(L) /\ L[k] = t
    BY <1>3, Zenon DEF Linked, Contains, Position
  <2> HIDE DEF k
  <2>3. /\ \A i \in 1 .. Len(L) : L[i] \in Timer
        /\ E \in [Timer -> Nat]
        /\ Len(L) \in Nat
    BY <1>1 DEF InOrder
  <2>4. Unlinked(L, E, k, L', E')
    <3>1. CASE k < Len(L)
      <4>1. L[k + 1] \in Timer
        BY <2>2, <2>3, <3>1
      <4>2. E' = [E EXCEPT ![L[k + 1]] = E[L[k + 1]] + E[t]]
        BY <2>1, <3>1
      <4>3. E[L[k + 1]] + E[t] \in Nat
        BY <2>3, <4>1
      <4>q. QED
        BY <2>1, <2>2, <2>3, <3>1, <4>1, <4>2, <4>3 DEF Unlinked
    <3>2. CASE ~(k < Len(L))
      BY <2>1, <2>2, <2>3, <3>2 DEF Unlinked
    <3>q. QED
      BY <3>1, <3>2
  <2>5. /\ InOrder(L', E')
        /\ TimesLeft(L', E') = [u \in Timer |-> IF u = L[k] THEN 0 ELSE TimesLeft(L, E)[u]]
    BY <1>1, <2>2, <2>4, DelTimes
  <2>6. left' = [left EXCEPT ![t] = 0]
    <3>1. left' = [u \in Timer |-> IF u = t THEN 0 ELSE left[u]]
      BY <2>2, <2>5, LeftIs, LeftIsNext, Zenon
    <3>q. QED
      BY <1>2, <3>1
  <2>q. QED
    BY <1>1, <2>5, <2>6, NoneFired DEF TimerInv, Countdown!Cancel
<1>4. CASE ~Linked(t)
  <2>1. L' = L /\ E' = E
    BY <1>4 DEF del_timer
  <2>2. \A i \in 1 .. Len(L) : L[i] # t
    BY <1>4 DEF Linked, Contains
  <2>3. left[t] = 0
    BY <1>1, <2>2, LeftIs, NoTimeLeft
  <2>4. left' = left
    BY <2>1, LeftIs, LeftIsNext, Zenon
  <2>5. left' = [left EXCEPT ![t] = 0]
    BY <1>2, <2>3, <2>4
  <2>q. QED
    BY <1>1, <2>1, <2>5, NoneFired DEF TimerInv, Countdown!Cancel
<1>q. QED
  BY <1>3, <1>4

\* run_timer_list is Tick.
LEMMA TickCounts ==
    ASSUME TimerInv, run_timer_list
    PROVE  TimerInv' /\ Countdown!Tick
<1> DEFINE L == timer_list
           E == expires
<1>1. InOrder(L, E)
  BY DEF TimerInv
<1>2. L \in Seq(Timer) /\ E \in [Timer -> Nat] /\ Len(L) \in Nat
  BY <1>1 DEF InOrder
<1>3. CASE L = <<>>
  <2>1. L' = L /\ E' = E /\ fired' = <<>>
    BY <1>3 DEF run_timer_list
  <2>2. \A i \in 1 .. Len(L) : FALSE
    BY <1>3
  <2>3. \A t \in Timer : left[t] = 0
    BY <2>2, LeftIs, Zenon DEF TimesLeft
  <2>4. left' = left
    BY <2>1, LeftIs, LeftIsNext, Zenon
  <2>5. left = [t \in Timer |-> left[t]]
    BY LeftIs DEF TimesLeft
  <2>6. left' = [t \in Timer |-> IF left[t] = 0 THEN 0 ELSE left[t] - 1]
    BY <2>3, <2>4, <2>5
  <2>7. {t \in Timer : left[t] = 1} = {}
    BY <2>3
  <2>q. QED
    BY <1>1, <2>1, <2>6, <2>7, NoneFired DEF TimerInv, Countdown!Tick
<1>4. CASE L # <<>>
  <2> DEFINE after == [E EXCEPT ![L[1]] = @ - 1]
             n == Expired(L, after)
  <2>1. E' = after /\ fired' = SubSeq(L, 1, n) /\ L' = SubSeq(L, n + 1, Len(L))
    BY <1>4 DEF run_timer_list, Expired
  <2>2. Len(L) > 0 /\ 1 \in 1 .. Len(L)
    BY <1>2, <1>4
  <2>3. L[1] \in Timer /\ E[L[1]] \in Nat /\ E[L[1]] >= 1
    BY <1>1, <1>2, <2>2 DEF InOrder
  <2>4. E[L[1]] - 1 \in Nat
    BY <2>3
  <2>5. E' \in [Timer -> Nat] /\ \A u \in Timer : E'[u] = IF u = L[1] THEN E[u] - 1 ELSE E[u]
    BY <1>2, <2>1, <2>3, <2>4
  <2>6. n = Expired(L, E')
    BY <2>1
  <2> HIDE DEF n, after
  <2>7. Ticked(L, E, n, L', E', fired')
    BY <2>1, <2>5, <2>6, Zenon DEF Ticked
  <2>8. /\ InOrder(L', E') /\ fired' \in Seq(Timer)
        /\ TimesLeft(L', E') = [u \in Timer |-> IF TimesLeft(L, E)[u] = 0 THEN 0
                                                ELSE TimesLeft(L, E)[u] - 1]
        /\ ToSet(fired') = {u \in Timer : TimesLeft(L, E)[u] = 1}
    BY <1>1, <2>2, <2>7, TickTimes
  <2>9. left' = [u \in Timer |-> IF left[u] = 0 THEN 0 ELSE left[u] - 1]
    BY <2>8, LeftIs, LeftIsNext, Zenon
  <2>10. ToSet(fired)' = {u \in Timer : left[u] = 1}
    BY <2>8, LeftIs, Zenon
  <2>q. QED
    BY <2>8, <2>9, <2>10 DEF TimerInv, Countdown!Tick
<1>q. QED
  BY <1>3, <1>4

\* Every step of the list is a step of the countdowns.
LEMMA StepCounts ==
    ASSUME TimerInv, [TimerNext]_timerVars
    PROVE  TimerInv' /\ [Countdown!Next]_<<left, ToSet(fired)>>
<1>1. ASSUME NEW t \in Timer, NEW n \in 1 .. MaxExpires, add_timer(t, n)
      PROVE  TimerInv' /\ Countdown!Next
  BY <1>1, AddCounts DEF Countdown!Next
<1>2. ASSUME NEW t \in Timer, del_timer(t) PROVE TimerInv' /\ Countdown!Next
  BY <1>2, DelCounts DEF Countdown!Next
<1>3. CASE run_timer_list
  BY <1>3, TickCounts DEF Countdown!Next
<1>4. CASE UNCHANGED timerVars
  <2>1. timer_list' = timer_list /\ expires' = expires /\ fired' = fired
    BY <1>4 DEF timerVars
  <2>2. left' = left
    BY <2>1, LeftIs, LeftIsNext, Zenon
  <2>q. QED
    BY <2>1, <2>2 DEF TimerInv
<1>q. QED
  BY <1>1, <1>2, <1>3, <1>4 DEF TimerNext

\* The list of deltas (schedule/sched.c) implements independent countdowns:
\* each timer fires at exactly the tick it was armed for, whatever is added
\* or cancelled around it, with any number of timers and any timeouts.
THEOREM TimersAreCountdowns == TimerSpec => ImplementsTimers
<1>1. TimerInit => TimerInv /\ Countdown!Init
  BY InitCounts
<1>2. TimerInv /\ [TimerNext]_timerVars => TimerInv' /\ [Countdown!Next]_<<left, ToSet(fired)>>
  BY StepCounts
<1>q. QED
  BY <1>1, <1>2, PTL DEF TimerSpec, ImplementsTimers, Countdown!Spec
=============================================================================
