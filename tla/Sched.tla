-------------------------------- MODULE Sched -------------------------------
(***************************************************************************)
(* The scheduler: wakeup_proc, schedule and the tick (schedule/sched.c),   *)
(* the multi-level feedback queue over round-robin queues                  *)
(* (sched_MLFQ.c, sched_RR.c), and what processes do to themselves and to  *)
(* each other that changes their state: sleep, yield, fork, exit, reap     *)
(* (process/proc.c).                                                       *)
(*                                                                         *)
(* All of it runs under the kernel lock, which KernLock shows to be held   *)
(* by at most one CPU: kern is that CPU.  Each function that touches the   *)
(* scheduler is one action of it.  The lock stays with the CPU across a    *)
(* switch, so the process switched to goes on in the kernel.               *)
(***************************************************************************)
EXTENDS Naturals, Sequences

CONSTANTS
    CPU,        \* the CPUs; the idle process of CPU c is written c itself
    Task,       \* the slots for every other process
    KThread,    \* those of Task that are kernel threads
    InitTask,   \* the kernel thread that proc_init creates
    NLevel,     \* the number of run queues (4)
    MaxSlice,   \* max_time_slice of each; sched_init starts with 8 and
                \* doubles it from queue to queue
    NoCpu       \* nobody holds the kernel lock

ASSUME SchedAssumption ==
    /\ InitTask \in KThread /\ KThread \subseteq Task
    /\ CPU \cap Task = {} /\ NoCpu \notin CPU
    /\ NLevel \in Nat \ {0}
    /\ MaxSlice \in [1..NLevel -> Nat \ {0}]

Level == 1..NLevel
Proc  == CPU \cup Task

VARIABLES
    kern,         \* the CPU in the kernel, or NoCpu
    current,      \* pls current of each CPU
    state,        \* proc->state; a free slot is "UNINIT"
    wait_state,   \* proc->wait_state: 0, "int"errupted allowed, or not
    run_link,     \* proc->run_link is in a list
    runq,         \* run_list of each run queue
    rq,           \* proc->rq, 0 for NULL
    time_slice,
    need_resched

queueVars == <<run_link, runq, rq, time_slice>>
vars == <<kern, current, state, wait_state, queueVars, need_resched>>

-----------------------------------------------------------------------------
(* The run queues.                                                         *)

\* MLFQ_enqueue: the first queue, unless the slice is used up; then the one
\* below, and from the last queue the last again.
TargetLevel(p) ==
    IF rq[p] # 0 /\ time_slice[p] = 0
    THEN IF rq[p] = NLevel THEN NLevel ELSE rq[p] + 1
    ELSE 1

\* RR_enqueue's slice for a process that enters queue l with slice s
SliceAt(l, s) == IF s = 0 \/ s > MaxSlice[l] THEN MaxSlice[l] ELSE s

\* Mutant: RR_enqueue forgets proc->rq.
EnqueueKeepsRq(p, q) ==
    LET l == TargetLevel(p)
    IN /\ runq' = [q EXCEPT ![l] = Append(@, p)]
       /\ time_slice' = [time_slice EXCEPT ![p] = SliceAt(l, @)]
       /\ run_link' = [run_link EXCEPT ![p] = TRUE]
       /\ UNCHANGED rq

\* sched_class_enqueue, with the slice the process has by then
EnqueueWith(p, q) ==
    LET l == TargetLevel(p)
    IN /\ runq' = [q EXCEPT ![l] = Append(@, p)]
       /\ rq' = [rq EXCEPT ![p] = l]
       /\ time_slice' = [time_slice EXCEPT ![p] = SliceAt(l, @)]
       /\ run_link' = [run_link EXCEPT ![p] = TRUE]

\* Mutant: the loop over the queues stops one short.
NonEmptyUpper(q) == {l \in 1..NLevel - 1 : q[l] # <<>>}

\* MLFQ_pick_next looks for the first queue that is not empty, in q.
NonEmpty(q) == {l \in Level : q[l] # <<>>}

\* Mutant: the queues are looked through from the last one up.
TopLevelLast(q) == CHOOSE l \in NonEmpty(q) : \A k \in NonEmpty(q) : k <= l

TopLevel(q) == CHOOSE l \in NonEmpty(q) : \A k \in NonEmpty(q) : l <= k

\* The queues once the running process has gone back to them
Requeued(p) == [runq EXCEPT ![TargetLevel(p)] = Append(@, p)]

Init ==
    /\ kern = NoCpu
    /\ current = [c \in CPU |-> c]
    /\ state = [p \in Proc |-> IF p \in CPU \cup {InitTask} THEN "RUNNABLE" ELSE "UNINIT"]
    /\ wait_state = [p \in Proc |-> "0"]
    /\ run_link = [p \in Proc |-> p = InitTask]
    /\ runq = [l \in Level |-> IF l = 1 THEN <<InitTask>> ELSE <<>>]
    /\ rq = [p \in Proc |-> IF p = InitTask THEN 1 ELSE 0]
    /\ time_slice = [p \in Proc |-> IF p = InitTask THEN MaxSlice[1] ELSE 0]
    /\ need_resched = [p \in Proc |-> FALSE]

-----------------------------------------------------------------------------
(* Into the kernel and out of it.                                          *)

\* kern_enter, from user mode or from the idle loop
kern_enter(c) ==
    /\ kern = NoCpu /\ current[c] \notin KThread
    /\ kern' = c
    /\ UNCHANGED <<current, state, wait_state, queueVars, need_resched>>

\* The end of trap for a user process: schedule comes first when it is due.
kern_leave(c) ==
    /\ kern = c
    /\ current[c] \in Task \ KThread
    /\ state[current[c]] = "RUNNABLE" /\ ~need_resched[current[c]]
    /\ kern' = NoCpu
    /\ UNCHANGED <<current, state, wait_state, queueVars, need_resched>>

-----------------------------------------------------------------------------
\* Mutant: the tick that uses up the slice is not noticed, the next one is.
proc_tick_late(c) ==
    /\ kern = c
    /\ LET p == current[c]
           s == IF time_slice[p] > 0 THEN time_slice[p] - 1 ELSE 0
       IN /\ time_slice' = [time_slice EXCEPT ![p] = s]
          /\ need_resched' = [need_resched EXCEPT ![p] = @ \/ time_slice[p] = 0]
    /\ UNCHANGED <<kern, current, state, wait_state, run_link, runq, rq>>

\* sched_class_proc_tick(current), at the end of run_timer_list; the timers
\* that expire are wakeup_proc's.
proc_tick(c) ==
    /\ kern = c
    /\ LET p == current[c]
           s == IF time_slice[p] > 0 THEN time_slice[p] - 1 ELSE 0
       IN IF p \in CPU
          THEN /\ need_resched' = [need_resched EXCEPT ![p] = TRUE]
               /\ UNCHANGED time_slice
          ELSE /\ time_slice' = [time_slice EXCEPT ![p] = s]
               /\ need_resched' = [need_resched EXCEPT ![p] = @ \/ s = 0]
    /\ UNCHANGED <<kern, current, state, wait_state, run_link, runq, rq>>

\* Mutant: a process that wakes itself is queued too.
wakeup_always_queues(c, p) ==
    /\ kern = c
    /\ state[p] = "SLEEPING"
    /\ state' = [state EXCEPT ![p] = "RUNNABLE"]
    /\ wait_state' = [wait_state EXCEPT ![p] = "0"]
    /\ EnqueueWith(p, runq)
    /\ UNCHANGED <<kern, current, need_resched>>

\* wakeup_proc.  A process that wakes itself, because the interrupt found it
\* between going to sleep and schedule, is not queued: schedule will do it.
wakeup_proc(c, p) ==
    /\ kern = c
    /\ state[p] = "SLEEPING"
    /\ state' = [state EXCEPT ![p] = "RUNNABLE"]
    /\ wait_state' = [wait_state EXCEPT ![p] = "0"]
    /\ IF p # current[c] THEN EnqueueWith(p, runq) ELSE UNCHANGED queueVars
    /\ UNCHANGED <<kern, current, need_resched>>

\* current->state = PROC_SLEEPING, in do_sleep, do_wait and wait_current_set
sleep(c, w) ==
    /\ kern = c /\ current[c] \in Task /\ state[current[c]] = "RUNNABLE"
    /\ state' = [state EXCEPT ![current[c]] = "SLEEPING"]
    /\ wait_state' = [wait_state EXCEPT ![current[c]] = w]
    /\ UNCHANGED <<kern, current, queueVars, need_resched>>

\* schedule: a process that can go on is queued before the pick, the idle
\* process takes over when there is nothing to pick, and returns to its loop.
schedule(c) ==
    /\ kern = c
    /\ LET p == current[c]
           again == state[p] = "RUNNABLE" /\ p \in Task
           q == IF again THEN Requeued(p) ELSE runq
           l == TopLevel(q)
           next == IF NonEmpty(q) = {} THEN c ELSE Head(q[l])
       IN /\ need_resched' = [need_resched EXCEPT ![p] = FALSE]
          /\ runq' = IF next = c THEN q ELSE [q EXCEPT ![l] = Tail(@)]
          /\ run_link' = [r \in Proc |-> r # next /\ (run_link[r] \/ (again /\ r = p))]
          /\ rq' = IF again THEN [rq EXCEPT ![p] = TargetLevel(p)] ELSE rq
          /\ time_slice' = IF again
                           THEN [time_slice EXCEPT ![p] = SliceAt(TargetLevel(p), @)]
                           ELSE time_slice
          /\ current' = [current EXCEPT ![c] = next]
          /\ kern' = IF next = c THEN NoCpu ELSE c
    /\ UNCHANGED <<state, wait_state>>

-----------------------------------------------------------------------------
(* What processes do.                                                      *)

do_yield(c) ==
    /\ kern = c /\ current[c] \in Task
    /\ need_resched' = [need_resched EXCEPT ![current[c]] = TRUE]
    /\ UNCHANGED <<kern, current, state, wait_state, queueVars>>

\* do_fork: the child takes half of what is left of the slice, and is woken.
do_fork(c, p) ==
    /\ kern = c /\ current[c] \in Task /\ state[current[c]] = "RUNNABLE"
    /\ state[p] = "UNINIT"
    /\ state' = [state EXCEPT ![p] = "RUNNABLE"]
    /\ LET half == time_slice[current[c]] \div 2
       IN time_slice' = [time_slice EXCEPT ![current[c]] = @ - half, ![p] = SliceAt(1, half)]
    /\ runq' = [runq EXCEPT ![1] = Append(@, p)]
    /\ rq' = [rq EXCEPT ![p] = 1]
    /\ run_link' = [run_link EXCEPT ![p] = TRUE]
    /\ need_resched' = [need_resched EXCEPT ![p] = FALSE]
    /\ UNCHANGED <<kern, current, wait_state>>

\* do_fork that fails once the child has its share: the share is gone.
fork_fails(c) ==
    /\ kern = c /\ current[c] \in Task /\ state[current[c]] = "RUNNABLE"
    /\ time_slice' = [time_slice EXCEPT ![current[c]] = @ - @ \div 2]
    /\ UNCHANGED <<kern, current, state, wait_state, run_link, runq, rq, need_resched>>

\* __do_exit, up to the wakeups and the schedule that end it
do_exit(c) ==
    /\ kern = c /\ current[c] \in Task \ {InitTask}
    /\ state[current[c]] = "RUNNABLE"
    /\ state' = [state EXCEPT ![current[c]] = "ZOMBIE"]
    /\ UNCHANGED <<kern, current, wait_state, queueVars, need_resched>>

\* Mutant: do_wait frees a child that has not exited.
reap_any(c, p) ==
    /\ kern = c /\ current[c] \in Task \ {p} /\ state[current[c]] = "RUNNABLE"
    /\ state[p] # "UNINIT"
    /\ state' = [state EXCEPT ![p] = "UNINIT"]
    /\ rq' = [rq EXCEPT ![p] = 0]
    /\ time_slice' = [time_slice EXCEPT ![p] = 0]
    /\ UNCHANGED <<kern, current, wait_state, run_link, runq, need_resched>>

\* do_wait finds a zombie and frees its stack and its proc_struct: nothing
\* but its state is looked at.
reap(c, p) ==
    /\ kern = c /\ current[c] \in Task \ {p} /\ state[current[c]] = "RUNNABLE"
    /\ state[p] = "ZOMBIE"
    /\ state' = [state EXCEPT ![p] = "UNINIT"]
    /\ rq' = [rq EXCEPT ![p] = 0]
    /\ time_slice' = [time_slice EXCEPT ![p] = 0]
    /\ UNCHANGED <<kern, current, wait_state, run_link, runq, need_resched>>

-----------------------------------------------------------------------------
Next == \E c \in CPU :
    \/ kern_enter(c) \/ kern_leave(c) \/ proc_tick(c) \/ schedule(c)
    \/ do_yield(c) \/ fork_fails(c) \/ do_exit(c)
    \/ \E w \in {"int", "unint"} : sleep(c, w)
    \/ \E p \in Task : wakeup_proc(c, p) \/ do_fork(c, p) \/ reap(c, p)

Spec == Init /\ [][Next]_vars

\* The timer of every CPU interrupts it for ever, and a stay in the kernel
\* ends, by a return or by a switch: no handler and no kernel thread loops.
FairSpec ==
    /\ Spec
    /\ \A c \in CPU : /\ WF_vars(kern_enter(c))
                      /\ SF_vars(proc_tick(c))
                      /\ WF_vars(kern_leave(c) \/ schedule(c))

-----------------------------------------------------------------------------
TypeOK ==
    /\ kern \in CPU \cup {NoCpu}
    /\ current \in [CPU -> Proc]
    /\ state \in [Proc -> {"UNINIT", "RUNNABLE", "SLEEPING", "ZOMBIE"}]
    /\ wait_state \in [Proc -> {"0", "int", "unint"}]
    /\ run_link \in [Proc -> BOOLEAN]
    /\ runq \in [Level -> Seq(Task)]
    /\ rq \in [Proc -> Level \cup {0}]
    /\ time_slice \in [Proc -> Nat]
    /\ need_resched \in [Proc -> BOOLEAN]

Running(p) == \E c \in CPU : current[c] = p

\* A process that can run is in a run queue or on a CPU, never both, never
\* neither: no wakeup, switch, preemption, exit or tick, on whichever CPU,
\* loses a process or lets two CPUs have it (RR_enqueue and RR_dequeue
\* assert their half of it).
RunnableOnce ==
    /\ \A p \in Task : run_link[p] <=> state[p] = "RUNNABLE" /\ ~Running(p)
    /\ \A c, d \in CPU : current[c] = current[d] => c = d
    /\ \A c \in CPU : ~run_link[c] /\ (current[c] \in CPU => current[c] = c)

\* A CPU outside the kernel runs a process that is runnable and alive: one
\* that sleeps or has exited is only ever on the CPU that holds the lock, so
\* nobody frees the kernel stack a CPU stands on.
OnCpuIsAlive ==
    \A c \in CPU : /\ state[current[c]] # "UNINIT"
                   /\ kern # c => state[current[c]] = "RUNNABLE"

\* The queues q hold exactly the processes linked by link, each once, each in
\* the queue that r names.
QueueOK(q, link, r) ==
    /\ \A l \in Level : \A i \in 1..Len(q[l]) : link[q[l][i]] /\ r[q[l][i]] = l
    /\ \A l \in Level : \A i, j \in 1..Len(q[l]) : q[l][i] = q[l][j] => i = j
    /\ \A p \in Task : link[p] =>
         r[p] \in Level /\ \E i \in 1..Len(q[r[p]]) : q[r[p]][i] = p

\* Each linked process is in one place of one queue, the one its rq field
\* names (RR_dequeue takes it out of proc->rq), and nobody else is.
QueuesMatchLinks == QueueOK(runq, run_link, rq)

\* Outside the kernel no process runs on a used-up slice: exhaustion always
\* reaches schedule before the return to user mode, also when fork has split
\* the slice, and a queued process always has a slice its queue allows.
SliceLeft ==
    /\ \A c \in CPU : kern # c /\ current[c] \in Task => time_slice[current[c]] > 0
    /\ \A p \in Task : run_link[p] => time_slice[p] \in 1..MaxSlice[rq[p]]

\* A process that does not sleep waits for nothing: wait_state is what kill,
\* exit and the semaphores use to decide whether to wake it.
WaitStateMatches ==
    \A p \in Task : (wait_state[p] # "0") <=> (state[p] = "SLEEPING")

\* The inductive invariant.  A slice is used up only between the tick that
\* finds it so and the schedule that the tick asks for.
SInv ==
    /\ TypeOK
    /\ RunnableOnce
    /\ OnCpuIsAlive
    /\ QueuesMatchLinks
    /\ SliceLeft
    /\ WaitStateMatches
    /\ \A c \in CPU : state[c] = "RUNNABLE"
    /\ \A c \in CPU : current[c] \in Task /\ time_slice[current[c]] = 0
                        => need_resched[current[c]]

\* A CPU goes idle only when no process is waiting to run.
IdleOnlyWhenEmpty ==
    [][\A c \in CPU : current'[c] = c /\ current[c] # c
                        => \A l \in Level : runq'[l] = <<>>]_vars

\* The first queue is served in order: a process in it gets a CPU, however
\* the others sleep, wake, fork and yield.
TopQueueServed ==
    \A p \in Task : run_link[p] /\ rq[p] = 1 ~> Running(p)
=============================================================================
