--------------------------------- MODULE Sem --------------------------------
(***************************************************************************)
(* Semaphores (sync/sem.c, sync/wait.c, sync/ipc.h): the kernel's own,     *)
(* used as mutexes by kernel code, and the ones of user processes, with    *)
(* their timeouts, with kill (process/proc.c) and with the references that *)
(* keep them in memory.                                                    *)
(*                                                                         *)
(* A process makes one kernel call at a time, and a call is atomic up to   *)
(* the point where it sleeps: the kernel lock (KernLock) keeps the other   *)
(* CPUs out.  A sleeping process is one with a wait_state (Sched:          *)
(* WaitStateMatches).  Once woken, it goes on whenever the scheduler lets  *)
(* it; until then its wait record stays where its waker left it.           *)
(***************************************************************************)
EXTENDS Integers, Sequences, FiniteSets, SequencesExt

CONSTANTS
    Proc,       \* the processes
    KSem,       \* kernel semaphores, all of them mutexes: sem_init(s, 1)
    USem,       \* user semaphores
    InitValue,  \* the value user semaphores are created with
    Timeout,    \* the timeouts of ipc_sem_wait; 0 is for ever
    MaxValue,   \* bound: no post beyond this value
    NoSem

ASSUME SemAssumption ==
    /\ KSem \cap USem = {} /\ NoSem \notin KSem \cup USem
    /\ Timeout \subseteq Nat
    /\ InitValue \in Nat /\ MaxValue \in Nat
    /\ IsFiniteSet(Proc)

VARIABLES
    value, valid, wait_queue,   \* semaphore_t; a queue lists the waiters
    refs,         \* the processes whose sem_queue lists the semaphore
    pc,           \* "user", "down" (asleep in __down, or woken and about to
                  \* go on), "crit" (kernel code that holds a mutex), "dead"
    sem,          \* the semaphore of that __down or of that mutex
    wait_state,   \* proc->wait_state
    wakeup_flags, \* wait->wakeup_flags
    timer,        \* ticks until its timer fires, 0 for none (Timers)
    timeout,      \* the timeout of the wait, ...
    elapsed,      \* ... and the ticks since, up to it: ticks - saved_ticks
    exiting,      \* PF_EXITING
    ret,          \* what the latest ipc_sem_wait returned
    panicked,     \* the assertion that failed, if one did
    net           \* ghost: tokens created so far, less those taken

semVars  == <<value, valid, wait_queue, refs>>
waitVars == <<sem, wait_state, wakeup_flags, timer, timeout, elapsed>>
vars == <<semVars, waitVars, pc, exiting, ret, panicked, net>>

Semaphore == KSem \cup USem

\* The wait_state of its waiters: WT_KSEM is not WT_INTERRUPTED, WT_USEM is.
WaitStateOf(s) == IF s \in KSem THEN "KSEM" ELSE "USEM"

\* Mutant: kill and the timers may end every sleep.
InterruptibleAny(w) == w # "0"

Interruptible(w) == w = "USEM"

Sleeping(p) == wait_state[p] # "0"

Init ==
    /\ value = [s \in Semaphore |-> IF s \in KSem THEN 1 ELSE InitValue]
    /\ valid = [s \in Semaphore |-> TRUE]
    /\ wait_queue = [s \in Semaphore |-> <<>>]
    /\ refs = [s \in USem |-> Proc]
    /\ pc = [p \in Proc |-> "user"]
    /\ sem = [p \in Proc |-> NoSem]
    /\ wait_state = [p \in Proc |-> "0"]
    /\ wakeup_flags = [p \in Proc |-> "INTERRUPTED"]
    /\ timer = [p \in Proc |-> 0]
    /\ timeout = [p \in Proc |-> 0]
    /\ elapsed = [p \in Proc |-> 0]
    /\ exiting = [p \in Proc |-> FALSE]
    /\ ret = [p \in Proc |-> "none"]
    /\ panicked = "no"
    /\ net = value

-----------------------------------------------------------------------------
(* The end of a kernel call: may_killed, then back to user mode.  The      *)
(* process that exits gives up its references (put_sem_queue).             *)

\* p leaves the kernel, with the references r left to it by its call.
BackToUser(p, r) ==
    /\ pc' = [pc EXCEPT ![p] = IF exiting[p] THEN "dead" ELSE "user"]
    /\ refs' = IF exiting[p] THEN [s \in USem |-> r[s] \ {p}] ELSE r

\* semu_list_search finds s in p's list; an invalid one is dropped there.
Found(p, s) == p \in refs[s] /\ valid[s]
Searched(p, s) == IF valid[s] THEN refs ELSE [refs EXCEPT ![s] = @ \ {p}]

-----------------------------------------------------------------------------
(* __down and __up.                                                        *)

\* __down takes a token, or queues the process and sleeps.
Take(p, s) ==
    /\ value[s] > 0
    /\ value' = [value EXCEPT ![s] = @ - 1]
    /\ net' = [net EXCEPT ![s] = @ - 1]

\* Mutant: the wait record is not queued.
wait_current_unqueued(p, s) ==
    /\ wait_state' = [wait_state EXCEPT ![p] = WaitStateOf(s)]
    /\ wakeup_flags' = [wakeup_flags EXCEPT ![p] = "INTERRUPTED"]
    /\ UNCHANGED wait_queue

wait_current_set(p, s) ==
    /\ wait_state' = [wait_state EXCEPT ![p] = WaitStateOf(s)]
    /\ wakeup_flags' = [wakeup_flags EXCEPT ![p] = "INTERRUPTED"]
    /\ wait_queue' = [wait_queue EXCEPT ![s] = Append(@, p)]

\* Mutant: the record of a process that was not woken by a post stays.
wait_current_left(p) == wait_queue

\* The queues once the record of p is out of the one it is in, if it is
wait_current_del(p) == [wait_queue EXCEPT ![sem[p]] = RemoveFirst(@, p)]

\* ipc_timer_init, saved_ticks = ticks and ipc_add_timer
ipc_add_timer(p, t) ==
    /\ timeout' = [timeout EXCEPT ![p] = t]
    /\ elapsed' = [elapsed EXCEPT ![p] = 0]
    /\ timer' = [timer EXCEPT ![p] = t]

\* Mutant: the tick that ends the wait does not count.
ipc_check_later(p) == timeout[p] # 0 /\ elapsed[p] > timeout[p]

ipc_check_timeout(p) == timeout[p] # 0 /\ elapsed[p] >= timeout[p]

SleepOn(p, s, t) ==
    /\ value[s] <= 0
    /\ wait_current_set(p, s)
    /\ ipc_add_timer(p, t)
    /\ pc' = [pc EXCEPT ![p] = "down"]
    /\ sem' = [sem EXCEPT ![p] = s]

\* Mutant: the value goes up although the token has been handed over.
UpTwice(s) ==
    /\ value' = [value EXCEPT ![s] = @ + 1]
    /\ net' = [net EXCEPT ![s] = @ + 1]
    /\ LET w == Head(wait_queue[s])
       IN IF wait_queue[s] = <<>> THEN UNCHANGED <<wait_queue, wait_state, wakeup_flags>>
          ELSE /\ wait_queue' = [wait_queue EXCEPT ![s] = Tail(@)]
               /\ wakeup_flags' = [wakeup_flags EXCEPT ![w] = WaitStateOf(s)]
               /\ wait_state' = [wait_state EXCEPT ![w] = "0"]
    /\ UNCHANGED panicked

\* Mutant: the token goes back although somebody waits.
UpNoWake(s) ==
    /\ value' = [value EXCEPT ![s] = @ + 1]
    /\ net' = [net EXCEPT ![s] = @ + 1]
    /\ UNCHANGED <<wait_queue, wait_state, wakeup_flags, panicked>>

\* __up hands the token to the first waiter, whom it asserts to be asleep
\* on this semaphore, or puts it back.
Up(s) ==
    IF wait_queue[s] = <<>>
    THEN /\ value' = [value EXCEPT ![s] = @ + 1]
         /\ net' = [net EXCEPT ![s] = @ + 1]
         /\ UNCHANGED <<wait_queue, wait_state, wakeup_flags, panicked>>
    ELSE LET w == Head(wait_queue[s])
         IN IF wait_state[w] # WaitStateOf(s)
            THEN /\ panicked' = "up"
                 /\ UNCHANGED <<value, net, wait_queue, wait_state, wakeup_flags>>
            ELSE /\ wait_queue' = [wait_queue EXCEPT ![s] = Tail(@)]
                 /\ wakeup_flags' = [wakeup_flags EXCEPT ![w] = WaitStateOf(s)]
                 /\ wait_state' = [wait_state EXCEPT ![w] = "0"]
                 /\ net' = [net EXCEPT ![s] = @ + 1]
                 /\ UNCHANGED <<value, panicked>>

\* The rest of __down, once the process runs again: the timer goes, the wait
\* record leaves the queue if it is still there, and the flags tell who woke
\* the process.  The record and the timer are gone with the stack frame.
DownReturns(p) ==
    /\ panicked = "no" /\ pc[p] = "down" /\ ~Sleeping(p)
    /\ LET s == sem[p]
           got == wakeup_flags[p] = WaitStateOf(s)
       IN /\ wait_queue' = wait_current_del(p)
          /\ net' = IF got THEN [net EXCEPT ![s] = @ - 1] ELSE net
          /\ IF s \in KSem
             THEN /\ pc' = [pc EXCEPT ![p] = "crit"]
                  /\ panicked' = IF got THEN "no" ELSE "down"
                  /\ UNCHANGED <<refs, ret, sem>>
             ELSE /\ BackToUser(p, refs)
                  /\ ret' = [ret EXCEPT ![p] =
                        IF got THEN "ok"
                        ELSE IF ipc_check_timeout(p) THEN "E_TIMEOUT" ELSE "error"]
                  /\ sem' = [sem EXCEPT ![p] = NoSem]
                  /\ UNCHANGED panicked
    /\ timer' = [timer EXCEPT ![p] = 0]
    /\ timeout' = [timeout EXCEPT ![p] = 0]
    /\ elapsed' = [elapsed EXCEPT ![p] = 0]
    /\ wakeup_flags' = [wakeup_flags EXCEPT ![p] = "INTERRUPTED"]
    /\ UNCHANGED <<value, valid, wait_state, exiting>>

-----------------------------------------------------------------------------
(* Kernel mutexes, as lock_mm, lock_sfs_fs and the like use them: down,    *)
(* kernel code that may itself sleep for a while, up.                      *)

down(p, s) ==
    /\ panicked = "no" /\ pc[p] = "user"
    /\ \/ /\ Take(p, s)
          /\ pc' = [pc EXCEPT ![p] = "crit"]
          /\ sem' = [sem EXCEPT ![p] = s]
          /\ UNCHANGED <<wait_queue, wait_state, wakeup_flags, timer, timeout, elapsed>>
       \/ SleepOn(p, s, 0) /\ UNCHANGED <<value, net>>
    /\ UNCHANGED <<valid, refs, exiting, ret, panicked>>

up(p) ==
    /\ panicked = "no" /\ pc[p] = "crit"
    /\ Up(sem[p])
    /\ BackToUser(p, refs)
    /\ sem' = [sem EXCEPT ![p] = NoSem]
    /\ UNCHANGED <<valid, timer, timeout, elapsed, exiting, ret>>

-----------------------------------------------------------------------------
(* User semaphores.                                                        *)

ipc_sem_wait(p, s, t) ==
    /\ panicked = "no" /\ pc[p] = "user" /\ p \in refs[s]
    /\ \/ /\ ~Found(p, s)
          /\ BackToUser(p, Searched(p, s))
          /\ ret' = [ret EXCEPT ![p] = "E_INVAL"]
          /\ UNCHANGED <<value, net, wait_queue, waitVars>>
       \/ /\ Found(p, s) /\ Take(p, s)
          /\ BackToUser(p, refs)
          /\ ret' = [ret EXCEPT ![p] = "ok"]
          /\ UNCHANGED <<wait_queue, waitVars>>
       \/ /\ Found(p, s) /\ SleepOn(p, s, t)
          /\ ret' = [ret EXCEPT ![p] = "none"]
          /\ UNCHANGED <<value, net, refs>>
    /\ UNCHANGED <<valid, exiting, panicked>>

ipc_sem_post(p, s) ==
    /\ panicked = "no" /\ pc[p] = "user" /\ p \in refs[s]
    /\ value[s] < MaxValue
    /\ IF Found(p, s) THEN Up(s)
       ELSE UNCHANGED <<value, net, wait_queue, wait_state, wakeup_flags, panicked>>
    /\ BackToUser(p, Searched(p, s))
    /\ UNCHANGED <<valid, sem, timer, timeout, elapsed, exiting, ret>>

\* ipc_sem_free invalidates the semaphore and wakes every waiter.
ipc_sem_free(p, s) ==
    /\ panicked = "no" /\ pc[p] = "user" /\ Found(p, s)
    /\ valid' = [valid EXCEPT ![s] = FALSE]
    /\ wait_queue' = [wait_queue EXCEPT ![s] = <<>>]
    /\ LET woken == ToSet(wait_queue[s])
       IN /\ wait_state' = [q \in Proc |-> IF q \in woken THEN "0" ELSE wait_state[q]]
          /\ wakeup_flags' = [q \in Proc |-> IF q \in woken THEN "INTERRUPTED"
                                             ELSE wakeup_flags[q]]
    /\ BackToUser(p, refs)
    /\ UNCHANGED <<value, net, sem, timer, timeout, elapsed, exiting, ret, panicked>>

-----------------------------------------------------------------------------
(* Everything else that wakes, kills or starts a process.                  *)

\* The timer interrupt: ticks, and run_timer_list.  wakeup_proc of a process
\* that is awake already only warns.
tick ==
    /\ panicked = "no"
    /\ LET due == {p \in Proc : timer[p] = 1}
       IN /\ timer' = [p \in Proc |-> IF timer[p] = 0 THEN 0 ELSE timer[p] - 1]
          /\ wait_state' = [p \in Proc |-> IF p \in due THEN "0" ELSE wait_state[p]]
          /\ panicked' = IF \E p \in due : Sleeping(p) /\ ~Interruptible(wait_state[p])
                         THEN "timer" ELSE "no"
    /\ elapsed' = [p \in Proc |-> IF elapsed[p] < timeout[p] THEN elapsed[p] + 1
                                  ELSE elapsed[p]]
    /\ UNCHANGED <<semVars, pc, sem, wakeup_flags, timeout, exiting, ret, net>>

\* do_kill, called by p: q is marked, and woken if its sleep allows it.
do_kill(p, q) ==
    /\ panicked = "no" /\ pc[p] = "user" /\ p # q
    /\ pc[q] # "dead" /\ ~exiting[q]
    /\ exiting' = [exiting EXCEPT ![q] = TRUE]
    /\ wait_state' = [wait_state EXCEPT ![q] = IF Interruptible(@) THEN "0" ELSE @]
    /\ BackToUser(p, refs)
    /\ UNCHANGED <<value, valid, wait_queue, sem, wakeup_flags, timer, timeout,
                   elapsed, ret, panicked, net>>

\* A trap that finds the process marked (may_killed), on its way back.
may_killed(p) ==
    /\ panicked = "no" /\ pc[p] = "user" /\ exiting[p]
    /\ BackToUser(p, refs)
    /\ UNCHANGED <<value, valid, wait_queue, waitVars, exiting, ret, panicked, net>>

\* do_exit, by the process itself
do_exit(p) ==
    /\ panicked = "no" /\ pc[p] = "user" /\ ~exiting[p]
    /\ pc' = [pc EXCEPT ![p] = "dead"]
    /\ exiting' = [exiting EXCEPT ![p] = TRUE]
    /\ refs' = [s \in USem |-> refs[s] \ {p}]
    /\ UNCHANGED <<value, valid, wait_queue, waitVars, ret, panicked, net>>

\* do_fork with dup_sem_queue: the child gets the valid semaphores.
do_fork(p, q) ==
    /\ panicked = "no" /\ pc[p] = "user" /\ pc[q] = "dead"
    /\ pc' = [pc EXCEPT ![q] = "user"]
    /\ exiting' = [exiting EXCEPT ![q] = FALSE]
    /\ ret' = [ret EXCEPT ![q] = "none"]
    /\ refs' = [s \in USem |-> IF Found(p, s) THEN refs[s] \cup {q} ELSE refs[s]]
    /\ UNCHANGED <<value, valid, wait_queue, waitVars, panicked, net>>

\* panic() stops the machine.
halt == panicked # "no" /\ UNCHANGED vars

Next ==
    \/ \E p \in Proc :
         \/ DownReturns(p) \/ up(p) \/ may_killed(p) \/ do_exit(p)
         \/ \E s \in KSem : down(p, s)
         \/ \E s \in USem : \/ \E t \in Timeout : ipc_sem_wait(p, s, t)
                            \/ ipc_sem_post(p, s) \/ ipc_sem_free(p, s)
         \/ \E q \in Proc : do_kill(p, q) \/ do_fork(p, q)
    \/ tick
    \/ halt

Spec == Init /\ [][Next]_vars

\* A process that can go on does: woken ones are scheduled, kernel code gets
\* to the end of what it does under a mutex, every CPU traps for ever (a
\* timer interrupt at least), and ticks keep coming.
FairSpec ==
    /\ Spec
    /\ WF_vars(tick)
    /\ \A p \in Proc : WF_vars(DownReturns(p)) /\ WF_vars(up(p)) /\ WF_vars(may_killed(p))

-----------------------------------------------------------------------------
\* Woken with the token of s, and not yet running again
Handed(s) == {p \in Proc : pc[p] = "down" /\ sem[p] = s /\ wakeup_flags[p] = WaitStateOf(s)}

\* Tokens are neither lost nor made: the value and the tokens on their way to
\* a woken waiter are what posts have put in less what waits have taken out,
\* whatever timeouts, kills and frees hit the waiter between the post that
\* woke it and its return.
TokensConserved ==
    \A s \in Semaphore : value[s] + Cardinality(Handed(s)) = net[s]

\* A kernel mutex has at most one holder, counting the process it has been
\* handed to and, for a free one, nobody: also when holders and waiters are
\* killed.
MutexExclusive ==
    \A s \in KSem :
        Cardinality({p \in Proc : pc[p] = "crit" /\ sem[p] = s})
            + Cardinality(Handed(s)) + value[s] = 1

\* Nobody waits while there is a token, and nobody sleeps outside a queue,
\* where no post would find it.
NoLostWakeup ==
    \A s \in Semaphore :
        /\ value[s] > 0 => wait_queue[s] = <<>>
        /\ \A p \in Proc : pc[p] = "down" /\ sem[p] = s /\ Sleeping(p)
                             => Contains(wait_queue[s], p)

\* A wait record in a queue belongs to a process that is still inside that
\* wait, once, and the semaphore is still in memory: nobody is left behind in
\* a queue by a timeout, a kill, a free or an exit.
QueueOfWaiters ==
    \A s \in Semaphore :
        /\ IsInjective(wait_queue[s])
        /\ \A p \in ToSet(wait_queue[s]) :
             pc[p] = "down" /\ sem[p] = s /\ (s \in USem => p \in refs[s] /\ valid[s])

\* down() asserts that nothing but up() has woken it, and run_timer_list that
\* a process with a timer sleeps interruptibly: neither a kill nor a timer
\* ever reaches a process inside a kernel semaphore.
KernelWaitUndisturbed == panicked \notin {"down", "timer"}

\* ipc_sem_wait fails without a timeout only for a process that is being
\* killed or a semaphore that has been freed: a wait that was ended by its
\* own timer says so.
ErrorMeansKilledOrFreed ==
    \A p \in Proc : ret[p] = "error" => exiting[p] \/ \E s \in USem : ~valid[s]

\* __up asserts that the first waiter still sleeps on the semaphore.  This does
\* not hold: a timer or a kill may have woken it (README, section 3).
UpFindsSleeper == panicked # "up"

\* A wait with a timeout comes to an end, and so does one for a kernel mutex:
\* those are handed over in order, so whoever asks for one gets it.
WaitEnds ==
    \A p \in Proc :
        pc[p] = "down" /\ (timeout[p] > 0 \/ sem[p] \in KSem)
            ~> pc[p] # "down" \/ panicked # "no"

\* A killed process exits.  This does not hold of one that goes to sleep after
\* the kill (README, section 3).
KilledExits == \A p \in Proc : exiting[p] ~> pc[p] = "dead" \/ panicked # "no"
=============================================================================
