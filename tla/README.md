# A TLA+ model of ucore for x86_64 SMP

ucore is a teaching operating system; this repository holds its port to 64-bit
multiprocessors (`src/ucore`), together with a vendored Go tool chain
(`src/go`, third-party, not looked at here). The kernel proper is
`src/ucore/src/kern-ucore`, which runs above a small hardware layer, the
`supervisor`. By lines most of the repository is Go, but none of that Go is
its own: all of the project's code is C, and it is the C that is modelled.
The model follows the x86_64 build (`arch/x86_64`), with one exception: pages
are swapped out only on the builds with one CPU (`arch/i386`, `or32`, `um`), whose
`alloc_pages` waits for kswapd, and Vm follows those. The code outside `arch` is shared.

All paths below are relative to `src/ucore/src/kern-ucore` unless they say
otherwise. `PROJECT.json` maps every definition to the lines it translates.

## 1. The system

The kernel is not preemptible and runs under one big lock: whoever takes a trap
from user mode, or from the idle loop, spins in `kern_enter` for it. Inside
the kernel every function is therefore atomic up to the point where it calls
`schedule`; the concurrency that is left is

* *between CPUs*: the lock itself, the interrupts that bypass it (the
  inter-processor interrupt of a TLB shootdown), and user code that goes on
  running while another CPU is in the kernel;
* *between processes*: everything that happens while a process sleeps, and
  between the moment it is woken and the moment it runs again;
* *with time*: timers that expire between two steps of a process.

| component | state | operations | interacts with | what is hard | correct means |
|---|---|---|---|---|---|
| kernel lock, trap path (`arch/x86_64/glue-ucore/mp.c`, `trap.c`, `arch/x86_64/process/proc.c`) | lock word, `local_kern_locking`, trap frames, `current` | `trap`, `kern_enter`, `kern_leave`, `forkret`, `kernel_execve` | everything | the lock is taken by one process and returned by another; frames change under `trap`'s feet | one CPU in the kernel; the lock returned exactly once |
| TLB shootdown (`mp.c`, `trap.c`) | `mpti_*`, `ipi_raise` | `mp_tlb_invalidate`, `ipi` | page tables, lock | spinning under the lock for CPUs that spin for the lock | terminates; no stale translation survives |
| scheduler (`schedule/`) | run queues, slices, process states | `wakeup_proc`, `schedule`, tick | processes, timers, wait queues | wakeups of processes that are not switched out yet; several CPUs | nobody lost, nobody twice, nobody on an empty slice |
| timers (`schedule/sched.c`) | delta list | `add_timer`, `del_timer`, `run_timer_list` | sleep, semaphores, mailboxes, events | deltas, equal timeouts, cancellation in the middle | each timer at its tick |
| semaphores, wait queues (`sync/`) | value, queue, references, timers | `up`, `down`, `ipc_sem_*` | kill, exit, fork, timers | timeouts and kills that race a post | tokens conserved, mutexes exclusive, nobody left in a queue |
| pids (`process/proc.c`) | `last_pid`, `next_safe`, `proc_list` | `get_pid` | fork, wait | wrap-around, the cached window | unique |
| process life cycle (`process/proc.c`) | family links, thread groups, states | fork, exec, exit, wait, kill | all of the above | threads that exit or exec while others wait; orphans handed on in the middle of an exit | the hand-kept lists agree, every zombie reaped, every waiter woken |
| events (`sync/event.c`) | event boxes | `ipc_event_send`, `ipc_event_recv` | kill, exit, wait, timers | a rendezvous with a process that may be dying, or gone | sent means taken, once; nobody waits for the dead |
| mailboxes (`sync/mbox.c`) | slots, two wait queues | `ipc_mbox_*` | kill, timers | put back after a failed copy, freed and opened again under a sleeper | no message lost or doubled, nobody stuck |
| page faults, swap (`mm/vmm.c`, `mm/swap.c`, `glue-ucore/pmm.c`) | page tables, frames, swap entries, two lists | fault, fork, unmap, exit, kswapd | processes, disk | copy on write against swapping, sleeps in the middle of a fault, dirty bits | each address space reads what it wrote; nothing leaks |
| pipes and open files (`fs/pipe`, `fs/file.c`, `fs/fs.c`, `fs/sysfile.c`, `fs/vfs/inode.c`) | buffer, sleepers, counts in three layers | read, write, close, dup, fork, exec, exit | wait queues, processes | files closed under a sleeping call, partial transfers | a byte stream; nothing freed in use, nobody asleep in vain |
| areas, shared memory, SFS, devices (`mm/vmm.c`, `mm/shmem.c`, `fs/`) | not modelled, see section 5 | | | | |

The hazards we looked for, with the line where each bites, are in
`PROJECT.json`.

## 2. The modules

The proofs are in modules that extend the ones they are about: `LockProofs` (KernLock and Sem), `SchedProofs`
(Sched and TimerList), `FamilyProofs` (Family and Pid), `EventProofs`, `MboxProofs`, `PipeProofs` and `VmProofs`.
`QueueLemmas` has what they share: which set of waiters
a wait queue lists after `wait_queue_add`, `wakeup_first` and `wait_queue_del`, the same for a set whose
members are counted, and induction on the natural numbers. Where one proof module extends two models, the names
of one of them begin with the component's (`KernInit`, `TimerSpec`, `PidNext`, ...).

### KernLock: the lock, the trap path and the shootdown

A CPU is what its current process does, and `at[p]` says where process `p` is,
on a CPU or switched out: in user code or the idle loop (`run`), in
`kern_enter` (`chk`, `try`), in `trap_dispatch` (`disp`), between it and the
lock (`tail`, `leave`), or not started (`forkret`). The idle process of CPU `c`
is written `c`.

* `TrapEnter`, `EnterCheck`, `EnterTry`: `trap`'s decision to lock and
  `kern_enter`'s loop, which looks at `ipi_raise` and tries the lock in two
  separate steps.
* `TrapTail`, `Leave`: the end of `trap`; the lock is returned according to the
  frame as it is *then*, which `Exec` may have changed.
* `Block`, `Exit`, `Fork`, `ForkRet`: switches in the middle of a handler or of a
  kernel thread, with the lock staying on the CPU; the next process returns it.
* `NestedTrap`, `NestedReturn`: a page fault in kernel mode.
* `SetPte`, `SdBegin`, `SdRaise`, `SdFlush`, `SdWait`, `SdEnd`: a change of a page
  table entry and `mp_tlb_invalidate`, loop iteration by loop iteration.
* `IpiDeliver`, `IpiFlush`, `IpiEnd`: the handler `ipi`. The interrupt stays pending
  (`ipi_hw`) while the CPU has interrupts off, and may arrive when
  `kern_enter`'s loop has served the request by hand.
* `TlbFill`: the hardware may load a translation at any time.

Only one page of each address space is modelled: pages do not interact.

### Sched: the scheduler

Under the lock each function is one action; `kern` is the CPU that holds it.
`EnqueueWith` is `MLFQ_enqueue` calling `RR_enqueue`; `schedule` does both of its
halves, putting the running process back and taking out the next, because
nothing comes between them. `sleep` sets the state only: the interrupt that
wakes a process before it has reached `schedule` falls between the two.

### Timers and TimerList

`Timers` says what a timer promises: independent countdowns. `TimerList` is the
list of `schedule/sched.c`, each timer counting from its predecessor, and
implements `Timers` under the mapping `left` (the sum of the deltas up to a
timer).

### Sem: semaphores

A call is atomic until it sleeps. A sleeping process has a `wait_state`;
being woken and running again (`DownReturns`) are two steps, and everything
another process, a timer or a kill can do happens in between. Kernel
semaphores are used as mutexes, the way `lock_mm` and the file systems use
them; user semaphores have timeouts, can be freed while others wait and go
away with their last reference. The assertions of the code (in `__up`, `down`
and `run_timer_list`) set `panicked`.

### Family: parents, children and threads

`parent`, `cptr`, `optr`, `yptr` and `next` (the `thread_group` list) are the links of
`struct proc_struct`, changed one by one as the code changes them; `LinksConsistent`
compares them. A step is what a process does between two points where it may
give up the kernel lock. `do_fork` and `do_execve` are one step each, since
they sleep only before they change anything that is modelled. Exit is three:
entering `__do_exit` (from `do_exit`, `do_exit_thread` or `may_killed`), a possible sleep
on a semaphore while `put_fs` closes the files, and the rest (`ExitFinish`), which turns
the process into a zombie, wakes its parent's group and hands its
children to the next thread or to init. `do_wait` is `WaitRound` each time its loop comes
round; init's own loop in `init_main` is a process in `do_wait` that never
returns to user mode. `exiting` is `PF_EXITING` until the process has entered
`__do_exit`. `ksem` holds the processes whose wait record is in the queue of a kernel semaphore: `put_fs` adds one and `up` takes it
out and wakes it; a process that anything else woke would still be in it, which is what `KsemUndisturbed` looks for. A pid is the process structure it belongs to, and both are used
again. An exec that fails ends in `do_exit`, which is a step of its own already.
User programs do not kill init and kswapd.

### Mbox: mailboxes

Mailboxes do not interact, so there is one, opened and freed again and again; what
used to be another mailbox under the same number is the same variable. The
sleeps are those in the two wait queues and, in a receiver, the `lock_mm`
between taking a message out and copying it (`CopyMsg`), after which a failed copy puts
the message back at the front. Timers are the countdowns of `Timers`, with one exception:
the loops of `send_msg` and `recv_msg` start the same timer again without giving
it a new value, and what is in it then is what the delta list of `TimerList` left:
any value up to the time that was left (`RestartTimer`).

### Pid: process numbers

`get_pid` with its two static variables, and the list of processes it scans.
`Turn` is one turn of its loop and `Scan` the whole of it, restarts included.

### Event: the rendezvous

A sender queues itself in the event box of the process it names and sleeps
until a receive takes its event; the box is part of the other process's
`proc_struct`, which may die and be reaped first. `BackToUser` is the end of
every call: a process that has been killed turns into a zombie there
and wakes the senders in its box (`__do_exit`). A timer is armed, expired or
none; *when* it expires is the business of TimerList. Events carry no data, since
the properties are about which send meets which receive; `taken` counts that.

### Channel and Pipe: pipes and the files they are used through

`Channel` is the promise: a bounded stream that hands out the accepted bytes in
order and each once, also after it has been closed. `Pipe` has the buffer with its two positions
(`pipe_state_read` and `pipe_state_write` are one pass from their `try_again` each), the two inodes
with their open and reference counts, the file tables of processes, which `CLONE_FS`
shares, and the loops of `sysfile_read` and `sysfile_write`. `vfs_close` is the cascade that a file's
last release sets off: inode, closing the pipe, waking everybody, freeing the pipe's
state. Bytes are numbered in the order of acceptance, which makes the refinement mapping simple:
`accepted` is `1 .. p_wpos`. The points where a call may lose the CPU are `pipe_state_wait` and the
end of a round, where `lock_mm` is called.

### Memory and Vm: private memory, copy on write and swapping

`Memory` is the promise: every address space has a page of its own that
holds what its processes last wrote. In `Vm` an entry of a page table is empty, maps a frame (with the
right to write and the dirty bit) or holds a swap entry. `mem` is one record, so that the
functions of `mm/swap.c` and `glue-ucore/pmm.c`, which change several parts of it, are operators that take
and return it, under the names they have in the code (`page_insert`, `page_remove_pte`,
`swap_remove_entry`, ...).

* `Fault`, `do_pgfault`, `pgdir_alloc_page`, `CowPage`, `swap_in_page`, `swap_in_fails`: `do_pgfault`, cut
  where it sleeps: in `lock_mm` and in each `alloc_page`. What it does afterwards uses the
  entry as it is then.
* `swap_out_vma`, `kswapd_main`: kswapd, which has the CPU to itself until it sleeps. Which pages
  it visits, in what number, and when it has enough are left open; that covers the accessed bit and
  the cursors. `page_launder` goes through the inactive list page by page; what it does to a page
  depends on that page only, so the model deals with all of them at once.
* `Access`: user code reads or writes. A write changes *part* of the page, so that a lost older
  value shows. Between a page fault and the instruction that caused it (`pc` is "retry") anything may happen, or the
  process may end: `trap` calls `may_killed` there, and `schedule` if the slice is used up.
* `do_fork`, `do_clone`, `mm_unmap`, `do_exit`: as far as they concern the page.

One private page per address space: pages do not depend on their neighbours. The disk
is polled, so that a transfer is part of the step that waits for it, and `swap_in_sem` is
never contended.

## 3. What is checked

| run | instance | shows |
|---|---|---|
| `kernel_lock` | 2 CPUs, 2 processes, 1 address space and the kernel's, 2 entries | `BigKernelLock`, `OneCpuPerProcess`, `TlbCoherence`, `ShootdownReturns` |
| `timers` | 4 timers, timeouts up to 4 | refinement of `Timers` |
| `sched` | 2 CPUs, 3 processes (1 kernel thread), 2 queues with slices 2 and 4 | `RunnableOnce`, `OnCpuIsAlive`, `QueuesMatchLinks`, `SliceLeft`, `IdleOnlyWhenEmpty`, `TopQueueServed` |
| `sem` | 3 processes, 1 mutex, 1 user semaphore, timeouts 0 (for ever) and 1 | `TokensConserved`, `MutexExclusive`, `NoLostWakeup`, `QueueOfWaiters`, `KernelWaitUndisturbed`, `ErrorMeansKilledOrFreed`, `WaitEnds` |
| `family_safety` | init, kswapd, 3 user processes or threads | `LinksConsistent`, `ParentAlive`, `NoZombieMissed`, `InitChecks`, `KsemUndisturbed` |
| `family_live` | 2 user processes | `OrphansReaped`, `InitQuits`, `KilledWaiterExits` |
| `mbox` | 3 processes, 1 slot, 3 messages, sizes 1 and 2, timeouts 0 and 2 | `MessageInOnePlace`, `ReusedOnlyWhenEmpty`, `NobodyStuck` |
| `pid` | 2 CPUs, 6 processes, pids below 9 | `UniquePid` (among the processes of `proc_list`), `WindowIsFree` |
| `event` | 3 processes | `SentMeansTakenOnce`, `BoxHoldsSenders`, `SendEnds` |
| `pipe` | 3 processes, 2 file tables of 2 files, 2 bytes of buffer, requests of 1 and 3 bytes | refinement of `Channel`, `NothingFreedInUse`, `NobodySleepsInVain` |
| `vm` | 2 processes or threads, 2 address spaces, 3 frames, 2 swap entries, contents 0 and 1 | `PrivateButForDroppedBits`, `RefsCounted`, `NothingLost` |
| `vm_lost_write` | the same | **violated**: refinement of `Memory` |

Why the bounds are enough. The lock protocol needs a CPU that holds the lock
and one that wants it or is asked to flush, in user code, in `kern_enter` or in
the idle loop: the CPUs a shootdown waits for answer independently of each
other. The safety properties are proved for any number of them. Two processes let one inherit the
lock from the other, and share an address space or run on the kernel's; that
several address spaces are kept apart is left to the proof. Two queues are
the first and the last, which is all `MLFQ_enqueue` distinguishes, and three
processes on two CPUs leave one waiting. Four timers let one be inserted
before, between and after others that are equally due. Pids below 9 with 6
processes force wrap-arounds in both places of `get_pid`. `MaxValue` in Sem only bounds
how often a semaphore is posted. Three user processes give an exiting thread, the
thread that inherits its children, and a child that is a zombie or still runs. One
slot and three messages let the mailbox be full, a receiver overtake
another one, and a message be put back in front of one that has come in
since; `MaxMsg` bounds how many are sent in all. Three processes in Event are a receiver with
two senders, or a chain of senders that wait for each other. A pipe of 2 bytes and
requests of 3 make a writer sleep with part of its bytes written and the positions go round
the end of the buffer; two file tables for three processes give shared and separate
ones at the same time; two descriptors are the two ends, and duplicates take the place
of one that was closed. `MaxBytes` bounds what is written to one pipe. In Vm, three frames let two address
spaces have copies while a fault holds a third page, and make every fault wait for kswapd in some
state; the second swap entry is the one that is taken away from a page when the first is in
use; two contents tell the page as it was written to the disk from the page after another write.

Symmetry is used for processes, tables, frames and the like in the runs that check no
liveness property.

Fairness. `KernFairSpec` of KernLock asks only that a CPU executes the instruction in
front of it and takes an interrupt that stays pending while it can be taken;
the lock is not assumed to be fair (it is not: a spinning CPU can lose every
race). `Sched!FairSpec` asks that every CPU is interrupted by its timer again
and again, and that a stay in the kernel ends: handlers do not loop. There
the CPU that does not idle must also get a tick in again and again
(strong fairness, because other steps disable it in between). `Sem!FairSpec`
asks that a woken process is scheduled, that code under a mutex finishes,
that user code traps again (the timer sees to it) and that ticks do not stop.
`Family!FairSpec` asks nothing of user programs but that they trap: a marked process comes to
`may_killed`, a woken one runs, a semaphore that an exiting process waits for is
posted, and the exit finishes (strongly fair, because `put_fs` may sleep in
between, though only once per file and lock).

`Event!Spec` asks that woken processes run, timers fire and a marked process traps.

The Family, Mbox, Event, Pipe and Vm runs do not check deadlock: all processes may have
exited, or sleep without timeout for something nobody sends, and nothing is wrong then. What
would be wrong is stated instead (`NoZombieMissed`, `NobodyStuck`, `SendEnds`,
`NobodySleepsInVain`).

### What the violated run shows

**`vm_lost_write`.** `page_insert` writes a page table entry anew even if it maps the page already
(`glue-ucore/pmm.c:162`), and the dirty bit is lost. `do_pgfault` comes there when a page has become
read-only by a fork and the child has gone: the page is not shared any more and is
made writable again in place. The bit is missing until the write is tried again and sets it. If the process's slice
is used up it loses the CPU before that (`arch/i386/glue-ucore/trap.c:234`). Should kswapd come to the entry then, it takes the page for
clean, and if the page has a swap entry from an earlier time, the page is dropped and the
old content on the disk takes its place.

The passing run `vm` is about the same model and says that nothing else can go wrong. In
`PrivateButForDroppedBits` a page is *unsaved* if it differs from the copy that its swap entry has on the disk and nothing says so. Every step is a
step of `Memory`, or leaves what the address spaces read as it is but for those that have an unsaved page swapped out, which may be set back to
the copy on the disk; and a page becomes unsaved in no other way than by a write fault that maps it a second time and drops its
dirty bit.

### Known disagreements without a run of their own

The models contain these steps too. The first three are formulas of Sem and Mbox
that anybody can put into a configuration to see the counterexample.

* `Sem!UpFindsSleeper`: `__up` asserts that the first waiter in the queue still sleeps
  (`sync/sem.c:71`). A waiter that its timer or a kill has woken is runnable,
  with `wait_state` 0, and still in the queue until it runs. A post in that
  window fails the assertion and stops the machine.
* `Sem!KilledExits`: a kill that marks a process which is not asleep yet is lost if the
  process's next call sleeps without timeout: nothing on the way to sleep
  looks at `PF_EXITING`, and later kills are refused (`process/proc.c:972`). In Pipe,
  a writer that is killed with part of its bytes written goes round the loop of
  `sysfile_write` and sleeps again in the same way.
* `Mbox!TimerHasTicks`: a receiver that was woken for a message and finds that another one has
  taken it starts its timer again (`sync/mbox.c:366`). If the timer has fired, or was
  in the list behind one due at the same tick, `expires` is 0 and `add_timer`'s assertion
  stops the machine. If it is not 0 it is the distance from the timer in front instead of the
  time left, and the call ends early, with neither a message nor `E_TIMEOUT`.
* `get_pid` wraps to `lcpu_count` in one place and to 1 in
  another (`process/proc.c:160`); the latter is the pid of the second CPU's
  idle process, and `schedule` decides by the pid whether a process is idle. `UniquePid` is about
  `proc_list`, in which idle processes are not.
* Two threads fault on the same page, and the first sleeps in `alloc_page` with the mm locked. When the second
  gets the lock the page is mapped, and `do_pgfault` runs into its `assert(0)` (`mm/vmm.c:758`). The model, which is of one CPU,
  stops there (`panicked`). On x86_64 `alloc_pages` does not sleep, but the same happens with two CPUs: `MT_SUPPORT` is defined (`schedule/sched.c:153`), so that two
  threads of an address space run at the same time; both fault on a page that is not there yet, the second waits in `kern_enter` while the first
  one's fault is dealt with, and finds the page mapped.

Two that were only read, not modelled: `do_pgfault` calls `swap_duplicate(*ptep)` for a shared area whose page is swapped out
(`mm/vmm.c:745`), where `*ptep` is empty and `*sh_ptep` is meant; and
`pipe_root_create` releases an inode while it holds the lock that releasing takes
(`fs/pipe/pipe_root.c:52`).

Two things the Family model does that nothing in the repository clearly rules
out. `do_wait` looks at the children of all threads of the caller's group
(`process/proc.c:928`), and a thread is a child of the one that created it: a
thread with nobody to wait for finds itself and sleeps. And a thread that
another one's `do_exit` has marked can clone a thread before it gets to
`may_killed`; the new thread is not marked and outlives the group (`process/proc.c:586`).

## 4. What is proved

The proof modules show for every value of the constants (any number of CPUs, processes,
address spaces, queues, frames, slots and bytes) what the runs check on small instances. The
assumptions are the `ASSUME`s of the modules: sets that are counted are finite, sets that are
told apart are disjoint, the values that stand for "none" are not members, sizes and slices are positive. Nothing is assumed of the
program. Each module has an inductive invariant (`IInv`, `SInv`, `Inv`, ...), with one lemma for each action, that
implies the properties; each has been model-checked on the instance of section 3 as well.

Three of the models walk along lists: links between processes, the deltas of timers, the list of pids. What
such a walk computes is a recursive function in the model, and is proved by induction on
the number of steps. The prover cannot apply an induction theorem, which takes the predicate as a parameter, but it can
reason about the set of numbers at which a claim fails: `LeastNat` (from the well-foundedness of the
naturals) gives that set a least element, and `Upwards` and `InitialSegment` are the forms of this that the proofs use.

**KernLock.** `BigKernelLock` is not inductive: that the next process returns the
lock depends on where switched-out processes stopped. `SwitchedOutInv` says
that they all stopped inside the kernel (or have not started), so that a CPU
that switches to one still needs the lock it holds; an idle process that is not
running stopped at the end of its trap. `TlbCoherence` needs
`ShootdownInv`: a shootdown is run by the CPU in the kernel, so there is one at a time
(from `BigKernelLock`); its parameters stay in place while anybody still has to answer;
and a request flag that is up is one that the shootdown is still waiting for, so that a late
interrupt never answers for the next shootdown. `IInv` is the conjunction;
`Inductive` proves it, one lemma per action, and `MutualExclusion`,
`SingleCpu`, `Coherence` and `Typing` follow.

**Sched.** `SInv` strengthens the properties with two facts: idle processes
are always runnable, and a process on a CPU whose slice is used up has
`need_resched` set, which is what keeps it from returning to user mode. The
queues are handled by two lemmas about `QueueOK` (`QueueAppend`, `QueuePop`),
and `TopLevelExists` shows that `MLFQ_pick_next` finds a first queue, from the
well-foundedness of the naturals. `schedule` is proved in two halves, with the
queues after the first half named.

`IdleIsLast` is the action property: only `schedule` changes `current`, and it takes the
idle process only if the queues are empty with the old process put back.

**TimerList.** `TimersAreCountdowns` is the refinement: the list with its deltas implements the independent
countdowns of `Timers`. `TimerInv` says that a timer is at most once in the list and that the first delta is at least 1. `Sums`, the
time left of each timer, is shown to exist, to be the only function of its kind and to grow along the list
(`SumsExist`, `SumsUnique`, `SumsGrow`). Three lemmas say what happens to the times: `add_timer` gives the new timer its own
and leaves the others alone, wherever it is inserted (`AddTimes`); `del_timer`, which adds the delta of
the timer to the next one, changes no other (`DelTimes`); a tick takes one off each, and takes out those with nothing left, which are
the first of the list with delta 0 (`TickTimes`). So the steps are `Arm`, `Cancel` and `Tick`.

**Family.** `LinksConsistent` speaks of what one finds by following links. The invariant says instead
that for each process there is a sequence that the links spell out (`IsList`): `cptr` is its first, `optr` and `yptr` lead to the
next and the one before, and it lists the processes whose `parent` is this one, each once. `ChildrenList` shows that `Children`
finds this sequence, and three predicates with a lemma each say what becomes of the sequences when one is linked (`Linked`), unlinked
(`Unlinked`), or all children of a process go to another one in reverse order (`Inherited`). A thread group is
the smallest set that `next` does not leave (`Ring`); following `next`, which is injective, comes back to where it began, so that `Threads`
finds the ring (`GroupIsRing`). The rest of `Inv`: parents are alive (`ListsOK`) and the dead are in no ring (`RingsOK`), which is why a
process that exits always hands its children to somebody alive; `WaitersOK` is `NoZombieMissed` in terms of `parent` and `Ring`,
and is kept because a process that becomes a zombie, or hands on a zombie, wakes those who wait for it, and
a ring grows only by a new process, which has no children yet; `CountOK` ties `nr_process` to the states, so that init
counts two only when no user process is left (`InitOK`). `LinksAreConsistent`, `ParentsAreAlive`, `NoZombieIsMissed`
and `InitChecksHold` follow. `KsemIsUndisturbed` needs that only `put_fs` and `up` change the queue (`KsemFrame`), and that no other step
wakes a process that waits for a kernel semaphore (`KsemStep`): `__do_kill` and `__do_exit` wake those who wait for a child, and nobody else.

**Pid.** `PidsAreUnique` and `PidWindowIsFree` are about `get_pid` with its cached window. A turn of the
loop keeps that no process seen so far has `last_pid` or a pid between it and `next_safe`. That the loop ends in
the turns that `Scan` has follows from a pid that is free, which exists because there are fewer processes than pids: each turn
comes nearer to it (`Left`), the wrap-around to 1 included.

**Event.** `BoxHoldsSenders` looks at boxes. `SentMeansTakenOnce` also needs to know who is in
none: `BoxesOK` says that whoever is in a box is still sending to its owner and has not
been received, and that the owner is alive and does not sleep for an event; `CallsOK` that a sender's
`wakeup_flags` tell whether its event has been taken. So a send that returns 0 was taken, and it cannot be
taken twice, because the receive that takes it also takes it out of the box.

**Sem.** `QueuesOK`: a queue lists, each once, those inside `down` who have not got a token, and is empty while
the value is positive. `SleepersOK`: whoever sleeps is in the queue of its semaphore. `WaitsOK`: what a process
that is awake inside a wait was woken by. A wait for a kernel semaphore has no timer and
takes no kill, so there it can only be the token; that is `KernelWaitUndisturbed`. `TokensOK` adds
the holders to the count: holders and free or handed-over tokens of a mutex make 1, and
`MutexExclusive` follows by cardinality. The steps in which the machine panics (`panicked`) are part of the proof.

**Mbox.** `MessagesOK` spells out `MessageInOnePlace` for the list, the hands of processes and the freed
messages, as pairwise disjointness, which survives putting a message back at the front. `CountsOK` ties
`inuse` to the processes inside a call, so that a mailbox that is closed and may be opened anew
has none of the old ones left (`ReusedOnlyWhenEmpty`). `WakeupsOK` counts the processes on the way: if somebody sleeps
for a message, there are no more messages than receivers already woken; likewise for slots. It holds because a
wakeup that is not used is passed on: a receiver for which the message is too big, or that puts it back, wakes the next one, and one that
comes too late finds no message that anybody would have to be woken for.

**Pipe.** `FilesOK` counts, for each descriptor, the table's own reference and the calls inside it; `InodesOK` counts
the descriptors of each inode, and the inodes of the pipe. `NothingFreedInUse` follows. The cascade
in `vfs_close` is proved layer by layer, for one file and for a whole table (exit, exec); closing a
table closes several files of the same inode at once, which is where the cardinality lemmas are used. `NobodySleepsInVain`
is inductive together with these. For the refinement, `BufferOK` says that position `i` of the
buffer holds byte `i + 1`; under the mapping (`accepted` is `1 .. p_wpos`, `delivered` is `rcvd`) every step is a step of `Channel` or
a stutter, and this is `ImplementsChannelHolds`.

**Vm.** `RefsCounted` and `NothingLost` are about `mem`, which an operation changes in several small steps, and
between these the counts are off by what the operation has in hand. `Good(s, H, x)` is therefore
the invariant of a memory `s` with the frames `H` held by faults that sleep, and with the page `x` that
`page_insert` has already counted and not yet mapped. For each small change there is a predicate for its effect, a lemma that
the operator has this effect (`...Effect`), and a lemma that the effect keeps `Good` (`...Good`). The counting is done once, in `LocalGood`:
a change that leaves alone all but one frame and one swap entry need only be checked there. The operators are then
put together as in the code. `ProcsOK` says that the lock of an address space is held by exactly the fault that
sleeps in `alloc_page`, and `EntriesOK` that such a fault finds the entry as it left it but for what kswapd does.

`MemoryIsPrivateButForDroppedBits` is about contents. That memory is private without exception is not a theorem (`vm_lost_write`), so the theorem says
what the exception is. The mapping to `Memory` is `Content`, which is what an address space reads wherever the page is: mapped, in the swap cache,
on the disk, or not there yet. The invariant is `DataInv`, that is `Inv` and two claims:

* `Exclusive`: whoever may write to a page shares it with nobody, neither with a second mapping nor with
  an entry that refers to the page through its swap entry;
* `FaultsOK`: a fault that sleeps to get a page and finds its own page still mapped is for a write, which its entry does not allow.

`Clean(s, U)` says that a page with a swap entry that neither its flag nor any page table entry calls dirty is on the disk as it is in memory, unless it
is one of `U`. It holds of any state with the unsaved pages for `U`, and what a step must show is that it holds
afterwards with no more in `U` than the pages whose dirty bit the step has dropped (`Relapsed`). Each effect has a third
lemma (`...Data`): it keeps `Exclusive` and `Clean`, and every address space that it is not about reads what it
read before (`Keeps`). `Sound` puts these together for a whole step: either at most one address space reads something else, and
that change is one of `Memory` (`Observed`), or some address spaces that had a page of `U` swapped out read its copy on the disk (`SetsBack`). The latter is
left to `page_launder`, the only one who throws a page away on the ground that it is clean. `FaultsOK` is what makes the second mapping of a page a
change from read-only and dirty to writable and not dirty, which is `DirtyBitDropped`.

Only model-checked is liveness (`ShootdownReturns`, `TopQueueServed`, `WaitEnds`, `OrphansReaped`, `InitQuits`,
`KilledWaiterExits`, `SendEnds`), since the proof system does not do fairness.

## 5. What is not modelled, and the plan

Written and checked so far: KernLock, Sched, Timers, TimerList, Sem, Family,
Mbox, Pid, Event, Channel and Pipe, Memory and Vm. Next, in this order:

1. shared areas (`mm/shmem.c`, the `VM_SHARE` branches of `mm/vmm.c` and `mm/swap.c`) in Vm, and the list of
   areas (`mm_map`, `mm_unmap`, `mm_brk`) as an algorithm checked against sets of addresses;
2. named pipes (`fs/pipe/pipe_root.c`) and the stdin buffer (`fs/devs/dev_stdin.c`);
3. the buddy system (`supervisor/mm/buddy_pmm.c`) against a set of free frames;
4. SFS: loading and reclaiming inodes under the file system's locks.

Left out for good: the hardware set-up in the supervisor and the boot loader,
device drivers, ELF loading, system-call tables, user programs and host tools,
the experimental kernel `kern-river`, and the Go tool chain. Within the modelled parts: statistics and logging, out-of-memory
returns where they undo everything, `try_down`, and reading a semaphore's
value; the exits of the `sysfile` loops when a copy to or from user memory fails, and the count that `sysfile_write` returns to an
interrupted writer; `free_msg` after a failed second `get_mbox` (`sync/mbox.c:327`); sharing of semaphores by `CLONE_SEM`; the assertions of
`init_main` on memory and on init's own siblings (`process/proc.c:1250`). `do_fork_pid` of Pid checks the number of processes and takes the pid in
one step; in the code `copy_mm` may sleep in between, so that there can be a few processes more than `MAX_PROCESS`, of which `MAX_PID` leaves room for twice as many.
