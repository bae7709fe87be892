------------------------------ MODULE KernLock ------------------------------
(***************************************************************************)
(* The big kernel lock of the x86_64 SMP kernel and the TLB shootdown that *)
(* runs under it: kern_enter, kern_leave and mp_tlb_invalidate             *)
(* (arch/x86_64/glue-ucore/mp.c), trap and ipi (glue-ucore/trap.c), the    *)
(* switch of proc_run and the first return of a new thread (forkret).      *)
(*                                                                         *)
(* A CPU is what its current process does: at[p] is where process p is,    *)
(* whether on a CPU or switched out.                                       *)
(*   "run"      outside any trap: user code, the idle loop's hlt, or the   *)
(*              body of a kernel thread (which owns the lock)              *)
(*   "chk"      kern_enter's loop, about to look at ipi_raise              *)
(*   "try"      kern_enter's loop, about to try the lock                   *)
(*   "disp"     in trap_dispatch                                           *)
(*   "tail"     trap_dispatch is over, may_killed and schedule are next    *)
(*   "leave"    the end of trap, where the lock may be released            *)
(*   "forkret"  a new process that has not run yet                         *)
(*   "dead"     no such process                                            *)
(* Every gate is an interrupt gate, so a CPU takes interrupts only in      *)
(* "run".                                                                  *)
(***************************************************************************)
EXTENDS Naturals, FiniteSets

CONSTANTS
    CPU,        \* the CPUs; the idle process of CPU c is written c itself
    Task,       \* every process other than the idle ones
    InitTask,   \* the kernel thread that proc_init creates
    Mm,         \* address spaces of user processes (mm->pgdir)
    KernMm,     \* init_pgdir: what idle and kernel threads run on
    Pte,        \* the values the page table entry under study takes
    NoEntry     \* the TLB holds no translation

ASSUME KernLockAssumption ==
    /\ InitTask \in Task
    /\ CPU \cap Task = {}
    /\ KernMm \notin Mm
    /\ NoEntry \notin Pte
    /\ IsFiniteSet(CPU)

VARIABLES
    kern_lock,  \* the spinlock word
    locking,    \* pls local_kern_locking of each CPU
    current,    \* pls current of each CPU
    at,         \* where each process is, see above
    user,       \* the outermost trap frame of the process is a user frame
    nested,     \* a trap taken in kernel mode is stacked on the outer one
    mm,         \* the page directory proc_run loads for the process
    pte,        \* the page table entry, in each address space
    tlb,        \* the translation each CPU has cached for it
    sd,         \* where each CPU is in mp_tlb_invalidate
    sd_todo,    \* the CPUs its current loop has still to deal with
    sd_mm,      \* the pgdir argument of mp_tlb_invalidate
    mpti_pgdir, mpti_end,
    ipi_raise,  \* the per-CPU request flags
    ipi_hw,     \* a T_IPI interrupt is pending in the CPU's local APIC
    ipi_pc      \* where each CPU is in the handler ipi

lockVars == <<kern_lock, locking>>
procVars == <<current, at, user, nested, mm>>
sdVars   == <<sd, sd_todo, sd_mm, mpti_pgdir, mpti_end>>
ipiVars  == <<ipi_raise, ipi_hw, ipi_pc>>
kernVars     == <<lockVars, procVars, pte, tlb, sdVars, ipiVars>>

Process  == CPU \cup Task
Pgdir == Mm \cup {KernMm}

-----------------------------------------------------------------------------
(* What trap() asks about the process that trapped.                        *)

\* trap_in_kernel(current->tf), for the frame on top of the chain
InKernelFrame(p) == nested[p] \/ ~user[p]

\* Mutant: the idle process, whose frame is a kernel frame, is forgotten.
LocksKernelUserOnly(p) == ~InKernelFrame(p)

\* !in_kernel || (current == idleproc && otf == NULL): the lock is taken on
\* the way in and released on the way out exactly for these traps
LocksKernel(p) == ~InKernelFrame(p) \/ (p \in CPU /\ ~nested[p])

\* The CPU executes its own code: neither in ipi nor in mp_tlb_invalidate.
Free(c) == ipi_pc[c] = "none" /\ sd[c] = "none"

\* Process p runs on CPU c, at l.
At(c, l) == at[current[c]] = l

\* The body of a kernel thread, or a trap handler, with the lock in hand.
InBody(c) == At(c, "disp") \/ (At(c, "run") /\ current[c] \in Task /\ ~user[current[c]])

OffCpu == {p \in Task : at[p] # "dead" /\ \A c \in CPU : current[c] # p}

KernInit ==
    /\ kern_lock = FALSE
    /\ locking = [c \in CPU |-> FALSE]
    /\ current = [c \in CPU |-> c]
    /\ at = [p \in Process |-> IF p \in CPU THEN "run"
                            ELSE IF p = InitTask THEN "forkret" ELSE "dead"]
    /\ user = [p \in Process |-> FALSE]
    /\ nested = [p \in Process |-> FALSE]
    /\ mm = [p \in Process |-> KernMm]
    /\ pte \in [Mm -> Pte]
    /\ tlb = [c \in CPU |-> NoEntry]
    /\ sd = [c \in CPU |-> "none"]
    /\ sd_todo = [c \in CPU |-> {}]
    /\ sd_mm = [c \in CPU |-> KernMm]
    /\ mpti_pgdir = KernMm
    /\ mpti_end = FALSE
    /\ ipi_raise = [c \in CPU |-> FALSE]
    /\ ipi_hw = [c \in CPU |-> FALSE]
    /\ ipi_pc = [c \in CPU |-> "none"]

-----------------------------------------------------------------------------
(* trap: entry.                                                            *)

\* Any trap or interrupt outside the kernel's handlers.  (kern_enter asserts
\* that this CPU is not already in it: part of BigKernelLock.)
TrapEnter(c) ==
    /\ Free(c) /\ At(c, "run")
    /\ IF LocksKernel(current[c])
       THEN /\ locking' = [locking EXCEPT ![c] = TRUE]
            /\ at' = [at EXCEPT ![current[c]] = "chk"]
       ELSE /\ at' = [at EXCEPT ![current[c]] = "disp"]
            /\ UNCHANGED locking
    /\ UNCHANGED <<kern_lock, current, user, nested, mm, pte, tlb, sdVars, ipiVars>>

\* Mutant: kern_enter spins on the lock alone.
EnterCheckNoIpi(c) ==
    /\ ipi_pc[c] = "none" /\ At(c, "chk")
    /\ at' = [at EXCEPT ![current[c]] = "try"]
    /\ UNCHANGED <<lockVars, current, user, nested, mm, pte, tlb, sdVars, ipiVars>>

\* kern_enter's loop serves a raised IPI by hand, because interrupts are off
\* here, ...
EnterCheck(c) ==
    /\ ipi_pc[c] = "none" /\ At(c, "chk")
    /\ at' = [at EXCEPT ![current[c]] = "try"]
    /\ ipi_pc' = [ipi_pc EXCEPT ![c] = IF ipi_raise[c] THEN "flush" ELSE "none"]
    /\ UNCHANGED <<lockVars, current, user, nested, mm, pte, tlb, sdVars, ipi_raise, ipi_hw>>

\* ... and then tries the lock once.
EnterTry(c) ==
    /\ ipi_pc[c] = "none" /\ At(c, "try")
    /\ IF kern_lock
       THEN /\ at' = [at EXCEPT ![current[c]] = "chk"]
            /\ UNCHANGED lockVars
       ELSE /\ kern_lock' = TRUE
            /\ locking' = [locking EXCEPT ![c] = FALSE]
            /\ at' = [at EXCEPT ![current[c]] = "disp"]
    /\ UNCHANGED <<current, user, nested, mm, pte, tlb, sdVars, ipiVars>>

\* A page fault or an exception inside a handler: no lock on the way in ...
NestedTrap(c) ==
    /\ Free(c) /\ At(c, "disp") /\ current[c] \in Task /\ ~nested[current[c]]
    /\ nested' = [nested EXCEPT ![current[c]] = TRUE]
    /\ UNCHANGED <<lockVars, current, at, user, mm, pte, tlb, sdVars, ipiVars>>

\* ... and, being in kernel mode and not idle, nothing on the way out.
NestedReturn(c) ==
    /\ Free(c) /\ At(c, "disp") /\ nested[current[c]]
    /\ nested' = [nested EXCEPT ![current[c]] = FALSE]
    /\ UNCHANGED <<lockVars, current, at, user, mm, pte, tlb, sdVars, ipiVars>>

DispatchDone(c) ==
    /\ Free(c) /\ At(c, "disp") /\ ~nested[current[c]]
    /\ at' = [at EXCEPT ![current[c]] = "tail"]
    /\ UNCHANGED <<lockVars, current, user, nested, mm, pte, tlb, sdVars, ipiVars>>

-----------------------------------------------------------------------------
(* Switching.                                                              *)

\* proc_run: current, then mp_set_mm_pagetable, whose lcr3 empties the TLB.
\* schedule does nothing when it picks the process that is running.
SwitchTo(c, q) ==
    /\ current' = [current EXCEPT ![c] = q]
    /\ tlb' = [tlb EXCEPT ![c] = IF q = current[c] THEN @ ELSE NoEntry]

\* Mutant: a process that runs elsewhere can be picked.
PickNextAny(c) == {p \in Task : at[p] # "dead"} \cup {c}

\* schedule falls back on the idle process of this CPU.
PickNext(c) == OffCpu \cup {c}

\* A handler or a kernel thread sleeps; it will go on where it stopped.
Block(c) ==
    /\ Free(c) /\ InBody(c) /\ current[c] \in Task
    /\ \E q \in PickNext(c) : SwitchTo(c, q)
    /\ UNCHANGED <<lockVars, at, user, nested, mm, pte, sdVars, ipiVars>>

\* The end of trap, before the lock: a user frame reschedules if it has to,
\* idle always does, a kernel thread never.
TrapTail(c) ==
    /\ Free(c) /\ At(c, "tail")
    /\ at' = [at EXCEPT ![current[c]] = "leave"]
    /\ \/ /\ ~InKernelFrame(current[c]) \/ current[c] \in CPU
          /\ \E q \in PickNext(c) \cup {current[c]} : SwitchTo(c, q)
       \/ /\ current[c] \notin CPU
          /\ UNCHANGED <<current, tlb>>
    /\ UNCHANGED <<lockVars, user, nested, mm, pte, sdVars, ipiVars>>

\* may_killed, or an exit inside the handler: do_exit never comes back.
Exit(c) ==
    /\ Free(c) /\ current[c] \in Task
    /\ InBody(c) \/ (At(c, "tail") /\ user[current[c]])
    /\ at' = [at EXCEPT ![current[c]] = "dead"]
    /\ nested' = [nested EXCEPT ![current[c]] = FALSE]
    /\ \E q \in PickNext(c) : SwitchTo(c, q)
    /\ UNCHANGED <<lockVars, user, mm, pte, sdVars, ipiVars>>

\* kern_leave, for the frames that took the lock; the frame of a kernel
\* thread that has become a user process by exec is a user frame by now.
Leave(c) ==
    /\ Free(c) /\ At(c, "leave")
    /\ at' = [at EXCEPT ![current[c]] = "run"]
    /\ kern_lock' = IF LocksKernel(current[c]) THEN FALSE ELSE kern_lock
    /\ UNCHANGED <<locking, current, user, nested, mm, pte, tlb, sdVars, ipiVars>>

\* forkret: a user process gives back the lock its parent's CPU switched
\* with, a kernel thread keeps it.
ForkRet(c) ==
    /\ Free(c) /\ At(c, "forkret")
    /\ at' = [at EXCEPT ![current[c]] = "run"]
    /\ kern_lock' = IF InKernelFrame(current[c]) THEN kern_lock ELSE FALSE
    /\ UNCHANGED <<locking, current, user, nested, mm, pte, tlb, sdVars, ipiVars>>

\* do_fork with copy_mm: the child shares the address space or gets its own;
\* copy_thread copies the frame.
Fork(c) ==
    /\ Free(c) /\ InBody(c) /\ current[c] \in Task /\ ~nested[current[c]]
    /\ \E q \in Task, m \in Mm :
         /\ at[q] = "dead"
         /\ at' = [at EXCEPT ![q] = "forkret"]
         /\ user' = [user EXCEPT ![q] = user[current[c]]]
         /\ mm' = [mm EXCEPT ![q] = IF user[current[c]] THEN m ELSE KernMm]
    /\ UNCHANGED <<lockVars, current, nested, pte, tlb, sdVars, ipiVars>>

\* do_execve: a new address space is loaded and the frame becomes a user
\* frame, for a user process and for a kernel thread (kernel_execve) alike.
Exec(c) ==
    /\ Free(c) /\ At(c, "disp") /\ current[c] \in Task /\ ~nested[current[c]]
    /\ user' = [user EXCEPT ![current[c]] = TRUE]
    /\ \E m \in Mm : mm' = [mm EXCEPT ![current[c]] = m]
    /\ tlb' = [tlb EXCEPT ![c] = NoEntry]
    /\ UNCHANGED <<lockVars, current, at, nested, pte, sdVars, ipiVars>>

-----------------------------------------------------------------------------
(* mp_tlb_invalidate, and the page table change that calls for it.         *)

\* page_remove_pte, page_insert, swap_out_vma: the entry first ...
SetPte(c) ==
    /\ Free(c) /\ InBody(c) /\ current[c] \in Task
    /\ \E m \in Mm, v \in Pte :
         /\ pte[m] # v
         /\ pte' = [pte EXCEPT ![m] = v]
         /\ sd_mm' = [sd_mm EXCEPT ![c] = m]
    /\ sd' = [sd EXCEPT ![c] = "begin"]
    /\ UNCHANGED <<lockVars, procVars, tlb, sd_todo, mpti_pgdir, mpti_end, ipiVars>>

\* ... then mp_tlb_invalidate publishes what is to be flushed, ...
SdBegin(c) ==
    /\ sd[c] = "begin"
    /\ mpti_end' = FALSE
    /\ mpti_pgdir' = sd_mm[c]
    /\ sd' = [sd EXCEPT ![c] = "raise"]
    /\ sd_todo' = [sd_todo EXCEPT ![c] = CPU \ {c}]
    /\ UNCHANGED <<lockVars, procVars, pte, tlb, sd_mm, ipiVars>>

\* ... asks every other CPU, one by one, ...
SdRaise(c) ==
    /\ sd[c] = "raise"
    /\ \E d \in sd_todo[c] :
         /\ ipi_raise' = [ipi_raise EXCEPT ![d] = TRUE]
         /\ ipi_hw' = [ipi_hw EXCEPT ![d] = TRUE]
         /\ sd_todo' = [sd_todo EXCEPT ![c] = @ \ {d}]
    /\ UNCHANGED <<lockVars, procVars, pte, tlb, sd, sd_mm, mpti_pgdir, mpti_end, ipi_pc>>

\* tlb_invalidate on CPU c: invlpg if the page directory is the loaded one
TlbInvalidate(c, m) ==
    tlb' = [tlb EXCEPT ![c] = IF mm[current[c]] = m THEN NoEntry ELSE @]

\* ... flushes its own TLB and lets the others go, ...
SdFlush(c) ==
    /\ sd[c] = "raise" /\ sd_todo[c] = {}
    /\ TlbInvalidate(c, sd_mm[c])
    /\ mpti_end' = TRUE
    /\ sd' = [sd EXCEPT ![c] = "wait"]
    /\ sd_todo' = [sd_todo EXCEPT ![c] = CPU \ {c}]
    /\ UNCHANGED <<lockVars, procVars, pte, sd_mm, mpti_pgdir, ipiVars>>

\* ... waits for each of them ...
SdWait(c) ==
    /\ sd[c] = "wait"
    /\ \E d \in sd_todo[c] :
         /\ ~ipi_raise[d]
         /\ sd_todo' = [sd_todo EXCEPT ![c] = @ \ {d}]
    /\ UNCHANGED <<lockVars, procVars, pte, tlb, sd, sd_mm, mpti_pgdir, mpti_end, ipiVars>>

\* Mutant: mp_tlb_invalidate returns without waiting.
SdEndEarly(c) ==
    /\ sd[c] = "wait"
    /\ sd' = [sd EXCEPT ![c] = "none"]
    /\ UNCHANGED <<lockVars, procVars, pte, tlb, sd_todo, sd_mm, mpti_pgdir, mpti_end, ipiVars>>

\* ... and returns.
SdEnd(c) ==
    /\ sd[c] = "wait" /\ sd_todo[c] = {}
    /\ sd' = [sd EXCEPT ![c] = "none"]
    /\ UNCHANGED <<lockVars, procVars, pte, tlb, sd_todo, sd_mm, mpti_pgdir, mpti_end, ipiVars>>

-----------------------------------------------------------------------------
(* ipi                                                                     *)

\* The interrupt is taken where interrupts are on.  It may find its request
\* served already, by kern_enter's loop.
IpiDeliver(c) ==
    /\ Free(c) /\ At(c, "run") /\ ipi_hw[c]
    /\ ipi_hw' = [ipi_hw EXCEPT ![c] = FALSE]
    /\ ipi_pc' = [ipi_pc EXCEPT ![c] = IF ipi_raise[c] THEN "flush" ELSE "none"]
    /\ UNCHANGED <<lockVars, procVars, pte, tlb, sdVars, ipi_raise>>

IpiFlush(c) ==
    /\ ipi_pc[c] = "flush"
    /\ TlbInvalidate(c, mpti_pgdir)
    /\ ipi_pc' = [ipi_pc EXCEPT ![c] = "wait"]
    /\ UNCHANGED <<lockVars, procVars, pte, sdVars, ipi_raise, ipi_hw>>

IpiEnd(c) ==
    /\ ipi_pc[c] = "wait" /\ mpti_end
    /\ ipi_raise' = [ipi_raise EXCEPT ![c] = FALSE]
    /\ ipi_pc' = [ipi_pc EXCEPT ![c] = "none"]
    /\ UNCHANGED <<lockVars, procVars, pte, tlb, sdVars, ipi_hw>>

\* The hardware may walk the loaded page table at any time.
TlbFill(c) ==
    /\ tlb[c] = NoEntry /\ mm[current[c]] \in Mm
    /\ tlb' = [tlb EXCEPT ![c] = pte[mm[current[c]]]]
    /\ UNCHANGED <<lockVars, procVars, pte, sdVars, ipiVars>>

-----------------------------------------------------------------------------
\* What a CPU that has started something does without anybody's choice.
CpuStep(c) ==
    \/ EnterCheck(c) \/ EnterTry(c)
    \/ SdBegin(c) \/ SdRaise(c) \/ SdFlush(c) \/ SdWait(c) \/ SdEnd(c)
    \/ IpiDeliver(c) \/ IpiFlush(c) \/ IpiEnd(c)

KernNext == \E c \in CPU :
    \/ TrapEnter(c) \/ NestedTrap(c) \/ NestedReturn(c) \/ DispatchDone(c)
    \/ Block(c) \/ TrapTail(c) \/ Exit(c) \/ Leave(c) \/ ForkRet(c)
    \/ Fork(c) \/ Exec(c) \/ SetPte(c) \/ TlbFill(c)
    \/ CpuStep(c)

KernSpec == KernInit /\ [][KernNext]_kernVars

\* Every CPU keeps executing the instructions in front of it, and a pending
\* interrupt is taken by a CPU that stays in a state where it can be.
KernFairSpec == KernSpec /\ \A c \in CPU : WF_kernVars(CpuStep(c))
-----------------------------------------------------------------------------
KernTypeOK ==
    /\ kern_lock \in BOOLEAN /\ locking \in [CPU -> BOOLEAN]
    /\ current \in [CPU -> Process]
    /\ at \in [Process -> {"run", "chk", "try", "disp", "tail", "leave", "forkret", "dead"}]
    /\ user \in [Process -> BOOLEAN] /\ nested \in [Process -> BOOLEAN]
    /\ mm \in [Process -> Pgdir]
    /\ pte \in [Mm -> Pte] /\ tlb \in [CPU -> Pte \cup {NoEntry}]
    /\ sd \in [CPU -> {"none", "begin", "raise", "wait"}]
    /\ sd_todo \in [CPU -> SUBSET CPU] /\ sd_mm \in [CPU -> Pgdir]
    /\ mpti_pgdir \in Pgdir /\ mpti_end \in BOOLEAN
    /\ ipi_raise \in [CPU -> BOOLEAN] /\ ipi_hw \in [CPU -> BOOLEAN]
    /\ ipi_pc \in [CPU -> {"none", "flush", "wait"}]

\* CPU c executes kernel code that the lock protects.
InKern(c) == InBody(c) \/ At(c, "tail") \/ At(c, "leave") \/ At(c, "forkret")

\* The lock word is set exactly while some CPU is in the kernel, at most one
\* CPU is, and no CPU enters kern_enter twice: every path of trap, of
\* forkret and of kernel_execve, across any switch of processes, gives back
\* the lock exactly once, although the process that took it is seldom the
\* one that returns it.
BigKernelLock ==
    /\ kern_lock <=> \E c \in CPU : InKern(c)
    /\ \A c, d \in CPU : InKern(c) /\ InKern(d) => c = d
    /\ \A c \in CPU : locking[c] <=> At(c, "chk") \/ At(c, "try")

\* A process executes on one CPU at a time, and an idle process on its own.
OneCpuPerProcess ==
    /\ \A c, d \in CPU : current[c] = current[d] => c = d
    /\ \A c \in CPU : current[c] \in CPU => current[c] = c
    /\ \A c \in CPU : at[current[c]] # "dead"

\* CPU c translates with an entry that is no longer in the page table.
Stale(c) == tlb[c] # NoEntry /\ tlb[c] # pte[mm[current[c]]]

\* CPU d is about to make CPU c drop its translation.
Pursues(d, c) ==
    /\ sd_mm[d] = mm[current[c]]
    /\ \/ sd[d] = "begin"
       \/ sd[d] = "raise" /\ (c = d \/ c \in sd_todo[d] \/ ipi_raise[c])
       \/ sd[d] = "wait" /\ c \in sd_todo[d] /\ ipi_raise[c]

\* A stale translation exists only while mp_tlb_invalidate still has to deal
\* with that CPU: once its wait loop has passed a CPU, and for good once it
\* has returned, no CPU translates through the old entry.
TlbCoherence ==
    \A c \in CPU : Stale(c) => \E d \in CPU : Pursues(d, c)

-----------------------------------------------------------------------------
(* The inductive invariant.                                                *)

\* A process that is switched out stopped inside the kernel, so that the CPU
\* that switches to it needs the lock, and has it.
SwitchedOutInv ==
    /\ \A c \in CPU : ~user[c] /\ ~nested[c] /\ at[c] \notin {"dead", "forkret"}
    /\ \A c \in CPU : current[c] # c => at[c] = "leave"
    /\ \A p \in Process : nested[p] => at[p] = "disp"
    /\ \A p \in OffCpu : \/ at[p] \in {"disp", "leave", "forkret"}
                         \/ at[p] = "run" /\ ~user[p]

\* A shootdown belongs to the CPU that is in the kernel, its parameters stay
\* in place until the last CPU has answered, and an unanswered request is
\* one it is still waiting for.
ShootdownInv ==
    /\ \A c \in CPU : sd[c] # "none" =>
          InBody(c) /\ current[c] \in Task /\ ipi_pc[c] = "none"
    /\ \A c \in CPU : sd[c] \in {"raise", "wait"} =>
          /\ mpti_pgdir = sd_mm[c]
          /\ mpti_end <=> sd[c] = "wait"
          /\ c \notin sd_todo[c]
    /\ \A c \in CPU : ipi_raise[c] => \E d \in CPU \ {c} :
          \/ sd[d] = "raise" /\ c \notin sd_todo[d]
          \/ sd[d] = "wait" /\ c \in sd_todo[d]
    /\ \A c \in CPU : ipi_pc[c] # "none" =>
          ipi_raise[c] /\ (At(c, "run") \/ At(c, "try"))
    /\ \A c \in CPU : ipi_pc[c] = "wait" => ~Stale(c)

IInv ==
    /\ KernTypeOK
    /\ OneCpuPerProcess
    /\ SwitchedOutInv
    /\ BigKernelLock
    /\ ShootdownInv
    /\ TlbCoherence

-----------------------------------------------------------------------------
\* mp_tlb_invalidate spins with the kernel lock held and interrupts off, and
\* kern_enter spins with interrupts off; they never wait for each other.
ShootdownReturns == \A c \in CPU : sd[c] # "none" ~> sd[c] = "none"
=============================================================================
