------------------------------- MODULE Family -------------------------------
(***************************************************************************)
(* The family of processes (process/proc.c): the links between parents and *)
(* children, thread groups, fork, exec, exit, wait and kill.               *)
(*                                                                         *)
(* A step is what a process does between two points where it may give up   *)
(* the kernel lock (see KernLock): to leave for user mode, to sleep in     *)
(* do_wait, or to sleep on a semaphore while its files are closed in       *)
(* __do_exit.  The other sleeps of fork and exec come before anything that *)
(* is modelled here changes, so each of the two calls is one step.  A pid  *)
(* is the process structure it belongs to, and both are used again.        *)
(***************************************************************************)
EXTENDS Naturals, FiniteSets, Sequences, SequencesExt

CONSTANTS
    UserProc,   \* the process structures of user processes
    initproc, kswapd, NULL

ASSUME FamilyAssumption ==
    /\ IsFiniteSet(UserProc)
    /\ initproc # kswapd /\ {initproc, kswapd} \cap UserProc = {}
    /\ NULL \notin UserProc \cup {initproc, kswapd}

Proc == UserProc \cup {initproc, kswapd}

VARIABLES
    state,      \* PROC_UNINIT stands for a structure that is not allocated
    wait_state, \* what a sleeping process waits for, 0 if none
    exiting,    \* PF_EXITING, until the process has entered __do_exit
    parent, cptr, optr, yptr, \* parent, youngest child, older, younger sibling
    next,       \* the thread_group list: the next thread of a process
    nr_process, \* the number of linked processes, without the idle ones
    pc,         \* "user", "wait" (do_wait), "exit" (__do_exit, up to the zombie),
                \* "done" (init_main's loop ended)
    target,     \* the pid a process in do_wait waits for, NULL for any
    ksem        \* the processes whose wait_t is in the queue of a kernel semaphore

links == <<parent, cptr, optr, yptr, next, nr_process>>
vars == <<state, wait_state, exiting, links, pc, target, ksem>>

-----------------------------------------------------------------------------
(* Lists.                                                                   *)

\* What following a link from a first process meets.
Walk(link, first) ==
    LET w[n \in 0 .. Cardinality(Proc)] ==
            IF n = 0 THEN first
            ELSE IF w[n - 1] = NULL THEN NULL ELSE link[w[n - 1]]
    IN  w

\* The children of a process, the youngest first.
Children(p) ==
    LET w == Walk(optr, cptr[p])
    IN  [i \in 1 .. Cardinality({n \in DOMAIN w : w[n] # NULL}) |-> w[i - 1]]

\* The threads of a process's group, itself first.
Threads(p) ==
    LET w == Walk(next, p)
        n == CHOOSE n \in 1 .. Cardinality(Proc) :
                /\ w[n] = p
                /\ \A m \in 1 .. n - 1 : w[m] # p
    IN  [i \in 1 .. n |-> w[i - 1]]

Group(p) == ToSet(Threads(p))

\* The children of all threads of the group, in the order do_wait looks at them.
GroupChildren(p) ==
    FlattenSeq([i \in DOMAIN Threads(p) |-> Children(Threads(p)[i])])

\* f with a new value for p, unless p is NULL.
Store(f, p, v) == IF p = NULL THEN f ELSE [f EXCEPT ![p] = v]

-----------------------------------------------------------------------------
Init ==
    \E u \in UserProc : \* user_main, which init_main has created
        /\ state = [p \in Proc |-> IF p \in {u, initproc, kswapd} THEN "RUNNABLE" ELSE "UNINIT"]
        /\ wait_state = [p \in Proc |-> "0"]
        /\ exiting = [p \in Proc |-> FALSE]
        /\ parent = [p \in Proc |-> IF p \in {u, kswapd} THEN initproc ELSE NULL]
        /\ cptr = [p \in Proc |-> IF p = initproc THEN u ELSE NULL]
        /\ optr = [p \in Proc |-> IF p = u THEN kswapd ELSE NULL]
        /\ yptr = [p \in Proc |-> IF p = kswapd THEN u ELSE NULL]
        /\ next = [p \in Proc |-> p]
        /\ nr_process = 3
        /\ pc = [p \in Proc |-> IF p = initproc THEN "wait" ELSE "user"]
        /\ target = [p \in Proc |-> NULL]
        /\ ksem = {}

Running(p) == state[p] = "RUNNABLE"
InUser(p) == p \in UserProc /\ Running(p) /\ pc[p] = "user"
Exiting(p) == Running(p) /\ pc[p] = "exit"

\* The end of a trap: may_killed, then user mode.
ReturnPc(p) == IF exiting[p] THEN "exit" ELSE "user"
Acted(p) == [exiting EXCEPT ![p] = FALSE]

\* wakeup_proc for all processes of S.
WakeState(S) == [p \in Proc |-> IF p \in S THEN "RUNNABLE" ELSE state[p]]
WakeWait(S) == [p \in Proc |-> IF p \in S THEN "0" ELSE wait_state[p]]

-----------------------------------------------------------------------------
(* fork and exec                                                            *)

\* Mutant: the older sibling is not told of the younger one.
set_links_one_way(c, p) ==
    /\ yptr' = [yptr EXCEPT ![c] = NULL]
    /\ optr' = [optr EXCEPT ![c] = cptr[p]]
    /\ cptr' = [cptr EXCEPT ![p] = c]
    /\ parent' = [parent EXCEPT ![c] = p]
    /\ nr_process' = nr_process + 1

\* set_links: the new process c becomes the youngest child of p.
set_links(c, p) ==
    /\ yptr' = Store([yptr EXCEPT ![c] = NULL], cptr[p], c)
    /\ optr' = [optr EXCEPT ![c] = cptr[p]]
    /\ cptr' = [cptr EXCEPT ![p] = c]
    /\ parent' = [parent EXCEPT ![c] = p]
    /\ nr_process' = nr_process + 1

\* do_fork: with CLONE_THREAD the child goes in front of p in p's group, which
\* is at the end for a list that begins with p.
do_fork(p, c, clone_thread) ==
    /\ InUser(p)
    /\ c \in UserProc /\ state[c] = "UNINIT"
    /\ set_links(c, p)
    /\ next' = IF clone_thread
               THEN [q \in Proc |-> IF q = c THEN p
                                    ELSE IF next[q] = p THEN c ELSE next[q]]
               ELSE next
    /\ state' = [state EXCEPT ![c] = "RUNNABLE"]
    /\ pc' = [pc EXCEPT ![p] = ReturnPc(p)]
    /\ exiting' = Acted(p)
    /\ UNCHANGED <<wait_state, target, ksem>>

\* de_thread: the group without p, and p alone.
de_thread(p) ==
    [q \in Proc |-> IF q = p THEN p
                    ELSE IF next[q] = p THEN next[p] ELSE next[q]]

\* do_execve, when it succeeds; when it fails it calls do_exit.
do_execve(p) ==
    /\ InUser(p)
    /\ next' = de_thread(p)
    /\ pc' = [pc EXCEPT ![p] = ReturnPc(p)]
    /\ exiting' = Acted(p)
    /\ UNCHANGED <<state, wait_state, parent, cptr, optr, yptr, nr_process, target, ksem>>

-----------------------------------------------------------------------------
(* kill and exit                                                            *)

\* Mutant: a kill wakes whoever sleeps.
WokenAny(S) == {q \in S : ~exiting[q] /\ state[q] = "SLEEPING"}

\* __do_kill for all processes of S: of the waits of this model WT_CHILD is the
\* one with WT_INTERRUPTED.
Woken(S) == {q \in S : ~exiting[q] /\ wait_state[q] = "WT_CHILD"}
KillAll(S) == [q \in Proc |-> exiting[q] \/ (q \in S /\ pc[q] \in {"user", "wait"})]

\* do_kill, for another process: a process that kills itself does what
\* do_exit_thread does.  Nobody kills init or kswapd; a kill that reaches a
\* process in __do_exit changes its exit code and a flag nobody reads again.
do_kill(p, q) ==
    /\ InUser(p)
    /\ q \in UserProc \ {p} /\ state[q] # "UNINIT"
    /\ exiting' = [KillAll({q}) EXCEPT ![p] = FALSE]
    /\ state' = WakeState(Woken({q}))
    /\ wait_state' = WakeWait(Woken({q}))
    /\ pc' = [pc EXCEPT ![p] = ReturnPc(p)]
    /\ UNCHANGED <<links, target, ksem>>

\* do_exit: kills the other threads of the group, then as do_exit_thread.
do_exit(p) ==
    LET others == Group(p) \ {p}
    IN  /\ InUser(p)
        /\ exiting' = [KillAll(others) EXCEPT ![p] = FALSE]
        /\ state' = WakeState(Woken(others))
        /\ wait_state' = WakeWait(Woken(others))
        /\ pc' = [pc EXCEPT ![p] = "exit"]
        /\ UNCHANGED <<links, target, ksem>>

do_exit_thread(p) ==
    /\ InUser(p)
    /\ pc' = [pc EXCEPT ![p] = "exit"]
    /\ exiting' = Acted(p)
    /\ UNCHANGED <<state, wait_state, links, target, ksem>>

\* may_killed at the end of a trap that was no system call.
may_killed(p) ==
    /\ InUser(p) /\ exiting[p]
    /\ pc' = [pc EXCEPT ![p] = "exit"]
    /\ exiting' = Acted(p)
    /\ UNCHANGED <<state, wait_state, links, target, ksem>>

\* put_fs closes the process's last files and has to wait for a semaphore: __down
\* puts its wait_t into the queue.
put_fs(p) ==
    /\ Exiting(p)
    /\ state' = [state EXCEPT ![p] = "SLEEPING"]
    /\ wait_state' = [wait_state EXCEPT ![p] = "WT_KSEM"]
    /\ ksem' = ksem \cup {p}
    /\ UNCHANGED <<exiting, links, pc, target>>

\* __up finds p first in the queue, with what it asserts of it, takes its wait_t
\* out and wakes it.
up(p) ==
    /\ p \in ksem /\ wait_state[p] = "WT_KSEM"
    /\ ksem' = ksem \ {p}
    /\ state' = WakeState({p})
    /\ wait_state' = WakeWait({p})
    /\ UNCHANGED <<exiting, links, pc, target>>

\* Mutant: only the parent is woken, not the other threads of its group.
WokenParentsOne(p) == {q \in {parent[p]} : wait_state[q] = "WT_CHILD"}

\* The threads that the exit of p wakes: those of its parent's group that wait
\* for a child.
WokenParents(p) == {q \in Group(parent[p]) : wait_state[q] = "WT_CHILD"}

\* Mutant: the children always go to the next thread.
NewParentNext(p) == next[p]

\* The process that gets the children of p: another thread of its group, if any,
\* or init.
NewParent(p) == IF next[p] = p THEN initproc ELSE next[p]

\* Mutant: the new parent is not woken for the zombies it gets.
WokenHeirNever(p) == {}

\* The new parent, if it waits for a child and gets a zombie.  p itself is one
\* of its children if it was its own parent.
WokenHeir(p) ==
    {q \in {NewParent(p)} :
        /\ wait_state[q] = "WT_CHILD"
        /\ \E c \in ToSet(Children(p)) : c = p \/ state[c] = "ZOMBIE"}

\* The loop of __do_exit over the children: each goes in front of the new
\* parent's children, so that they end up in reverse order.
Reparent(p) ==
    LET r     == NewParent(p)
        moved == Children(p)
        list  == Reverse(moved) \o Children(r)
        At(c) == CHOOSE i \in DOMAIN list : list[i] = c
    IN  /\ parent' = [c \in Proc |-> IF c \in ToSet(moved) THEN r ELSE parent[c]]
        /\ cptr' = [cptr EXCEPT ![p] = NULL, ![r] = IF list = <<>> THEN NULL ELSE Head(list)]
        /\ optr' = [c \in Proc |-> IF c \in ToSet(list)
                                   THEN IF At(c) = Len(list) THEN NULL ELSE list[At(c) + 1]
                                   ELSE optr[c]]
        /\ yptr' = [c \in Proc |-> IF c \in ToSet(list)
                                   THEN IF At(c) = 1 THEN NULL ELSE list[At(c) - 1]
                                   ELSE yptr[c]]

\* __do_exit from PROC_ZOMBIE to the final schedule.
ExitFinish(p) ==
    /\ Exiting(p)
    /\ LET S == WokenParents(p) \cup WokenHeir(p)
       IN  /\ state' = [WakeState(S) EXCEPT ![p] = "ZOMBIE"]
           /\ wait_state' = WakeWait(S)
    /\ Reparent(p)
    /\ next' = de_thread(p)
    /\ UNCHANGED <<exiting, nr_process, pc, target, ksem>>

-----------------------------------------------------------------------------
(* wait                                                                     *)

\* remove_links, after which z is freed: its fields get their first values here
\* instead of in alloc_proc.
remove_links(z) ==
    /\ yptr' = [Store(yptr, optr[z], yptr[z]) EXCEPT ![z] = NULL]
    /\ optr' = [Store(optr, yptr[z], optr[z]) EXCEPT ![z] = NULL]
    /\ cptr' = IF yptr[z] = NULL
               THEN [cptr EXCEPT ![parent[z]] = optr[z], ![z] = NULL]
               ELSE [cptr EXCEPT ![z] = NULL]
    /\ parent' = [parent EXCEPT ![z] = NULL]
    /\ nr_process' = nr_process - 1

\* The children that do_wait(t) may wait for, in the order it looks at them.
Candidates(p, t) ==
    IF t = NULL THEN GroupChildren(p)
    ELSE IF state[t] # "UNINIT" /\ parent[t] \in Group(p) THEN <<t>> ELSE <<>>

\* Mutant: init_main stops after the first child.
AfterWaitOnce(p, failed) ==
    IF p = initproc THEN "done" ELSE ReturnPc(p)

\* Mutant: init_main does not count the processes that are left.
AfterWaitForever(p, failed) ==
    IF p = initproc THEN IF failed THEN "done" ELSE "wait" ELSE ReturnPc(p)

\* The loop of init_main calls do_wait again unless only init and kswapd are
\* left or do_wait failed.
AfterWait(p, failed) ==
    IF p = initproc
    THEN IF failed \/ nr_process' = 2 THEN "done" ELSE "wait"
    ELSE ReturnPc(p)

\* One round of do_wait, from repeat.
WaitRound(p, t) ==
    LET kids    == Candidates(p, t)
        zombies == {i \in DOMAIN kids : state[kids[i]] = "ZOMBIE"}
        found   == kids[CHOOSE i \in zombies : \A j \in zombies : i <= j]
    IN  \/ /\ zombies # {}
           /\ remove_links(found)
           /\ state' = [state EXCEPT ![found] = "UNINIT"]
           /\ target' = [target EXCEPT ![p] = NULL]
           /\ pc' = [pc EXCEPT ![p] = AfterWait(p, FALSE), ![found] = "user"]
           /\ exiting' = Acted(p)
           /\ UNCHANGED <<wait_state, next, ksem>>
        \/ /\ zombies = {} /\ kids # <<>>
           /\ state' = [state EXCEPT ![p] = "SLEEPING"]
           /\ wait_state' = [wait_state EXCEPT ![p] = "WT_CHILD"]
           /\ pc' = [pc EXCEPT ![p] = "wait"]
           /\ target' = [target EXCEPT ![p] = t]
           /\ UNCHANGED <<exiting, links, ksem>>
        \/ /\ kids = <<>>
           /\ UNCHANGED <<state, wait_state, links, ksem>>
           /\ exiting' = Acted(p)
           /\ target' = [target EXCEPT ![p] = NULL]
           /\ pc' = [pc EXCEPT ![p] = AfterWait(p, TRUE)]

\* do_wait is called.
do_wait(p, t) ==
    /\ InUser(p)
    /\ WaitRound(p, t)

\* Mutant: do_wait returns to its loop without looking at PF_EXITING.
wait_wakeup_deaf(p) ==
    /\ Running(p) /\ pc[p] = "wait"
    /\ WaitRound(p, target[p])

\* do_wait goes on after its sleep: may_killed, then repeat.  This is also how
\* init_main calls it.
wait_wakeup(p) ==
    /\ Running(p) /\ pc[p] = "wait"
    /\ \/ /\ exiting[p]
          /\ pc' = [pc EXCEPT ![p] = "exit"]
          /\ exiting' = Acted(p)
          /\ target' = [target EXCEPT ![p] = NULL]
          /\ UNCHANGED <<state, wait_state, links, ksem>>
       \/ ~exiting[p] /\ WaitRound(p, target[p])

-----------------------------------------------------------------------------
Next ==
    \E p \in Proc :
        \/ \E c \in UserProc, thread \in BOOLEAN : do_fork(p, c, thread)
        \/ do_execve(p)
        \/ \E q \in UserProc : do_kill(p, q)
        \/ do_exit(p)
        \/ do_exit_thread(p)
        \/ may_killed(p)
        \/ put_fs(p)
        \/ up(p)
        \/ ExitFinish(p)
        \/ \E t \in UserProc \cup {NULL} : do_wait(p, t)
        \/ wait_wakeup(p)

Spec == Init /\ [][Next]_vars

\* User programs need not do anything.  A process that is on its way through the
\* kernel goes on whenever it is scheduled (see Sched), and semaphores are
\* released (see Sem), of which put_fs needs finitely many.
FairSpec ==
    /\ Spec
    /\ \A p \in Proc :
        /\ WF_vars(may_killed(p))
        /\ WF_vars(up(p))
        /\ SF_vars(ExitFinish(p))
        /\ WF_vars(wait_wakeup(p))

-----------------------------------------------------------------------------
(* Properties                                                               *)

\* What fork, clone, wait and __do_exit keep by hand stays consistent: every
\* process but init is once in the list of children of its parent and in no
\* other, yptr is the way back, nr_process counts the processes, and the
\* thread_group rings are closed and without those who have left.
LinksConsistent ==
    /\ \A p \in Proc :
        /\ IsInjective(Children(p))
        /\ ToSet(Children(p)) = {c \in Proc : parent[c] = p}
        /\ cptr[p] # NULL => yptr[cptr[p]] = NULL
        /\ optr[p] # NULL => yptr[optr[p]] = p
        /\ state[p] \in {"UNINIT", "ZOMBIE"} => next[p] = p
    /\ IsInjective(next)
    /\ nr_process = Cardinality({p \in Proc : state[p] # "UNINIT"})

\* There is always somebody to wait for a process: the parent of a process is
\* neither freed nor a zombie, however the exits of a family interleave.
ParentAlive ==
    \A p \in Proc \ {initproc} :
        state[p] # "UNINIT" => state[parent[p]] \in {"SLEEPING", "RUNNABLE"}

\* No wakeup is lost: nobody sleeps in do_wait while the group has a zombie that
\* it waits for, be it that the child exited or that it was inherited.
NoZombieMissed ==
    \A p \in Proc : wait_state[p] = "WT_CHILD" =>
        \A c \in ToSet(Candidates(p, target[p])) : state[c] # "ZOMBIE"

\* The assertions at the end of init_main: kswapd is the only process left.
InitChecks ==
    pc[initproc] = "done" =>
        /\ cptr[initproc] = kswapd
        /\ cptr[kswapd] = NULL /\ yptr[kswapd] = NULL /\ optr[kswapd] = NULL
        /\ nr_process = 2

\* The assertions of __up and down: whoever's wait_t is in the queue of a kernel
\* semaphore sleeps for it.  Neither a kill, nor the exit of another thread or of a
\* child, nor the inheritance of a zombie wakes it; only up does, which takes the
\* wait_t out.
KsemUndisturbed ==
    \A p \in ksem : state[p] = "SLEEPING" /\ wait_state[p] = "WT_KSEM"

\* A zombie whose parent is init does not stay: init_main frees it.
OrphansReaped ==
    \A q \in UserProc :
        state[q] = "ZOMBIE" /\ parent[q] = initproc ~> state[q] = "UNINIT"

\* When the last user process has exited, the loop of init_main comes to an end.
InitQuits ==
    (\A q \in UserProc : state[q] \in {"UNINIT", "ZOMBIE"}) ~> pc[initproc] = "done"

\* A process killed while it sleeps in do_wait exits.
KilledWaiterExits ==
    \A q \in UserProc :
        pc[q] = "wait" /\ exiting[q] /\ Running(q) ~> state[q] = "ZOMBIE"
=============================================================================
