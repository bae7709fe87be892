-------------------------------- MODULE Event --------------------------------
(***************************************************************************)
(* Events (sync/event.c): a rendezvous between a sender, which waits in    *)
(* the event box of the process it names, and that process, which takes    *)
(* the first waiting sender's event.  Timeouts, kill, exit of either side  *)
(* (process/proc.c) and reaping of the dead included.                      *)
(*                                                                         *)
(* As in Sem, a kernel call is atomic up to the point where it sleeps, and *)
(* a woken process goes on whenever the scheduler lets it.  A timer is     *)
(* armed or it has expired: TimerList says when.                           *)
(***************************************************************************)
EXTENDS Naturals, Sequences, FiniteSets, SequencesExt

CONSTANTS
    Proc,    \* processes that can be named: not idle, initproc or kswapd
    Nobody

ASSUME EventAssumption == Nobody \notin Proc /\ IsFiniteSet(Proc)

VARIABLES
    state,        \* "alive", "zombie", or "free": reaped, the proc_struct is gone
    wait_queue,   \* of each event box: the senders in it, in order
    pc,           \* "user", "send" or "recv": asleep in send_event or
                  \* recv_event, or woken and about to go on there
    wait_state,   \* "0", "SEND", "RECV"
    wakeup_flags, \* of the sender's wait record: "INTERRUPTED", "SEND"
    to,           \* the process a sender has named
    timer,        \* "none", "armed", "expired"
    exiting,      \* PF_EXITING
    taken         \* ghost: how often the event of that send has been received

vars == <<state, wait_queue, pc, wait_state, wakeup_flags, to, timer, exiting, taken>>

Init ==
    /\ state = [p \in Proc |-> "alive"]
    /\ wait_queue = [p \in Proc |-> <<>>]
    /\ pc = [p \in Proc |-> "user"]
    /\ wait_state = [p \in Proc |-> "0"]
    /\ wakeup_flags = [p \in Proc |-> "INTERRUPTED"]
    /\ to = [p \in Proc |-> Nobody]
    /\ timer = [p \in Proc |-> "none"]
    /\ exiting = [p \in Proc |-> FALSE]
    /\ taken = [p \in Proc |-> 0]

Running(p) == state[p] = "alive" /\ pc[p] = "user"

-----------------------------------------------------------------------------
(* The end of a kernel call.  A process that has been killed exits there   *)
(* (may_killed), and __do_exit tells those who wait in its event box.      *)

\* Mutant: __do_exit forgets the senders.
ExitSilently(p, q, ws, fl) ==
    /\ state' = [state EXCEPT ![p] = IF exiting[p] THEN "zombie" ELSE @]
    /\ pc' = [pc EXCEPT ![p] = "user"]
    /\ wait_queue' = q
    /\ wait_state' = ws
    /\ wakeup_flags' = fl

\* p leaves the kernel; q, ws and fl are the queues, wait states and flags as
\* its call has left them.
BackToUser(p, q, ws, fl) ==
    LET woken == IF exiting[p] THEN ToSet(q[p]) ELSE {}
    IN /\ state' = [state EXCEPT ![p] = IF exiting[p] THEN "zombie" ELSE @]
       /\ pc' = [pc EXCEPT ![p] = "user"]
       /\ wait_queue' = [q EXCEPT ![p] = IF exiting[p] THEN <<>> ELSE @]
       /\ wait_state' = [s \in Proc |-> IF s \in woken THEN "0" ELSE ws[s]]
       /\ wakeup_flags' = [s \in Proc |-> IF s \in woken THEN "INTERRUPTED" ELSE fl[s]]

-----------------------------------------------------------------------------
(* Sending.                                                                *)

\* A process that sleeps in recv_event is woken, and finds its queue filled.
wakeup_receiver(p) ==
    IF wait_state[p] = "RECV" THEN [wait_state EXCEPT ![p] = "0"] ELSE wait_state

\* Mutant: a zombie is still found.
FoundAny(p) == state[p] # "free"

\* find_proc, and the test for a zombie
Found(p) == state[p] = "alive"

\* ipc_event_send up to schedule(): p waits in r's box, for ever or timed.
ipc_event_send(p, r, timed) ==
    /\ Running(p) /\ r # p
    /\ Found(r)
    /\ wait_state' = [wakeup_receiver(r) EXCEPT ![p] = "SEND"]
    /\ wait_queue' = [wait_queue EXCEPT ![r] = Append(@, p)]
    /\ wakeup_flags' = [wakeup_flags EXCEPT ![p] = "INTERRUPTED"]
    /\ pc' = [pc EXCEPT ![p] = "send"]
    /\ to' = [to EXCEPT ![p] = r]
    /\ timer' = [timer EXCEPT ![p] = IF timed THEN "armed" ELSE "none"]
    /\ UNCHANGED <<state, exiting, taken>>

\* ... and the early return, for a process that is not there
ipc_event_send_fails(p, r) ==
    /\ Running(p)
    /\ r = p \/ ~Found(r)
    /\ BackToUser(p, wait_queue, wait_state, wakeup_flags)
    /\ UNCHANGED <<to, timer, exiting, taken>>

wait_current_del(p) == [wait_queue EXCEPT ![to[p]] = RemoveFirst(@, p)]

\* What ipc_event_send returns once it has been woken
SendResult(p) ==
    IF wakeup_flags[p] = "SEND" THEN "ok"
    ELSE IF timer[p] = "expired" THEN "E_TIMEOUT" ELSE "error"

\* The rest of send_event and ipc_event_send.  The queue is touched only if
\* the record is still in it: the process named may be gone.
SendReturns(p) ==
    /\ pc[p] = "send" /\ wait_state[p] = "0"
    /\ BackToUser(p, wait_current_del(p), wait_state,
                  [wakeup_flags EXCEPT ![p] = "INTERRUPTED"])
    /\ to' = [to EXCEPT ![p] = Nobody]
    /\ timer' = [timer EXCEPT ![p] = "none"]
    /\ taken' = [taken EXCEPT ![p] = 0]
    /\ UNCHANGED exiting

-----------------------------------------------------------------------------
(* Receiving.                                                              *)

\* Mutant: the sender is woken but stays in the queue (del = 0).
wakeup_wait_kept(p) ==
    LET s == Head(wait_queue[p])
    IN /\ taken' = [taken EXCEPT ![s] = @ + 1]
       /\ BackToUser(p, wait_queue, [wait_state EXCEPT ![s] = "0"],
                     [wakeup_flags EXCEPT ![s] = "SEND"])

\* The second half of recv_event: the first sender in the queue, which may be
\* awake already, is told that its event has been taken.  What happens to the
\* event then (copy_to_user may fail) is not its business any more.
wakeup_wait(p) ==
    LET s == Head(wait_queue[p])
    IN /\ taken' = [taken EXCEPT ![s] = @ + 1]
       /\ BackToUser(p, [wait_queue EXCEPT ![p] = Tail(@)],
                     [wait_state EXCEPT ![s] = "0"],
                     [wakeup_flags EXCEPT ![s] = "SEND"])

\* ipc_event_recv with a sender waiting ...
ipc_event_recv(p) ==
    /\ Running(p) /\ wait_queue[p] # <<>>
    /\ wakeup_wait(p)
    /\ UNCHANGED <<to, timer, exiting>>

\* ... and without: it sleeps.
ipc_event_recv_sleeps(p, timed) ==
    /\ Running(p) /\ wait_queue[p] = <<>>
    /\ pc' = [pc EXCEPT ![p] = "recv"]
    /\ wait_state' = [wait_state EXCEPT ![p] = "RECV"]
    /\ timer' = [timer EXCEPT ![p] = IF timed THEN "armed" ELSE "none"]
    /\ UNCHANGED <<state, wait_queue, wakeup_flags, to, exiting, taken>>

\* A woken receiver looks once: the sender that woke it may have gone.
RecvReturns(p) ==
    /\ pc[p] = "recv" /\ wait_state[p] = "0"
    /\ IF wait_queue[p] # <<>> THEN wakeup_wait(p)
       ELSE BackToUser(p, wait_queue, wait_state, wakeup_flags) /\ UNCHANGED taken
    /\ timer' = [timer EXCEPT ![p] = "none"]
    /\ UNCHANGED <<to, exiting>>

-----------------------------------------------------------------------------
(* Timers, and the rest of a process's life.                               *)

\* run_timer_list: the process is woken, if it is not awake already.
TimerFires(p) ==
    /\ timer[p] = "armed"
    /\ timer' = [timer EXCEPT ![p] = "expired"]
    /\ wait_state' = [wait_state EXCEPT ![p] = "0"]
    /\ UNCHANGED <<state, wait_queue, pc, wakeup_flags, to, exiting, taken>>

\* do_kill, by somebody: both sleeps can be interrupted.
do_kill(p) ==
    /\ state[p] = "alive" /\ ~exiting[p]
    /\ exiting' = [exiting EXCEPT ![p] = TRUE]
    /\ wait_state' = [wait_state EXCEPT ![p] = "0"]
    /\ UNCHANGED <<state, wait_queue, pc, wakeup_flags, to, timer, taken>>

\* The next trap of a process that has been killed, do_exit included
may_killed(p) ==
    /\ Running(p) /\ exiting[p]
    /\ BackToUser(p, wait_queue, wait_state, wakeup_flags)
    /\ UNCHANGED <<to, timer, exiting, taken>>

\* do_wait of the parent: the proc_struct, its event box included, is freed.
do_wait(p) ==
    /\ state[p] = "zombie"
    /\ state' = [state EXCEPT ![p] = "free"]
    /\ exiting' = [exiting EXCEPT ![p] = FALSE]
    /\ UNCHANGED <<wait_queue, pc, wait_state, wakeup_flags, to, timer, taken>>

\* do_fork: a new process, with a new event box
do_fork(p) ==
    /\ state[p] = "free"
    /\ state' = [state EXCEPT ![p] = "alive"]
    /\ wait_queue' = [wait_queue EXCEPT ![p] = <<>>]
    /\ UNCHANGED <<pc, wait_state, wakeup_flags, to, timer, exiting, taken>>

Next ==
    \E p \in Proc :
        \/ \E r \in Proc : \/ \E timed \in BOOLEAN : ipc_event_send(p, r, timed)
                           \/ ipc_event_send_fails(p, r)
        \/ SendReturns(p)
        \/ ipc_event_recv(p)
        \/ \E timed \in BOOLEAN : ipc_event_recv_sleeps(p, timed)
        \/ RecvReturns(p)
        \/ TimerFires(p) \/ do_kill(p) \/ may_killed(p) \/ do_wait(p) \/ do_fork(p)

\* Woken processes are scheduled, timers fire, and every process traps.
Spec ==
    /\ Init /\ [][Next]_vars
    /\ \A p \in Proc :
         /\ WF_vars(SendReturns(p)) /\ WF_vars(RecvReturns(p))
         /\ WF_vars(TimerFires(p)) /\ WF_vars(may_killed(p))

-----------------------------------------------------------------------------
\* ipc_event_send answers 0 exactly when one receive has taken the event, and
\* no event is received twice or after its sender has been told that it was
\* not: whatever timer, kill or exit wakes the sender between its being taken
\* and its return, or just before it is taken.
SentMeansTakenOnce ==
    [][\A p \in Proc :
         /\ taken'[p] > taken[p] => pc[p] = "send" /\ taken[p] = 0
         /\ pc[p] = "send" /\ pc'[p] # "send"
              => (SendResult(p) = "ok" <=> taken[p] = 1)]_vars

\* Who waits in an event box is inside the ipc_event_send that named it, and
\* the box belongs to a live process: no record is left behind in the memory
\* of a process that is dead or reaped.  A process that sleeps in
\* ipc_event_recv has nobody waiting for it.
BoxHoldsSenders ==
    \A p \in Proc :
        /\ IsInjective(wait_queue[p])
        /\ \A s \in ToSet(wait_queue[p]) : pc[s] = "send" /\ to[s] = p
        /\ wait_queue[p] # <<>> => state[p] = "alive" /\ wait_state[p] # "RECV"

\* A send ends when the process it names dies, before or after it is reaped,
\* and when it is timed: nobody sleeps on in the box of a process that will
\* never look into it again.
SendEnds ==
    \A p \in Proc :
        pc[p] = "send" /\ (timer[p] # "none" \/ state[to[p]] # "alive")
            ~> pc[p] # "send"
==============================================================================
