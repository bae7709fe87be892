-------------------------------- MODULE Mbox --------------------------------
(***************************************************************************)
(* Mailboxes (sync/mbox.c): a bounded queue of messages, with senders and  *)
(* receivers that sleep, time out, are killed, and find the mailbox freed  *)
(* and perhaps opened again under the same id by the time they go on.      *)
(*                                                                         *)
(* Mailboxes do not interact, so there is one, opened and freed again and  *)
(* again.  A call is atomic up to where it sleeps (KernLock): in the wait  *)
(* queues of the mailbox, and for lock_mm between the moment a receiver    *)
(* has taken a message out and the moment it has copied it.  The lock_mm   *)
(* of a sender comes before it looks at the mailbox.                       *)
(***************************************************************************)
EXTENDS Naturals, Sequences, FiniteSets, SequencesExt

CONSTANTS
    Proc,
    MaxSlots,   \* max_slots of the mailbox
    Size,       \* lengths of messages and of receivers' buffers
    Timeout,    \* timeouts of the calls; 0 is for ever
    MaxMsg,     \* bound: the number of messages ever sent
    NoMsg

ASSUME MboxAssumption ==
    /\ IsFiniteSet(Proc)
    /\ MaxSlots \in Nat \ {0} /\ MaxMsg \in Nat
    /\ Size \subseteq Nat /\ Timeout \subseteq Nat
    /\ NoMsg \notin [id : 1 .. MaxMsg, bytes : Size]

VARIABLES
    state, slots, inuse, msg_link,  \* struct msg_mbox; msg_link lists messages
    senders, receivers,             \* its wait queues
    pc,           \* "user", "send" and "recv" (asleep in send_msg and recv_msg,
                  \* or woken and about to go on), "copy", "dead"
    msg,          \* the message in the process's hands
    max_bytes,    \* the room in the receiver's buffer
    asleep,       \* wait_state is set
    wakeup_flags, \* TRUE if woken by add_msg or pick_msg: not WT_INTERRUPTED
    timer,        \* ticks until the process's timer fires, 0 for none (Timers)
    timeout,      \* the timeout of the call, ...
    elapsed,      \* ... and the ticks since, up to it
    exiting,      \* PF_EXITING
    made,         \* ghost: the number of messages loaded so far
    freed,        \* ghost: the ids of the messages given to free_msg
    panicked      \* the assertion that failed, if one did

boxVars  == <<state, slots, inuse, msg_link, senders, receivers>>
waitVars == <<asleep, wakeup_flags, timer, timeout, elapsed>>
vars == <<boxVars, waitVars, pc, msg, max_bytes, exiting, made, freed, panicked>>

Msg == [id : 1 .. MaxMsg, bytes : Size]

Init ==
    /\ state = "CLOSED" /\ slots = 0 /\ inuse = 0 /\ msg_link = <<>>
    /\ senders = <<>> /\ receivers = <<>>
    /\ pc = [p \in Proc |-> "user"]
    /\ msg = [p \in Proc |-> NoMsg]
    /\ max_bytes = [p \in Proc |-> 0]
    /\ asleep = [p \in Proc |-> FALSE]
    /\ wakeup_flags = [p \in Proc |-> FALSE]
    /\ timer = [p \in Proc |-> 0]
    /\ timeout = [p \in Proc |-> 0]
    /\ elapsed = [p \in Proc |-> 0]
    /\ exiting = [p \in Proc |-> FALSE]
    /\ made = 0 /\ freed = {}
    /\ panicked = "no"

-----------------------------------------------------------------------------
(* Sleeping and waking                                                      *)

\* wakeup_first and wakeup_queue, called by p for the waiters W: their records
\* leave the queue and say who woke them, whether they still sleep or not.  The
\* record of p itself, if it had one, is of no more use.
First(queue) == IF queue = <<>> THEN {} ELSE {Head(queue)}
Rest(queue) == IF queue = <<>> THEN <<>> ELSE Tail(queue)
Wake(p, W, flags) ==
    /\ asleep' = [q \in Proc |-> asleep[q] /\ q \notin W]
    /\ wakeup_flags' = [q \in Proc |-> IF q \in W THEN flags ELSE wakeup_flags[q] /\ q # p]

\* wait_current_set, less the queue
Sleep(p) ==
    /\ asleep' = [asleep EXCEPT ![p] = TRUE]
    /\ wakeup_flags' = [wakeup_flags EXCEPT ![p] = FALSE]

\* ipc_timer_init, saved_ticks = ticks and ipc_add_timer
StartTimer(p, t) ==
    /\ timer' = [timer EXCEPT ![p] = t]
    /\ timeout' = [timeout EXCEPT ![p] = t]
    /\ elapsed' = [elapsed EXCEPT ![p] = 0]

\* ipc_del_timer and, in the next round of the loop, ipc_add_timer: nothing sets
\* timer->expires again, which is by now the distance from the timer before it
\* in the list, or 0 if it has fired.  add_timer asserts that it is positive.
RestartTimer(p) ==
    IF timeout[p] = 0 THEN UNCHANGED <<timer, panicked>>
    ELSE \E expires \in 0 .. timer[p] :
            /\ timer' = [timer EXCEPT ![p] = expires]
            /\ panicked' = IF expires = 0 THEN "add_timer" ELSE panicked

\* The end of a call: its timer and the rest of its frame are gone, and
\* may_killed sends a marked process to its end.
Return(p) ==
    /\ pc' = [pc EXCEPT ![p] = IF exiting[p] THEN "dead" ELSE "user"]
    /\ timer' = [timer EXCEPT ![p] = 0]
    /\ timeout' = [timeout EXCEPT ![p] = 0]
    /\ elapsed' = [elapsed EXCEPT ![p] = 0]
    /\ max_bytes' = [max_bytes EXCEPT ![p] = 0]

\* ipc_check_timeout, of a call that got nothing: E_TIMEOUT, not -1
TimedOut(p) == timeout[p] # 0 /\ elapsed[p] >= timeout[p]

-----------------------------------------------------------------------------
(* The mailbox                                                              *)

\* What mbox_free asserts of a mailbox whose last user is leaving
FreeOK == msg_link = <<>> /\ senders' = <<>> /\ receivers' = <<>>

\* send_msg and recv_msg count the processes inside them; the count matters only
\* for those that sleep.
Enter == inuse' = inuse + 1

\* Mutant: the mailbox is freed under those who are still in it.
LeaveEarly ==
    /\ inuse' = inuse - 1
    /\ state' = IF state = "CLOSING" THEN "CLOSED" ELSE state
    /\ slots' = IF state = "CLOSING" THEN 0 ELSE slots
    /\ UNCHANGED panicked

\* The end of send_msg and recv_msg after a sleep that got nothing: the last
\* one out of a mailbox that is being freed frees it (mbox_free).
Leave ==
    /\ inuse' = inuse - 1
    /\ IF state # "OPENED" /\ inuse' = 0
       THEN /\ state' = "CLOSED" /\ slots' = 0
            /\ panicked' = IF FreeOK THEN "no" ELSE "mbox_free"
       ELSE UNCHANGED <<state, slots, panicked>>

\* add_msg, at either end of the list: wakes the first receiver.
add_msg(p, list) ==
    /\ slots' = slots + 1
    /\ msg_link' = list
    /\ receivers' = Rest(receivers)
    /\ Wake(p, First(receivers), TRUE)

\* pick_msg, when the message fits: wakes the first sender.
pick_msg(p) ==
    /\ slots' = slots - 1
    /\ msg_link' = Tail(msg_link)
    /\ senders' = Rest(senders)
    /\ Wake(p, First(senders), TRUE)

-----------------------------------------------------------------------------
ipc_mbox_init(p) ==
    /\ panicked = "no" /\ pc[p] = "user" /\ state = "CLOSED"
    /\ state' = "OPENED"
    /\ Return(p)
    /\ UNCHANGED <<slots, inuse, msg_link, senders, receivers, asleep, wakeup_flags,
                   msg, exiting, made, freed, panicked>>

\* ipc_mbox_free: the messages are freed and everybody is woken.
ipc_mbox_free(p) ==
    /\ panicked = "no" /\ pc[p] = "user" /\ state = "OPENED"
    /\ state' = IF inuse = 0 THEN "CLOSED" ELSE "CLOSING"
    /\ slots' = IF inuse = 0 THEN 0 ELSE slots
    /\ msg_link' = <<>>
    /\ freed' = freed \cup {m.id : m \in ToSet(msg_link)}
    /\ senders' = <<>> /\ receivers' = <<>>
    /\ Wake(p, ToSet(senders) \cup ToSet(receivers), FALSE)
    /\ Return(p)
    /\ UNCHANGED <<inuse, msg, exiting, made, panicked>>

\* ipc_mbox_send with a message of b bytes: send_msg appends it or sleeps.
ipc_mbox_send(p, b, t) ==
    LET m == [id |-> made + 1, bytes |-> b]
    IN  /\ panicked = "no" /\ pc[p] = "user" /\ state = "OPENED"
        /\ made < MaxMsg /\ made' = made + 1
        /\ \/ /\ slots < MaxSlots
              /\ add_msg(p, Append(msg_link, m))
              /\ Return(p)
              /\ UNCHANGED <<inuse, senders, msg>>
           \/ /\ slots >= MaxSlots
              /\ Enter
              /\ senders' = Append(senders, p)
              /\ Sleep(p) /\ StartTimer(p, t)
              /\ pc' = [pc EXCEPT ![p] = "send"]
              /\ msg' = [msg EXCEPT ![p] = m]
              /\ UNCHANGED <<slots, msg_link, receivers, max_bytes>>
        /\ UNCHANGED <<state, exiting, freed, panicked>>

\* send_msg goes on: the three ways out of schedule() in its loop.
SendGoesOn(p) ==
    /\ panicked = "no" /\ pc[p] = "send" /\ ~asleep[p]
    /\ \/ /\ state # "OPENED" \/ ~wakeup_flags[p]
          /\ senders' = RemoveFirst(senders, p)
          /\ UNCHANGED receivers
          /\ Leave
          /\ Return(p)
          /\ msg' = [msg EXCEPT ![p] = NoMsg]
          /\ freed' = freed \cup {msg[p].id}
          /\ Wake(p, {}, FALSE)
          /\ UNCHANGED msg_link
       \/ /\ state = "OPENED" /\ wakeup_flags[p] /\ slots < MaxSlots
          /\ add_msg(p, Append(msg_link, msg[p]))
          /\ inuse' = inuse - 1
          /\ Return(p)
          /\ msg' = [msg EXCEPT ![p] = NoMsg]
          /\ UNCHANGED <<state, senders, freed, panicked>>
       \/ /\ state = "OPENED" /\ wakeup_flags[p] /\ slots >= MaxSlots
          /\ senders' = Append(senders, p)
          /\ Sleep(p) /\ RestartTimer(p)
          /\ UNCHANGED <<state, slots, inuse, msg_link, receivers, timeout, elapsed, pc,
                         msg, max_bytes, freed>>
    /\ UNCHANGED <<exiting, made>>

\* Mutant: the next receiver is not told of the message that did not fit.
TooBigSilent(p) ==
    /\ Return(p)
    /\ Wake(p, {}, TRUE)
    /\ UNCHANGED <<slots, msg_link, senders, receivers, msg>>

\* recv_msg finds that the first message does not fit, and passes the wakeup on.
TooBig(p) ==
    /\ receivers' = Rest(receivers)
    /\ Wake(p, First(receivers), TRUE)
    /\ Return(p)
    /\ UNCHANGED <<slots, msg_link, senders, msg>>

\* recv_msg with a message in the mailbox, for a buffer of n bytes.
TakeMsg(p, n) ==
    \/ /\ n < Head(msg_link).bytes
       /\ TooBig(p)
    \/ /\ n >= Head(msg_link).bytes
       /\ pick_msg(p)
       /\ pc' = [pc EXCEPT ![p] = "copy"]
       /\ msg' = [msg EXCEPT ![p] = Head(msg_link)]
       /\ timer' = [timer EXCEPT ![p] = 0]
       /\ timeout' = [timeout EXCEPT ![p] = 0]
       /\ elapsed' = [elapsed EXCEPT ![p] = 0]
       /\ UNCHANGED <<receivers, max_bytes>>

\* ipc_mbox_recv with a buffer of n bytes: recv_msg takes a message or sleeps.
ipc_mbox_recv(p, n, t) ==
    /\ panicked = "no" /\ pc[p] = "user" /\ state = "OPENED"
    /\ \/ slots > 0 /\ TakeMsg(p, n) /\ UNCHANGED inuse
       \/ /\ slots = 0
          /\ Enter
          /\ receivers' = Append(receivers, p)
          /\ Sleep(p) /\ StartTimer(p, t)
          /\ pc' = [pc EXCEPT ![p] = "recv"]
          /\ max_bytes' = [max_bytes EXCEPT ![p] = n]
          /\ UNCHANGED <<slots, msg_link, senders, msg>>
    /\ UNCHANGED <<state, exiting, made, freed, panicked>>

\* recv_msg goes on.
RecvGoesOn(p) ==
    /\ panicked = "no" /\ pc[p] = "recv" /\ ~asleep[p]
    /\ \/ /\ state # "OPENED" \/ ~wakeup_flags[p]
          /\ receivers' = RemoveFirst(receivers, p)
          /\ UNCHANGED senders
          /\ Leave
          /\ Return(p)
          /\ Wake(p, {}, FALSE)
          /\ UNCHANGED <<msg_link, msg>>
       \/ /\ state = "OPENED" /\ wakeup_flags[p] /\ slots > 0
          /\ TakeMsg(p, max_bytes[p])
          /\ inuse' = inuse - 1
          /\ UNCHANGED <<state, panicked>>
       \/ /\ state = "OPENED" /\ wakeup_flags[p] /\ slots = 0
          /\ receivers' = Append(receivers, p)
          /\ Sleep(p) /\ RestartTimer(p)
          /\ UNCHANGED <<state, slots, inuse, msg_link, senders, timeout, elapsed, pc,
                         msg, max_bytes>>
    /\ UNCHANGED <<exiting, made, freed>>

\* Mutant: a message that was put back is freed as well.
CopyMsgFrees(p) ==
    /\ panicked = "no" /\ pc[p] = "copy"
    /\ Return(p)
    /\ freed' = freed \cup {msg[p].id}
    /\ \/ UNCHANGED <<slots, msg_link, receivers, asleep, wakeup_flags>>
       \/ state = "OPENED" /\ add_msg(p, <<msg[p]>> \o msg_link)
    /\ msg' = [msg EXCEPT ![p] = NoMsg]
    /\ UNCHANGED <<state, inuse, senders, exiting, made, panicked>>

\* The end of ipc_mbox_recv: the message is copied to the user and freed; if the
\* copy fails it goes back to the front of the mailbox of that id, if one is
\* open, else it is freed.
CopyMsg(p) ==
    /\ panicked = "no" /\ pc[p] = "copy"
    /\ \/ /\ Return(p)
          /\ freed' = freed \cup {msg[p].id}
          /\ UNCHANGED <<slots, msg_link, receivers, asleep, wakeup_flags>>
       \/ /\ state = "OPENED"
          /\ Return(p)
          /\ add_msg(p, <<msg[p]>> \o msg_link)
          /\ UNCHANGED freed
       \/ /\ state # "OPENED"
          /\ Return(p)
          /\ freed' = freed \cup {msg[p].id}
          /\ UNCHANGED <<slots, msg_link, receivers, asleep, wakeup_flags>>
    /\ msg' = [msg EXCEPT ![p] = NoMsg]
    /\ UNCHANGED <<state, inuse, senders, exiting, made, panicked>>

-----------------------------------------------------------------------------
\* The timer interrupt: ticks, and run_timer_list.
tick ==
    /\ panicked = "no"
    /\ \E p \in Proc : timeout[p] > 0
    /\ timer' = [p \in Proc |-> IF timer[p] = 0 THEN 0 ELSE timer[p] - 1]
    /\ asleep' = [p \in Proc |-> asleep[p] /\ timer[p] # 1]
    /\ elapsed' = [p \in Proc |-> IF elapsed[p] < timeout[p] THEN elapsed[p] + 1
                                  ELSE elapsed[p]]
    /\ UNCHANGED <<boxVars, wakeup_flags, timeout, pc, msg, max_bytes, exiting, made,
                   freed, panicked>>

\* do_kill of a process that has not been killed: WT_MBOX_SEND and WT_MBOX_RECV
\* are WT_INTERRUPTED.  One asleep for lock_mm goes on undisturbed.
do_kill(q) ==
    /\ panicked = "no" /\ pc[q] # "dead" /\ ~exiting[q]
    /\ exiting' = [exiting EXCEPT ![q] = TRUE]
    /\ asleep' = [asleep EXCEPT ![q] = FALSE]
    /\ UNCHANGED <<boxVars, wakeup_flags, timer, timeout, elapsed, pc, msg, max_bytes,
                   made, freed, panicked>>

\* may_killed, at the end of a trap that was no call of this module.
may_killed(p) ==
    /\ panicked = "no" /\ pc[p] = "user" /\ exiting[p]
    /\ pc' = [pc EXCEPT ![p] = "dead"]
    /\ UNCHANGED <<boxVars, waitVars, msg, max_bytes, exiting, made, freed, panicked>>

Next ==
    \/ \E p \in Proc :
        \/ ipc_mbox_init(p) \/ ipc_mbox_free(p)
        \/ \E n \in Size, t \in Timeout : ipc_mbox_send(p, n, t) \/ ipc_mbox_recv(p, n, t)
        \/ SendGoesOn(p) \/ RecvGoesOn(p) \/ CopyMsg(p)
        \/ do_kill(p) \/ may_killed(p)
    \/ tick

Spec == Init /\ [][Next]_vars

-----------------------------------------------------------------------------
(* Properties                                                               *)

Linked == {m.id : m \in ToSet(msg_link)}
InHands == {msg[p].id : p \in {q \in Proc : msg[q] # NoMsg}}

\* Every message that was loaded is in one place: in the mailbox, with a sender
\* that waits for a slot, with a receiver that copies it, or freed.  None is
\* freed twice, used after it was freed, or leaked, whatever frees and kills
\* hit the mailbox between a receiver's pick and its copy.
MessageInOnePlace ==
    /\ IsInjective(msg_link)
    /\ \A p, q \in Proc : msg[p] = msg[q] /\ p # q => msg[p] = NoMsg
    /\ Linked \cap InHands = {}
    /\ freed \cap (Linked \cup InHands) = {}
    /\ freed \cup Linked \cup InHands = 1 .. made

\* A mailbox is on the free list, to be opened by somebody else, only when the
\* last process has left it and its queues are empty, as mbox_free asserts; the
\* counts this rests on are right: slots of the messages, inuse of the
\* processes inside send_msg and recv_msg.
ReusedOnlyWhenEmpty ==
    /\ panicked # "mbox_free"
    /\ state = "OPENED" => slots = Len(msg_link)
    /\ inuse = Cardinality({p \in Proc : pc[p] \in {"send", "recv"}})
    /\ state = "CLOSED" => /\ \A p \in Proc : pc[p] \notin {"send", "recv"}
                           /\ senders = <<>> /\ receivers = <<>> /\ msg_link = <<>>

\* Woken by a message or a free slot and not yet running again
OnTheWay(where) == {p \in Proc : pc[p] = where /\ wakeup_flags[p]}

\* No receiver stays asleep while a message is there that no other receiver has
\* been woken for: also when a woken receiver cannot take the message, puts it
\* back, finds it too big, or finds that another one was faster.  No sender
\* stays asleep while there is a free slot that no other has been woken for.
NobodyStuck ==
    state = "OPENED" /\ panicked = "no" =>
        /\ receivers # <<>> => slots <= Cardinality(OnTheWay("recv"))
        /\ senders # <<>> => MaxSlots <= slots + Cardinality(OnTheWay("send"))

\* add_timer asserts that the timer it starts has ticks left.  This does not
\* hold of a timer that is started again (README, section 3).
TimerHasTicks == panicked # "add_timer"
=============================================================================
