----------------------------- MODULE TimerList ------------------------------
(***************************************************************************)
(* The kernel's timer list (schedule/sched.c: add_timer, del_timer,        *)
(* run_timer_list).  The list is kept in the order of expiry and each      *)
(* timer's expires counts from its predecessor, so that a tick touches the *)
(* head only.  add_timer and del_timer run with interrupts off and under   *)
(* the kernel lock, run_timer_list in the timer interrupt: each is atomic. *)
(***************************************************************************)
EXTENDS Naturals, Sequences, SequencesExt

CONSTANTS Timer, MaxExpires

ASSUME TimerListAssumption == MaxExpires \in Nat \ {0}

VARIABLES
    timer_list, \* the timers in list order
    expires,    \* timer->expires, which a timer keeps when it is unlinked
    fired       \* the processes woken by the latest tick, in order

timerVars == <<timer_list, expires, fired>>

Linked(t) == Contains(timer_list, t)

\* The sums of the deltas e of the timers in list l, from the front
Sums(l, e) ==
    LET s[k \in 0..Len(l)] == IF k = 0 THEN 0 ELSE s[k - 1] + e[l[k]]
    IN  s

\* The ticks until the k-th timer fires
Due(k) == Sums(timer_list, expires)[k]

Position(t) == CHOOSE i \in 1..Len(timer_list) : timer_list[i] = t

TimerInit ==
    /\ timer_list = <<>>
    /\ expires = [t \in Timer |-> 0]
    /\ fired = <<>>

\* How many timers add_timer's walk passes: those due no later than n ticks.
Passed(n) == Cardinality({i \in 1..Len(timer_list) : Due(i) <= n})

\* Mutant: the timer behind keeps its delta.
add_timer_keeps(t, n) ==
    /\ ~Linked(t)
    /\ expires' = [expires EXCEPT ![t] = n - Due(Passed(n))]
    /\ timer_list' = InsertAt(timer_list, Passed(n) + 1, t)
    /\ fired' = <<>>

\* timer_init and add_timer.  The walk stops at the first timer that is due
\* later than the new one, and takes the new delta off that timer's.
add_timer(t, n) ==
    /\ ~Linked(t)
    /\ LET k == Passed(n)
           delta == n - Due(k)
       IN /\ expires' = [u \in Timer |->
                CASE u = t -> delta
                  [] k < Len(timer_list) /\ u = timer_list[k + 1] -> expires[u] - delta
                  [] OTHER -> expires[u]]
          /\ timer_list' = InsertAt(timer_list, k + 1, t)
    /\ fired' = <<>>

\* del_timer gives the delta of a timer that has not expired to its
\* successor.  A timer that is not linked is left alone.
del_timer(t) ==
    /\ IF Linked(t)
       THEN LET k == Position(t)
            IN /\ expires' = IF k < Len(timer_list)
                             THEN [expires EXCEPT ![timer_list[k + 1]] = @ + expires[t]]
                             ELSE expires
               /\ timer_list' = RemoveAt(timer_list, k)
       ELSE UNCHANGED <<timer_list, expires>>
    /\ fired' = <<>>

\* run_timer_list: the head loses a tick, and every timer at the front that
\* has none left is unlinked and its process woken.
run_timer_list ==
    IF timer_list = <<>>
    THEN fired' = <<>> /\ UNCHANGED <<timer_list, expires>>
    ELSE LET after == [expires EXCEPT ![timer_list[1]] = @ - 1]
             n == Cardinality({k \in 1..Len(timer_list) :
                                 \A i \in 1..k : after[timer_list[i]] = 0})
         IN /\ expires' = after
            /\ fired' = SubSeq(timer_list, 1, n)
            /\ timer_list' = SubSeq(timer_list, n + 1, Len(timer_list))

TimerNext ==
    \/ \E t \in Timer, n \in 1..MaxExpires : add_timer(t, n)
    \/ \E t \in Timer : del_timer(t)
    \/ run_timer_list

TimerSpec == TimerInit /\ [][TimerNext]_timerVars

-----------------------------------------------------------------------------
\* The deltas of the list add up to what each timer was armed for, less the
\* ticks since: the list implements independent countdowns.
left == [t \in Timer |-> IF Linked(t) THEN Due(Position(t)) ELSE 0]

Countdown == INSTANCE Timers WITH fired <- ToSet(fired)

\* Every timer fires at exactly the tick it was armed for, whatever is added
\* before it, after it or cancelled around it.
ImplementsTimers == Countdown!Spec
=============================================================================
