------------------------------- MODULE Timers -------------------------------
(***************************************************************************)
(* What the kernel's timers promise: a timer armed for n ticks fires at    *)
(* the n-th tick, unless it is cancelled first.  TimerList implements it.  *)
(***************************************************************************)
EXTENDS Naturals

CONSTANTS
    Timer,      \* the timers, one for each process that can sleep on one
    MaxExpires  \* the longest timeout used

VARIABLES
    left,   \* ticks until each timer fires, 0 for one that is not armed
    fired   \* the timers that the latest tick fired

Init ==
    /\ left = [t \in Timer |-> 0]
    /\ fired = {}

Arm(t, n) ==
    /\ left[t] = 0
    /\ left' = [left EXCEPT ![t] = n]
    /\ fired' = {}

Cancel(t) ==
    /\ left' = [left EXCEPT ![t] = 0]
    /\ fired' = {}

Tick ==
    /\ left' = [t \in Timer |-> IF left[t] = 0 THEN 0 ELSE left[t] - 1]
    /\ fired' = {t \in Timer : left[t] = 1}

Next ==
    \/ \E t \in Timer, n \in 1..MaxExpires : Arm(t, n)
    \/ \E t \in Timer : Cancel(t)
    \/ Tick

Spec == Init /\ [][Next]_<<left, fired>>
=============================================================================
