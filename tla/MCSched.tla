------------------------------- MODULE MCSched ------------------------------
(* Sched with two run queues and short slices, doubled as sched_init does.  *)
EXTENDS Sched

Slices == [l \in 1..NLevel |-> 2 * 2^(l - 1)]
=============================================================================
