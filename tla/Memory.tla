------------------------------- MODULE Memory --------------------------------
(***************************************************************************)
(* What the virtual memory promises its users: each address space has a    *)
(* private page that holds what its own processes last wrote there.  A     *)
(* forked address space starts as a copy.                                  *)
(***************************************************************************)
EXTENDS Naturals

CONSTANTS Mm, MaxData, Untouched

VARIABLE val    \* what each address space reads from its page

Init == val = [m \in Mm |-> Untouched]

\* The kernel does not clear a page it hands out: any content may be found.
Touch(m) ==
    /\ val[m] = Untouched
    /\ \E d \in 0 .. MaxData : val' = [val EXCEPT ![m] = d]

\* A write changes part of the page: what is there afterwards depends on what
\* was there before.
Changed(d) == (d + 1) % (MaxData + 1)

Write(m) ==
    /\ val[m] # Untouched
    /\ val' = [val EXCEPT ![m] = Changed(@)]

Fork(m, n) ==
    /\ val[n] = Untouched
    /\ val' = [val EXCEPT ![n] = val[m]]

Unmap(m) == val' = [val EXCEPT ![m] = Untouched]

Next == \E m \in Mm :
    \/ Touch(m) \/ Write(m) \/ Unmap(m)
    \/ \E n \in Mm \ {m} : Fork(m, n)

Spec == Init /\ [][Next]_val
==============================================================================
