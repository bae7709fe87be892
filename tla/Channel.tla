------------------------------- MODULE Channel -------------------------------
(***************************************************************************)
(* What a pipe promises its users: a bounded byte stream.  Bytes come out  *)
(* in the order in which they were accepted, each once; a closed channel   *)
(* accepts nothing more but still delivers what it holds.                  *)
(***************************************************************************)
EXTENDS Naturals, Sequences, SequencesExt

CONSTANT Capacity

VARIABLES
    accepted,   \* the bytes accepted since the channel was opened
    delivered,  \* the bytes handed to readers
    closed

Init == accepted = <<>> /\ delivered = <<>> /\ closed = TRUE

\* A new channel, in the place of one that nobody uses any more
Open ==
    /\ closed
    /\ accepted' = <<>> /\ delivered' = <<>> /\ closed' = FALSE

Put ==
    /\ ~closed
    /\ IsPrefix(accepted, accepted')
    /\ Len(accepted') - Len(delivered) <= Capacity
    /\ UNCHANGED delivered

Get ==
    /\ IsPrefix(delivered, delivered') /\ IsPrefix(delivered', accepted)
    /\ UNCHANGED accepted

\* A step that ends a call may also close an end of the pipe.
Next ==
    \/ Open
    \/ (Put \/ Get) /\ closed' \in {closed, TRUE}

Spec == Init /\ [][Next]_<<accepted, delivered, closed>>
==============================================================================
