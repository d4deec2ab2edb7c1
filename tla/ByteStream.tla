----------------------------- MODULE ByteStream -----------------------------
(***************************************************************************)
(* What one direction of a relayed connection promises: the bytes one peer *)
(* writes reach the other in order, none lost and none twice, and the end  *)
(* of the stream is passed on only after all of them.  Bytes are numbered  *)
(* in the order in which they are written.                                 *)
(***************************************************************************)
EXTENDS Naturals, Sequences

VARIABLES written,    \* how many bytes the source has written
          closed,     \* the source has closed its side
          delivered,  \* the bytes that have reached the destination
          ended       \* the destination has been told of the end

vars == <<written, closed, delivered, ended>>

Init == /\ written = 0 /\ closed = FALSE
        /\ delivered = <<>> /\ ended = FALSE

Write == /\ ~closed
         /\ written' = written + 1
         /\ UNCHANGED <<closed, delivered, ended>>

Close == /\ ~closed
         /\ closed' = TRUE
         /\ UNCHANGED <<written, delivered, ended>>

\* Some more of what was written arrives, so that the destination always
\* has a prefix of it.
Deliver == /\ ~ended
           /\ \E n \in Len(delivered) + 1 .. written :
                 delivered' = [i \in 1 .. n |-> i]
           /\ UNCHANGED <<written, closed, ended>>

End == /\ closed /\ Len(delivered) = written
       /\ ended' = TRUE
       /\ UNCHANGED <<written, closed, delivered>>

Next == Write \/ Close \/ Deliver \/ End

Spec == Init /\ [][Next]_vars
=============================================================================
