------------------------------- MODULE Stream -------------------------------
(***************************************************************************)
(* What a flow promises to the applications at its two ends: each end's    *)
(* data packets are read at the other end in the order they were written,  *)
(* none twice and none left out, and the end of the stream is reported     *)
(* only after everything before the close was read, unless the reader's    *)
(* own side had closed the flow. Flow.tla implements this specification.   *)
(***************************************************************************)
EXTENDS Naturals

CONSTANT Node     \* the two ends; a stream is named by its writer

VARIABLES
    written,      \* written[p]: how many packets p wrote
    lastRead,     \* lastRead[p]: which of them was read last at the other end
    open,         \* open[p]: p's application has not called closeFlow
    ended         \* ended[p]: the other end was told that p's stream is over

vars == <<written, lastRead, open, ended>>

Init ==
    /\ written = [p \in Node |-> 0]
    /\ lastRead = [p \in Node |-> 0]
    /\ open = [p \in Node |-> TRUE]
    /\ ended = [p \in Node |-> FALSE]

Write(p) ==
    /\ open[p]
    /\ written' = [written EXCEPT ![p] = @ + 1]
    /\ UNCHANGED <<lastRead, open, ended>>

Read(p) ==
    /\ ~ended[p] /\ lastRead[p] < written[p]
    /\ lastRead' = [lastRead EXCEPT ![p] = @ + 1]
    /\ UNCHANGED <<written, open, ended>>

Close(p) ==
    /\ open' = [open EXCEPT ![p] = FALSE]
    /\ UNCHANGED <<written, lastRead, ended>>

End(p) ==
    /\ \/ ~open[p] /\ lastRead[p] = written[p]
       \/ \E q \in Node \ {p} : ~open[q]
    /\ ended' = [ended EXCEPT ![p] = TRUE]
    /\ UNCHANGED <<written, lastRead, open>>

Next == \E p \in Node : Write(p) \/ Read(p) \/ Close(p) \/ End(p)

Spec == Init /\ [][Next]_vars
=============================================================================
