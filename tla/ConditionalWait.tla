--------------------------- MODULE ConditionalWait --------------------------
(***************************************************************************)
(* util::ConditionalWait: a notify wakes one thread that waits, and is     *)
(* lost if there is none.  A thread waits from the moment wait has raised  *)
(* flag; sem counts the wake-ups that threads have not taken yet.          *)
(***************************************************************************)
EXTENDS Naturals

NobodyWaits == [flag |-> 0, sem |-> 0]

\* wait up to the second semaphore.
Announce(cw) == [cw EXCEPT !.flag = @ + 1]

\* notify and the mutant that wakes nobody.
NotifyOneNever(cw) == cw

NotifyOne(cw) == IF cw.flag > 0 THEN [flag |-> cw.flag - 1, sem |-> cw.sem + 1] ELSE cw

\* The second semaphore.
Woken(cw) == cw.sem > 0
Awake(cw) == [cw EXCEPT !.sem = @ - 1]
=============================================================================
