---------------------------- MODULE PendingAcks ----------------------------
(***************************************************************************)
(* What a table of messages that wait for their acknowledgement promises:  *)
(* a message is recorded in a place that is free, whatever waits keeps its *)
(* place, and only the acknowledgement of a message, when it is what was   *)
(* read last, clears it, in one place.  How many places there are is not   *)
(* said here: a message that finds none goes unrecorded.                   *)
(***************************************************************************)
CONSTANTS Ack, Place, Free

VARIABLES
    waiting,    \* what waits in each place
    heard       \* what the frame acted on acknowledges, or Free

vars == <<waiting>>

Init == waiting = [p \in Place |-> Free]

Record(a) == \E p \in Place : waiting[p] = Free /\ waiting' = [waiting EXCEPT ![p] = a]

Clear(a) ==
    /\ heard' = a
    /\ \E p \in Place : waiting[p] = a /\ waiting' = [waiting EXCEPT ![p] = Free]

Next == \E a \in Ack : Record(a) \/ Clear(a)

Spec == Init /\ [][Next]_vars
============================================================================
