------------------------------ MODULE Mailbox ------------------------------
(***************************************************************************)
(* What CanRed's main loop promises to each of the threads that feed it:   *)
(* what a thread posts is taken by the main thread once, never before it   *)
(* was posted, and it is taken eventually.  Order is not part of the       *)
(* promise (the events thread sorts what it posts); CanRedMain states the  *)
(* order of frames on its own.                                             *)
(***************************************************************************)
CONSTANT Item

VARIABLES posted, taken

vars == <<posted, taken>>

Init ==
    /\ posted = {}
    /\ taken = {}

Post ==
    /\ posted' \in SUBSET Item
    /\ posted \subseteq posted'
    /\ UNCHANGED taken

Take ==
    /\ taken' \in SUBSET posted
    /\ taken \subseteq taken'
    /\ UNCHANGED posted

Next == Post \/ Take

Safe == Init /\ [][Next]_vars

(* Again and again the box is empty, so nothing stays in it for ever. *)
Drained == []<>(posted = taken)

Spec == Safe /\ Drained
============================================================================
