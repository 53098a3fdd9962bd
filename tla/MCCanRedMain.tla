---------------------------- MODULE MCCanRedMain ----------------------------
(* A small CanRed, with the one serial interface main.cpp opens. *)
EXTENDS CanRedMain

CONSTANT serial

MCInterface == {serial}
MCMaxFrames == [i \in MCInterface |-> 2]
MCNoFrames == [i \in MCInterface |-> 0]
MCEdit == {{"remove", "add"}}
============================================================================
