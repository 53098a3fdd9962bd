------------------------------ MODULE MCFlash -------------------------------
(* What is kept in flash: the counters of the key fob and its car, and the *)
(* file of events.  They share no state, so it is enough that one of them  *)
(* takes steps while the other has not begun: each behaviour of either is  *)
(* here, and the states are a sum and not a product.                       *)
EXTENDS KeyFob, MCEventStore

CONSTANTS lock, unlock

MCCommand == {lock, unlock}

FlashInit == Init /\ StoreInit

KeyFobStep == StoreInit /\ Next /\ UNCHANGED storeVars

StoreStep == Init /\ StoreNext /\ UNCHANGED vars

FlashSpec ==
    /\ FlashInit
    /\ [][KeyFobStep \/ StoreStep]_<<vars, storeVars>>
    /\ RemoteFairness
=============================================================================
