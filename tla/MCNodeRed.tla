----------------------------- MODULE MCNodeRed ------------------------------
(* What Node-RED asks for: commands over sockets, by two clients at one    *)
(* module, at two, or at one that is not known; and flows, compiled and    *)
(* run.  The two share no state, so it is enough that one of them takes    *)
(* steps while the other has not begun: each behaviour of either is here,  *)
(* and the states are a sum and not a product.                             *)
EXTENDS SocketRequests, MCEventFlow

CONSTANTS c1, c2

MCLookup == {(c1 :> 5) @@ (c2 :> 5), (c1 :> 5) @@ (c2 :> 6), (c1 :> 5) @@ (c2 :> 0)}

(* One graph stands for all of them while the clients take steps, and one  *)
(* choice of modules while the flows do.                                   *)
AGraph == CHOOSE g \in Odd : TRUE

ALookup == CHOOSE l \in MCLookup : TRUE

NodeRedInit == Init /\ FlowInit

RequestStep == nodes = AGraph /\ at = <<>> /\ Next /\ UNCHANGED flowVars

FlowStep == uid_of = ALookup /\ Init /\ FlowNext /\ UNCHANGED vars

NodeRedSpec ==
    /\ NodeRedInit
    /\ [][RequestStep \/ FlowStep]_<<vars, flowVars>>
    /\ FlowFairness
=============================================================================
