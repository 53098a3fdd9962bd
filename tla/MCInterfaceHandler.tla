------------------------- MODULE MCInterfaceHandler -------------------------
(* A module with uid 5 on two buses, which it bridges, and two neighbours. *)
EXTENDS InterfaceHandler

Message(from, to, long, b0, b1) ==
    [from_id |-> from, to_id |-> to, is_long_frame |-> long, data |-> <<b0, b1>>]

MCTranslationLayers == {<<0, 1>>, <<1, 0>>}

(* COMMAND to two neighbours, the second in a long frame group of uid 7, and one to all *)
MCSentFrame == {Message(5, 6, FALSE, 136, 1), Message(5, 8, TRUE, 7, 139),
                Message(5, ANY, FALSE, 129, 0)}

(* acknowledgements, a command, a long frame, and frames that are not for 5 *)
MCBusFrame == {Message(6, 5, FALSE, ACKNOWLEDGEMENT, 136), Message(8, 5, FALSE, ACKNOWLEDGEMENT, 139),
               Message(6, 5, FALSE, 136, 2), Message(8, 5, TRUE, 9, 138),
               Message(6, 8, FALSE, 136, 2)}

(* The second is Pack(6, 136): 6 minutes and 33 seconds after the start. *)
MCTime == {1000, 393352}
============================================================================
