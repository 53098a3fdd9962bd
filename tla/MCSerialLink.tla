---------------------------- MODULE MCSerialLink ----------------------------
(* Frames of the protocol: a check-in, a command, and the first frame of a *)
(* long group with a start byte in it; a reply with a bool, whose marker   *)
(* is the stop byte; one with both bytes; one of a module whose uid has    *)
(* the stop byte; and a command to a module CanRed does not know.          *)
EXTENDS SerialLink

AFrame(from, to, priority, long, data) ==
    [from_id |-> from, to_id |-> to, priority |-> priority, is_long_frame |-> long, data |-> data]

MCFrame == {
    AFrame(2001, 2, 2, 0, <<129>>),
    AFrame(2, 1031, 3, 0, <<136, 200>>),
    AFrame(301, 2, 1, 1, <<9, 133, 200, 123, 34, 78, 97, 109>>),
    AFrame(5, 2, 1, 0, <<138, 1, 210, 1>>),
    AFrame(5, 2, 1, 0, <<138, 210, 200, 4>>),
    AFrame(840, 2, 1, 0, <<138, 1>>),
    AFrame(2, 0, 1, 0, <<136, 0>>)}
=============================================================================
