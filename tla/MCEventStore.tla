---------------------------- MODULE MCEventStore ----------------------------
(* Events with the smallest values.  The bytes behind the first are 0,     *)
(* first bytes of other events, and one that is no event's first.          *)
EXTENDS EventStore

(* A main event whose first byte is 0 and another, two commands, an if. *)
MCEventBlob == {<<0, 192, 1, 0, 0, 5>>, <<22, 0, 64, 128, 5, 1>>,
                <<64, 1, 0, 1, 0>>, <<64, 192, 2, 0, 22>>, <<150, 64, 0, 1, 2, 0, 1>>}
=============================================================================
