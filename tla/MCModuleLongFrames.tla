------------------------- MODULE MCModuleLongFrames -------------------------
(* Two senders and fewer, smaller buffers than LongFrameHandler.h has.     *)
EXTENDS ModuleLongFrames, TLC

CONSTANTS s1, s2

MCSender == {s1, s2}
MCSymmetry == Permutations(MCSender)

(* Messages that end with an empty frame, that just fit into a buffer and  *)
(* that do not.                                                            *)
MCMessage == [by : {"events"}, size : {7, 15, 17}]

(* The uid that marks a free buffer, that of an acknowledgement, others. *)
MCGroupUid == {0, 4, 9, 128}

(* A payload with a zero where a group with uid 0 puts its first byte. *)
MCZeroBytes == {8}
=============================================================================
