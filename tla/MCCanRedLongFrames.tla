------------------------- MODULE MCCanRedLongFrames -------------------------
(* Two modules: messages that end within a frame, at the end of a frame    *)
(* and with an empty one; the uid of an acknowledgement and another.       *)
EXTENDS CanRedLongFrames, TLC

CONSTANTS m1, m2

MCSender == {m1, m2}
MCSymmetry == Permutations(MCSender)
MCMessage ==
    [by : {"events"}, size : {3, 7, 16}] \cup [by : {"configuration"}, size : {6}]
MCGroupUid == {4, 9, 128}
=============================================================================
