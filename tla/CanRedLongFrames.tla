-------------------------- MODULE CanRedLongFrames --------------------------
(***************************************************************************)
(* CanRed puts the long frames of the modules together                     *)
(* (CanManager::handle_incoming_frame and LongFrameHandler in              *)
(* src/CanRed/lib/CanManager): one map from the uid of a group to its      *)
(* bytes, whichever module they come from.                                 *)
(***************************************************************************)
EXTENDS LongFrameBus

(* The modules answer with their configuration and their events            *)
(* (Automato.cpp); CanManager is CanRed's own sender.                      *)
ASSUME FromModules == \A m \in Message : m.by # "CanManager"

VARIABLE m_buffers      \* function from the uids held to the bytes so far

vars == <<queue, messages, disturbed, parsed, m_buffers>>

Init == BusInit /\ m_buffers = <<>>

BytesHeld(uid) == IF uid \in DOMAIN m_buffers THEN m_buffers[uid] ELSE <<>>

(* Mutant: a frame takes the place of the bytes before it. *)
append_overwrites(f) ==
    [u \in DOMAIN m_buffers \cup {f.uid} |-> IF u = f.uid THEN f.bytes ELSE m_buffers[u]]

append(f) ==
    [u \in DOMAIN m_buffers \cup {f.uid} |->
        IF u = f.uid THEN BytesHeld(u) \o f.bytes ELSE m_buffers[u]]

(* Mutant: the bytes are copied, not taken. *)
copy_frame_group(f) == append(f)

steal_frame_group(f) == [u \in DOMAIN m_buffers \ {f.uid} |-> m_buffers[u]]

(* Mutant: acknowledgements are looked for among standard frames only. *)
is_ack_standard_only(f) == FALSE

(* A frame whose first byte is ACKNOWLEDGEMENT is taken for one, the uid   *)
(* of a long frame too.                                                    *)
is_ack(f) == f.uid = ACKNOWLEDGEMENT

handle_incoming_frame(s) ==
    LET f == Head(queue[s]) IN
    /\ GetsThrough(s)
    /\ \/ /\ is_ack(f)
          /\ parsed' = nothing
          /\ UNCHANGED m_buffers
       \/ /\ ~is_ack(f) /\ f.dlc = 8
          /\ m_buffers' = append(f)
          /\ parsed' = nothing
       \/ /\ ~is_ack(f) /\ f.dlc < 8
          /\ m_buffers' = steal_frame_group(f)
          /\ parsed' = [message |-> f.message, bytes |-> append(f)[f.uid]]

Next ==
    \/ \E s \in Sender, m \in Message, uid \in GroupUid : Begin(s, m, uid) /\ UNCHANGED m_buffers
    \/ \E s \in Sender : Lose(s) /\ UNCHANGED m_buffers
    \/ \E s \in Sender : handle_incoming_frame(s)

Spec == Init /\ [][Next]_vars

----------------------------------------------------------------------------
(* The types, and that no group is kept under the uid that is taken for an *)
(* acknowledgement.                                                        *)
TypeOK ==
    /\ BusType
    /\ DOMAIN m_buffers \subseteq GroupUid \ {ACKNOWLEDGEMENT}
    /\ \A uid \in DOMAIN m_buffers : m_buffers[uid] \in Seq((1..MaxMessages) \X Nat)

(* When the last frame of a group arrives, none of the group's frames was  *)
(* lost, no other group with its uid was being sent and nothing was left   *)
(* under its uid from before, then parse_frame_data is given the whole     *)
(* message in order, whatever other groups came in between - unless the    *)
(* uid is the one that handle_incoming_frame takes for an acknowledgement. *)
CleanGroupsArrive ==
    [][\A s \in Sender :
        EndsUndisturbed(s) /\ ~is_ack(Head(queue[s])) => IsGivenMessageOf(s)]_vars

(* What m_buffers keeps beyond the groups being sent comes from lost       *)
(* frames and mixed groups: a group that ends leaves nothing behind that   *)
(* a later group with its uid would find in front of its own bytes.        *)
NothingLeftBehind == DOMAIN m_buffers \subseteq UidsIn(queue) \cup disturbed
=============================================================================
