-------------------------- MODULE ModuleLongFrames --------------------------
(***************************************************************************)
(* A module puts long frames together (Automato::handle_frame and          *)
(* LongFrameHandler in src/Modules/Common): a fixed number of buffers of a *)
(* fixed size.  A buffer holds the uid of its group in its first byte, and *)
(* is free when that byte is 0.                                            *)
(***************************************************************************)
EXTENDS LongFrameBus

CONSTANTS
    MAX_LONG_FRAME_GROUPS,
    MAX_BYTES_PER_LF_GROUP,
    ZeroBytes       \* which bytes of every message are 0; no other is a group's uid

ASSUME HandlerAssumption ==
    /\ MAX_LONG_FRAME_GROUPS \in 1..254
    /\ MAX_BYTES_PER_LF_GROUP \in 9..255
    /\ ZeroBytes \subseteq Nat

VARIABLES
    m_long_frame_buffer,        \* for each group index: the bytes
    m_long_frame_buffer_index,  \* for each group index: how many bytes
    refused                     \* history: uids under which the handler dropped a
                                \* frame, and 0 once a frame with uid 0 came

handlerVars == <<m_long_frame_buffer, m_long_frame_buffer_index, refused>>
vars == <<queue, messages, disturbed, parsed, m_long_frame_buffer,
          m_long_frame_buffer_index, refused>>

NOT_FOUND == 255
GroupIndex == 0..(MAX_LONG_FRAME_GROUPS - 1)
Position == 0..(MAX_BYTES_PER_LF_GROUP - 1)

(* A byte that is a uid, or zero, and not the byte of a message. *)
Plain(value) == <<0, value>>
Empty == [p \in Position |-> Plain(0)]

Value(byte) ==
    CASE byte[1] = 0 -> byte[2]
      [] byte[1] # 0 /\ byte[2] \in ZeroBytes -> 0
      [] OTHER -> NOT_FOUND

(* frame.data, all 8 bytes and the one behind them that memcpy reads too. *)
DataOf(f) ==
    [i \in 0..8 |-> IF i = 0 THEN Plain(f.uid)
                    ELSE IF i < f.dlc THEN f.bytes[i] ELSE Plain(0)]

memcpy(buffer, position, data, first, count) ==
    [p \in Position |->
        IF p \in position..(position + count - 1) THEN data[first + p - position]
        ELSE buffer[p]]

(* The first buffer whose first byte is the uid; of a free one it is 0. *)
find_index_from_uid(uid) ==
    LET Holding == {g \in GroupIndex : Value(m_long_frame_buffer[g][0]) = uid}
    IN IF Holding = {} THEN NOT_FOUND
       ELSE CHOOSE g \in Holding : \A h \in Holding : g <= h

find_free_buffer == find_index_from_uid(0)

Init ==
    /\ BusInit
    /\ m_long_frame_buffer = [g \in GroupIndex |-> Empty]
    /\ m_long_frame_buffer_index = [g \in GroupIndex |-> 0]
    /\ refused = {}

----------------------------------------------------------------------------
(* Mutant: the check leaves out what the buffer holds. *)
FitsAlone(f, index) == f.dlc <= MAX_BYTES_PER_LF_GROUP

Fits(f, index) == index + f.dlc <= MAX_BYTES_PER_LF_GROUP

(* Mutant: the byte of the uid is counted with every frame. *)
IndexAfterAll(f, index) == index + f.dlc

IndexAfter(f, index) == index + f.dlc - 1

(* What append returns, the buffer and the index it leaves there, and      *)
(* whether it stored the frame.  A new group's index goes up by 8 whatever *)
(* the size of its frame.                                                  *)
append(f) ==
    LET held == find_index_from_uid(f.uid)
        free == find_free_buffer
        index(g) == m_long_frame_buffer_index[g]
        buffer(g) == m_long_frame_buffer[g]
    IN CASE held = NOT_FOUND /\ free = NOT_FOUND ->
                [group |-> NOT_FOUND, buffer |-> Empty, index |-> 0, stored |-> FALSE]
         [] held = NOT_FOUND /\ free # NOT_FOUND ->
                [group |-> free, buffer |-> memcpy(buffer(free), 0, DataOf(f), 0, f.dlc),
                 index |-> index(free) + 8, stored |-> TRUE]
         [] held # NOT_FOUND /\ ~Fits(f, index(held)) ->
                [group |-> held, buffer |-> buffer(held), index |-> index(held),
                 stored |-> FALSE]
         [] held # NOT_FOUND /\ Fits(f, index(held)) ->
                [group |-> held,
                 buffer |-> memcpy(buffer(held), index(held), DataOf(f), 1, f.dlc),
                 index |-> IndexAfter(f, index(held)), stored |-> TRUE]

SetGroup(group, buffer, index) ==
    /\ m_long_frame_buffer' =
        [g \in GroupIndex |-> IF g = group THEN buffer ELSE m_long_frame_buffer[g]]
    /\ m_long_frame_buffer_index' =
        [g \in GroupIndex |-> IF g = group THEN index ELSE m_long_frame_buffer_index[g]]

(* Mutant: the bytes stay where they are. *)
clear_index(group) == SetGroup(group, m_long_frame_buffer[group], 0)

clear_data(group) == SetGroup(group, Empty, 0)

(* What a group of the handler gives parse_frame: as many bytes as are     *)
(* stored, from the one behind the uid, and thus one byte too many.        *)
BytesGiven(a) == [p \in 1..AtMost(a.index, MAX_BYTES_PER_LF_GROUP - 1) |-> a.buffer[p]]

RefusedAfter(f, stored) ==
    IF ~stored \/ f.uid = 0 THEN refused \cup {f.uid}
    ELSE IF f.dlc < 8 THEN refused \ {f.uid}
    ELSE refused

(* A frame whose first byte is ACKNOWLEDGEMENT never gets here             *)
(* (InterfaceHandler::try_read_frame).  Without a free buffer the end of a *)
(* group is read and cleared at index NOT_FOUND, outside of the handler.   *)
handle_frame(s) ==
    LET f == Head(queue[s])
        a == append(f)
    IN
    /\ GetsThrough(s)
    /\ \/ /\ f.uid = ACKNOWLEDGEMENT
          /\ parsed' = nothing
          /\ UNCHANGED handlerVars
       \/ /\ f.uid # ACKNOWLEDGEMENT
          /\ refused' = RefusedAfter(f, a.stored)
          /\ \/ /\ f.dlc = 8
                /\ SetGroup(a.group, a.buffer, a.index)
                /\ parsed' = nothing
             \/ /\ f.dlc < 8 /\ a.group # NOT_FOUND
                /\ parsed' = [message |-> f.message, bytes |-> BytesGiven(a)]
                /\ clear_data(a.group)
             \/ /\ f.dlc < 8 /\ a.group = NOT_FOUND
                /\ parsed' = nothing
                /\ UNCHANGED <<m_long_frame_buffer, m_long_frame_buffer_index>>

Next ==
    \/ \E s \in Sender, m \in Message, uid \in GroupUid :
        Begin(s, m, uid) /\ UNCHANGED handlerVars
    \/ \E s \in Sender : Lose(s) /\ UNCHANGED handlerVars
    \/ \E s \in Sender : handle_frame(s)

Spec == Init /\ [][Next]_vars

----------------------------------------------------------------------------
(* The types; and until a group with uid 0 comes, no index is past the end *)
(* of its buffer, however long the groups are.                             *)
TypeOK ==
    /\ BusType
    /\ refused \subseteq GroupUid \cup {INVALID}
    /\ \A g \in GroupIndex :
        /\ DOMAIN m_long_frame_buffer[g] = Position
        /\ m_long_frame_buffer_index[g] \in 0..(MAX_BYTES_PER_LF_GROUP + 7)
        /\ 0 \notin refused => m_long_frame_buffer_index[g] \in Position

(* The last frame of a group arrives; no frame of the group was lost or    *)
(* dropped for want of space, and its uid can be told from an              *)
(* acknowledgement; no group with uid 0 has come. *)
EndsComplete(s) ==
    /\ EndsUndisturbed(s)
    /\ Head(queue[s]).uid \notin {ACKNOWLEDGEMENT} \cup refused \cup refused'
    /\ 0 \notin refused \cup refused'

(* Then parse_frame is given the whole message in order, whatever other    *)
(* groups came in between and whatever was left of earlier ones.           *)
CleanGroupsArrive ==
    [][\A s \in Sender : EndsComplete(s) => IsGivenMessageOf(s)]_vars

(* Only lost frames and mixed groups use up buffers: until a group with    *)
(* uid 0 comes, every other buffer belongs to a group that is being sent.  *)
NothingLeftBehind ==
    0 \notin refused =>
        \A g \in GroupIndex :
            Value(m_long_frame_buffer[g][0]) \in {0} \cup UidsIn(queue) \cup disturbed
============================================================================
