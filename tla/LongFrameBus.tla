---------------------------- MODULE LongFrameBus ----------------------------
(***************************************************************************)
(* Long frames: a message of more than one frame is sent as a group of     *)
(* frames of 8 bytes, each with the uid of the group in its first byte;    *)
(* the group is over with the first frame of less than 8 bytes             *)
(* (src/Modules/Common/LongFrameHandler/LongFrameHandler.h:6-23).  Senders *)
(* take their uids at random and without regard to each other; the bus     *)
(* interleaves their frames and loses some, but keeps the frames of one    *)
(* sender in order.                                                        *)
(*                                                                         *)
(* This module is the senders and the bus.  The receivers, CanRed's and    *)
(* the modules', extend it with what they do with a frame.                 *)
(*                                                                         *)
(* Byte i of the n-th message is <<n, i>>.  Bytes past its size are what a *)
(* sender reads past the end of its buffer.                                *)
(***************************************************************************)
EXTENDS Integers, Sequences, SequencesExt

CONSTANTS
    Sender,
    Message,        \* the messages sent: by which function, and how many bytes
    GroupUid,       \* what get_long_frame_uid returns: from 0 to 254
    MaxMessages     \* bound

ASSUME BusAssumption ==
    /\ Message \subseteq [by : {"events", "configuration", "CanManager"}, size : Nat]
    /\ GroupUid \subseteq 0..254
    /\ MaxMessages \in Nat

VARIABLES
    queue,      \* for each sender: the frames of its message still to be sent
    messages,   \* history: the sizes of the messages begun
    disturbed,  \* history: uids under which frames were lost or groups mixed
    parsed      \* what the receiver passed to its parser in the last step

ACKNOWLEDGEMENT == 128
INVALID == 199

Bytes(n, first, last) == [i \in 1..(last - first + 1) |-> <<n, first + i - 1>>]

(* dlc counts the byte of the uid. *)
Frame(uid, n, bytes) ==
    [uid |-> uid, message |-> n, bytes |-> bytes, dlc |-> Len(bytes) + 1]

AtMost(a, b) == IF a < b THEN a ELSE b

(* Seven bytes a frame; the last frame has fewer, and may have none. *)
SevenAtATime(uid, n, size) ==
    [k \in 1..(size \div 7 + 1) |-> Frame(uid, n, Bytes(n, 7 * k - 6, AtMost(7 * k, size)))]

(* CanManager::send_buffer_to_every_interface, for more than 8 bytes: a    *)
(* frame has a dlc of 7 at most, and its uid takes the place of a byte.    *)
(* So each of its frames ends a group, whatever CanManager.cpp:194 says.   *)
(* Mutant: modules send their groups so, too.                              *)
CanManager_send_buffer(uid, n, size) ==
    [k \in 1..((size + 6) \div 7) |->
        Frame(uid, n, Bytes(n, 7 * k - 4, AtMost(7 * k, size) + 1))]
    \o IF size % 7 = 0 THEN <<[Frame(INVALID, n, <<>>) EXCEPT !.dlc = 0]>> ELSE <<>>

(* send_stored_events: the size counts the protocol byte. *)
send_stored_events(uid, n, size) == SevenAtATime(uid, n, size)

(* send_stored_configuration: whole frames until 8 bytes more than the     *)
(* configuration were sent, then an empty one.                             *)
send_stored_configuration(uid, n, size) == SevenAtATime(uid, n, 7 * (1 + (size + 7) \div 7))

FramesOf(m, uid, n) ==
    CASE m.by = "events" -> send_stored_events(uid, n, m.size)
      [] m.by = "configuration" -> send_stored_configuration(uid, n, m.size)
      [] m.by = "CanManager" -> CanManager_send_buffer(uid, n, m.size)

nothing == [message |-> 0, bytes |-> <<>>]

BusInit ==
    /\ queue = [s \in Sender |-> <<>>]
    /\ messages = <<>>
    /\ disturbed = {}
    /\ parsed = nothing

UidsIn(q) == UNION {{q[s][k].uid : k \in DOMAIN q[s]} : s \in Sender}

----------------------------------------------------------------------------
(* A sender begins a message.  If its uid is in use by another, the two    *)
(* groups mix.                                                             *)
Begin(s, m, uid) ==
    /\ queue[s] = <<>> /\ Len(messages) < MaxMessages
    /\ messages' = Append(messages, m.size)
    /\ queue' = [queue EXCEPT ![s] = FramesOf(m, uid, Len(messages'))]
    /\ disturbed' = disturbed \cup ({uid} \cap UidsIn(queue))
    /\ parsed' = nothing

Lose(s) ==
    /\ queue[s] # <<>>
    /\ queue' = [queue EXCEPT ![s] = Tail(@)]
    /\ disturbed' = disturbed \cup {Head(queue[s]).uid}
    /\ parsed' = nothing
    /\ UNCHANGED messages

(* A frame gets through.  What was disturbed under its uid is over if it   *)
(* ends a group, unless another group with that uid is being sent.         *)
GetsThrough(s) ==
    LET f == Head(queue[s]) IN
    /\ queue[s] # <<>>
    /\ queue' = [queue EXCEPT ![s] = Tail(@)]
    /\ disturbed' = IF f.dlc < 8 /\ f.uid \notin UidsIn(queue') THEN disturbed \ {f.uid}
                    ELSE disturbed
    /\ UNCHANGED messages

(* The last frame of a group that nothing disturbed gets through. *)
EndsUndisturbed(s) ==
    /\ queue[s] # <<>> /\ queue'[s] = Tail(queue[s])
    /\ Head(queue[s]).dlc < 8
    /\ Head(queue[s]).uid \notin disturbed \cup disturbed'

(* The receiver's parser is given the message whose last frame is at the   *)
(* head of the sender's queue, from its first byte to its last.            *)
IsGivenMessageOf(s) ==
    LET n == Head(queue[s]).message IN
    IsPrefix(Bytes(n, 1, messages[n]), parsed'.bytes)

BusType ==
    /\ DOMAIN queue = Sender
    /\ \A s \in Sender : \A k \in DOMAIN queue[s] :
        queue[s][k].dlc \in 0..8 /\ queue[s][k].uid \in GroupUid \cup {INVALID}
    /\ messages \in Seq(Nat) /\ Len(messages) <= MaxMessages
    /\ disturbed \subseteq GroupUid \cup {INVALID}
    /\ parsed.message \in 0..MaxMessages
============================================================================
