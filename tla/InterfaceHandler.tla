-------------------------- MODULE InterfaceHandler --------------------------
(***************************************************************************)
(* The InterfaceHandler of a module                                        *)
(* (src/Modules/Common/InterfaceHandler/InterfaceHandler.cpp), driven by   *)
(* Automato::loop: it polls its interfaces in turn, forwards what it reads *)
(* from one interface to another, answers frames with acknowledgements,    *)
(* and keeps in m_ack_buffer what it sent and was not acknowledged yet.    *)
(*                                                                         *)
(* m_ack_buffer is an array of 2 * MAX_ACK_BUFFERS words, scanned at its   *)
(* even indices.  An entry is written at the first empty even index i, its *)
(* time at i + 2: the time takes the place of the next entry.              *)
(*                                                                         *)
(* A frame is its addressing and its first two bytes.  The node is an      *)
(* Automato object of static storage duration, so the array starts as      *)
(* zeros (the memset of the constructor covers a part of it only).         *)
(***************************************************************************)
EXTENDS Integers, Sequences, FiniteSets

CONSTANTS
    MAX_ACK_BUFFERS,
    NumInterfaces,          \* m_interfaces_index, once setup is over
    TranslationLayers,      \* pairs of interfaces: what the first reads goes to the second
    current_node_uid,
    Time,                   \* what millis() may return
    SentFrame, BusFrame,    \* frames this node sends, and frames it may read
    MaxSent, MaxRead        \* bounds: frames sent, frames that arrive

ANY == 1
ACKNOWLEDGEMENT == 128
INVALID == 199

Interface == 0..(NumInterfaces - 1)

(* The node's neighbours have a uid, 11 bits wide and never 0, which is    *)
(* what an unset frame holds.                                              *)
Uid == 1..2047
Byte == 0..255
Frame == [from_id : Uid, to_id : Uid, is_long_frame : BOOLEAN, data : Byte \X Byte]

(* MAX_ACK_BUFFERS is 12 in the code; any even number would do. *)
ASSUME TableAssumption ==
    /\ MAX_ACK_BUFFERS \in Nat \ {0}
    /\ MAX_ACK_BUFFERS % 2 = 0
ASSUME NodeAssumption ==
    /\ NumInterfaces \in Nat \ {0}
    /\ TranslationLayers \subseteq Interface \X Interface
    /\ current_node_uid \in Uid \ {ANY}
    /\ Time \subseteq Nat
    /\ SentFrame \subseteq Frame /\ BusFrame \subseteq Frame
    /\ MaxSent \in Nat /\ MaxRead \in Nat

VARIABLES
    m_ack_buffer,
    overrun,                \* a word was written past the end of m_ack_buffer
    frame,                  \* the static frame of Automato::loop
    interface_to_check,
    inbox,                  \* frames that wait at each interface
    out,                    \* frames the last step put on each interface
    sent, arrived,          \* history: how many frames were sent, and arrived
    unrecorded,             \* history: sends that found no empty entry
    collided,               \* history: a time was 0, or was taken for an entry
    heard                   \* history: the frames read

tableVars == <<m_ack_buffer, overrun, unrecorded, collided>>
readVars == <<frame, interface_to_check, inbox, arrived, heard>>
vars == <<tableVars, readVars, out, sent>>

(* static_cast<uint32_t>(module_uid) << 16 | command_id *)
Pack(module_uid, command_id) == module_uid * 65536 + command_id

Word == 0..(2 * MAX_ACK_BUFFERS - 1)
Slot == {i \in Word : i % 2 = 0}

(* In long frames the first byte is the group's uid, the second the command. *)
CommandByte(f) == IF f.is_long_frame THEN f.data[2] ELSE f.data[1]

(* Frames for everyone and acknowledgements are not acknowledged. *)
ExpectsAck(f) == f.data[1] # ACKNOWLEDGEMENT /\ f.to_id # ANY

Entry == {Pack(f.to_id, CommandByte(f)) : f \in {s \in SentFrame : ExpectsAck(s)}}

unset == [from_id |-> 0, to_id |-> 0, is_long_frame |-> FALSE, data |-> <<INVALID, 0>>]

Init ==
    /\ m_ack_buffer = [i \in Word |-> 0] /\ overrun = FALSE
    /\ frame = unset /\ interface_to_check = 0
    /\ inbox = [i \in Interface |-> <<>>]
    /\ out = [i \in Interface |-> <<>>]
    /\ sent = 0 /\ arrived = 0 /\ unrecorded = 0 /\ collided = FALSE
    /\ heard = {}

----------------------------------------------------------------------------
(* The table of what waits for an acknowledgement.                         *)

FirstSlotWith(word, i) ==
    /\ m_ack_buffer[i] = word
    /\ \A j \in Slot : j < i => m_ack_buffer[j] # word

(* Mutant: the scan starts at the second even index. *)
add_waiting_on_ack_from_2(module_uid, command_id) ==
    \/ \E i \in Slot, now \in Time :
        /\ i > 0 /\ m_ack_buffer[i] = 0
        /\ \A j \in Slot : 0 < j /\ j < i => m_ack_buffer[j] # 0
        /\ m_ack_buffer' = [m_ack_buffer EXCEPT ![i] = Pack(module_uid, command_id),
                                                ![i + 2] = now]
        /\ overrun' = (overrun \/ i + 2 \notin Word)
        /\ collided' = (collided \/ now = 0)
        /\ UNCHANGED unrecorded
    \/ /\ \A i \in Slot : i > 0 => m_ack_buffer[i] # 0
       /\ unrecorded' = unrecorded + 1
       /\ UNCHANGED <<m_ack_buffer, overrun, collided>>

(* Mutant: the first entry is overwritten when no slot is empty. *)
add_waiting_on_ack_recycles(module_uid, command_id) ==
    \E i \in Slot, now \in Time :
        /\ \/ FirstSlotWith(0, i)
           \/ i = 0 /\ \A j \in Slot : m_ack_buffer[j] # 0
        /\ m_ack_buffer' = [m_ack_buffer EXCEPT ![i] = Pack(module_uid, command_id),
                                                ![i + 2] = now]
        /\ overrun' = (overrun \/ i + 2 \notin Word)
        /\ collided' = (collided \/ now = 0)
        /\ UNCHANGED unrecorded

(* i + 2 may lie past the end: the write then changes another object. *)
add_waiting_on_ack(module_uid, command_id) ==
    \/ \E i \in Slot, now \in Time :
        /\ FirstSlotWith(0, i)
        /\ m_ack_buffer' = [m_ack_buffer EXCEPT ![i] = Pack(module_uid, command_id),
                                                ![i + 2] = now]
        /\ overrun' = (overrun \/ i + 2 \notin Word)
        /\ collided' = (collided \/ now = 0)
        /\ UNCHANGED unrecorded
    \/ /\ \A i \in Slot : m_ack_buffer[i] # 0
       /\ unrecorded' = unrecorded + 1
       /\ UNCHANGED <<m_ack_buffer, overrun, collided>>

remove_waiting_on_ack(module_uid, command_id) ==
    LET packed == Pack(module_uid, command_id) IN
    \/ \E i \in Slot :
        /\ FirstSlotWith(packed, i)
        /\ m_ack_buffer' = [m_ack_buffer EXCEPT ![i] = 0, ![i + 1] = 0]
        /\ collided' = (collided \/ i % 4 = 2)
    \/ /\ \A i \in Slot : m_ack_buffer[i] # packed
       /\ UNCHANGED <<m_ack_buffer, collided>>

----------------------------------------------------------------------------
(* Automato, or a message handler it calls, sends a frame: a frame of a    *)
(* longer buffer is one such step.                                         *)

send_frame_to_every_interface(f) ==
    /\ sent < MaxSent
    /\ sent' = sent + 1
    /\ out' = [i \in Interface |-> <<f>>]
    /\ IF ExpectsAck(f)
       THEN add_waiting_on_ack(f.to_id, CommandByte(f))
       ELSE UNCHANGED <<m_ack_buffer, overrun, collided, unrecorded>>
    /\ UNCHANGED readVars

(* A frame arrives at an interface. *)
Arrive(i, f) ==
    /\ arrived < MaxRead
    /\ arrived' = arrived + 1
    /\ inbox' = [inbox EXCEPT ![i] = Append(@, f)]
    /\ UNCHANGED <<tableVars, frame, interface_to_check, out, sent, heard>>

is_for_me(f) == f.to_id = current_node_uid

ack(f) == [from_id |-> current_node_uid, to_id |-> f.from_id, is_long_frame |-> FALSE,
           data |-> <<ACKNOWLEDGEMENT, CommandByte(f)>>]

(* Mutant: frames for other modules are not left alone. *)
ProcessAnyFrame(f, forwarded) ==
    \/ /\ f.data[1] = ACKNOWLEDGEMENT
       /\ out' = forwarded
       /\ remove_waiting_on_ack(f.from_id, f.data[2])
       /\ UNCHANGED <<overrun, unrecorded>>
    \/ /\ f.data[1] # ACKNOWLEDGEMENT
       /\ out' = [i \in Interface |-> Append(forwarded[i], ack(f))]
       /\ UNCHANGED tableVars

(* The second half of try_read_frame, which acts on *frame whether or not  *)
(* it was just read; Forwarded is what the first half has put out already. *)
ProcessFrame(f, forwarded) ==
    \/ /\ ~is_for_me(f)
       /\ out' = forwarded
       /\ UNCHANGED tableVars
    \/ /\ is_for_me(f) /\ f.data[1] = ACKNOWLEDGEMENT
       /\ out' = forwarded
       /\ remove_waiting_on_ack(f.from_id, f.data[2])
       /\ UNCHANGED <<overrun, unrecorded>>
    \/ /\ is_for_me(f) /\ f.data[1] # ACKNOWLEDGEMENT
       /\ out' = [i \in Interface |-> Append(forwarded[i], ack(f))]
       /\ UNCHANGED tableVars

(* Mutant: the index stays at the last interface. *)
NextInterfaceOnce ==
    IF interface_to_check = NumInterfaces - 1 THEN interface_to_check ELSE interface_to_check + 1

NextInterface ==
    IF interface_to_check = NumInterfaces - 1 THEN 0 ELSE interface_to_check + 1

ReadFrame ==
    LET i == NextInterface
        f == Head(inbox[i])
    IN
    /\ inbox[i] # <<>>
    /\ interface_to_check' = i
    /\ frame' = f
    /\ inbox' = [inbox EXCEPT ![i] = Tail(@)]
    /\ heard' = heard \cup {f}
    /\ ProcessFrame(f, [j \in Interface |->
            IF <<i, j>> \in TranslationLayers THEN <<f>> ELSE <<>>])
    /\ UNCHANGED <<sent, arrived>>

(* Mutant: read_frame resets the data of *frame before it knows that it has a frame. *)
ReadNothingResets ==
    /\ inbox[NextInterface] = <<>>
    /\ interface_to_check' = NextInterface
    /\ frame' = [frame EXCEPT !.data = <<INVALID, 0>>]
    /\ ProcessFrame(frame', [j \in Interface |-> <<>>])
    /\ UNCHANGED <<inbox, sent, arrived, heard>>

(* read_frame has nothing: *frame still is what was read before. *)
ReadNothing ==
    /\ inbox[NextInterface] = <<>>
    /\ interface_to_check' = NextInterface
    /\ ProcessFrame(frame, [j \in Interface |-> <<>>])
    /\ UNCHANGED <<frame, inbox, sent, arrived, heard>>

try_read_frame == ReadFrame \/ ReadNothing

Next ==
    \/ \E f \in SentFrame : send_frame_to_every_interface(f)
    \/ \E i \in Interface, f \in BusFrame : Arrive(i, f)
    \/ try_read_frame

Spec == Init /\ [][Next]_vars

(* The sketch calls Automato::loop for ever. *)
FairSpec == Spec /\ WF_vars(try_read_frame)

----------------------------------------------------------------------------
TypeOK ==
    /\ m_ack_buffer \in [Word -> Nat]
    /\ overrun \in BOOLEAN /\ collided \in BOOLEAN
    /\ frame \in BusFrame \cup {unset}
    /\ interface_to_check \in Interface
    /\ inbox \in [Interface -> Seq(BusFrame)]
    /\ sent \in 0..MaxSent /\ arrived \in 0..MaxRead /\ unrecorded \in Nat
    /\ heard \subseteq BusFrame

(* The table is never written past its end, unless millis() once returned  *)
(* 0 or a value an acknowledgement was taken for: the last even word of    *)
(* the array only ever holds a time.  It is what the comment at            *)
(* InterfaceHandler.cpp:204 wonders about ("I don't think this is an off   *)
(* by one error, but I am not sure").                                      *)
NoOverrun == overrun => collided

(* What the frame acted on acknowledges, if it is for this node: the entry *)
(* of that message, or 0.                                                  *)
Acknowledged ==
    IF is_for_me(frame) /\ frame.data[1] = ACKNOWLEDGEMENT
    THEN Pack(frame.from_id, frame.data[2]) ELSE 0

(* The entries of the array as a table, without the times between them.    *)
Acks == INSTANCE PendingAcks WITH
    Ack <- Entry, Place <- Slot, Free <- 0, heard <- Acknowledged,
    waiting <- [i \in Slot |-> IF i % 4 = 0 THEN m_ack_buffer[i] ELSE 0]

(* As long as no time was taken for an entry, a message that waits is not  *)
(* overwritten, by another or by a time, and stays until the frame acted   *)
(* on is an acknowledgement of it for this node, which clears no other.    *)
EntriesKept == [][~collided' => [Acks!Next]_(Acks!vars)]_vars

(* What InterfaceHandler.h:9 says of MAX_ACK_BUFFERS, "the number of       *)
(* possible ACKs we can cache at once": as many are recorded before one    *)
(* goes unrecorded.  Violated: the time of an entry takes the next place   *)
(* (InterfaceHandler.cpp:174), and half as many fill the table.            *)
CachesMaxAckBuffers == unrecorded > 0 => sent > MAX_ACK_BUFFERS

(* What the node puts on a bus and neither was told to send nor has read   *)
(* is an acknowledgement; it answers a frame it read that was for it       *)
(* alone, and never another acknowledgement: no two nodes acknowledge each *)
(* other for ever, although *frame may be answered again.                  *)
AcksAnswerMessages ==
    \A i \in Interface : \A k \in DOMAIN out[i] :
        out[i][k] \notin SentFrame \cup heard =>
            \E f \in heard :
                is_for_me(f) /\ f.data[1] # ACKNOWLEDGEMENT /\ out[i][k] = ack(f)

(* Polling in turn serves every interface: frames that arrived are read.   *)
InterfacesServed == \A i \in Interface : []<>(inbox[i] = <<>>)
============================================================================
