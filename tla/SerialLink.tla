----------------------------- MODULE SerialLink -----------------------------
(***************************************************************************)
(* Frames over a serial line to a module: serialize_frame between a start  *)
(* byte and a stop byte (send_frame of CanRed/lib/Interfaces and of        *)
(* Modules/Common/Interfaces do the same), and the module's read_frame,    *)
(* which takes one byte in a call and keeps its state in between.  Bytes   *)
(* are not escaped.  A byte may be lost, and the module may start anew.    *)
(*                                                                         *)
(* faulted: read_frame did what C++ gives no meaning to.  It wrote past    *)
(* the end of its buffer, or copied a negative number of bytes.            *)
(***************************************************************************)
EXTENDS Integers, Sequences, SequencesExt

CONSTANTS
    Frame,          \* the frames sent
    MaxFrames,      \* bound: how many
    MaxLost,        \* bound: bytes lost
    MaxRestarts     \* bound: restarts of the module

SERIAL_MESSAGE_START_BYTE == 200
SERIAL_MESSAGE_STOP_BYTE == 210
MAX_SERIALIZED_SIZE == 13
MAX_UID == 2047

ASSUME SerialAssumption ==
    /\ Frame \subseteq [from_id : 0 .. MAX_UID, to_id : 0 .. MAX_UID, priority : 0 .. 3,
                        is_long_frame : {0, 1}, data : Seq(0 .. 255)]
    /\ \A f \in Frame : Len(f.data) <= 8
    /\ MaxFrames \in Nat /\ MaxLost \in Nat /\ MaxRestarts \in Nat

VARIABLES
    sent,               \* the frames sent so far
    out,                \* the bytes of the last one that are still to come
    currently_reading,
    buffer,             \* the bytes read, as many as buffer_index says
    length_byte,        \* buffer[4], which stays when buffer_index is reset
    faulted,
    got,                \* the frames read, each with the number of the frame sent last
    hurt,               \* the numbers of the frames of which the module missed a byte
    lost, restarts      \* counters

vars == <<sent, out, currently_reading, buffer, length_byte, faulted, got, hurt, lost, restarts>>
-----------------------------------------------------------------------------
(* Mutant: the sender's uid begins one bit higher. *)
ShiftedCanId(f) ==
    IF f.from_id = 0 \/ f.to_id = 0 THEN <<0, 0, 0, 0>>
    ELSE <<(f.to_id % 32) * 8 + 1,
           f.to_id \div 32 + (f.from_id % 2) * 128,
           f.from_id \div 2 % 256,
           f.from_id \div 512 + f.is_long_frame * 32 + f.priority * 64>>

(* Priority 31-30, long frame 29, sender 24-14, receiver 13-3, and a 1; the
   lowest byte first.  Without a sender or a receiver there is no id.       *)
formatted_can_id(f) ==
    IF f.from_id = 0 \/ f.to_id = 0 THEN <<0, 0, 0, 0>>
    ELSE <<(f.to_id % 32) * 8 + 1,
           f.to_id \div 32 + (f.from_id % 4) * 64,
           f.from_id \div 4 % 256,
           f.from_id \div 1024 + f.is_long_frame * 32 + f.priority * 64>>

serialize_frame(f) == formatted_can_id(f) \o <<Len(f.data)>> \o f.data

OnTheLine(f) ==
    <<SERIAL_MESSAGE_START_BYTE>> \o serialize_frame(f) \o <<SERIAL_MESSAGE_STOP_BYTE>>

NoFrame == [from_id |-> 0, to_id |-> 0, priority |-> 0, is_long_frame |-> 0, data |-> <<>>]

(* What was not read of the data is 0. *)
deserialize_frame(bytes) ==
    IF bytes[5] > 8 THEN NoFrame
    ELSE [from_id |-> bytes[2] \div 64 + bytes[3] * 4 + (bytes[4] % 2) * 1024,
          to_id |-> bytes[1] \div 8 + (bytes[2] % 64) * 32,
          priority |-> bytes[4] \div 64,
          is_long_frame |-> bytes[4] \div 32 % 2,
          data |-> [i \in 1 .. bytes[5] |-> IF 5 + i <= Len(bytes) THEN bytes[5 + i] ELSE 0]]
-----------------------------------------------------------------------------
Init ==
    /\ sent = <<>>
    /\ out = <<>>
    /\ currently_reading = FALSE
    /\ buffer = <<>>
    /\ length_byte = 0
    /\ faulted = FALSE
    /\ got = <<>>
    /\ hurt = {}
    /\ lost = 0
    /\ restarts = 0

send_frame(f) ==
    /\ out = <<>>
    /\ Len(sent) < MaxFrames
    /\ sent' = Append(sent, f)
    /\ out' = OnTheLine(f)
    /\ UNCHANGED <<currently_reading, buffer, length_byte, faulted, got, hurt, lost, restarts>>

(* Mutant: buffer_index is not reset. *)
KeepBuffer == buffer

EmptyBuffer == <<>>

(* A stop byte ends a frame.  Less than an id and a length cannot be copied, *)
(* unless a length over 8 was left there: that gives an empty frame first.  *)
EndFrame ==
    /\ currently_reading' = FALSE
    /\ buffer' = EmptyBuffer
    /\ IF Len(buffer) < 5 /\ length_byte <= 8
       THEN faulted' = TRUE /\ UNCHANGED got
       ELSE /\ got' = Append(got, [n |-> Len(sent),
                    frame |-> IF Len(buffer) < 5 THEN NoFrame ELSE deserialize_frame(buffer)])
            /\ UNCHANGED faulted
    /\ UNCHANGED length_byte

LengthByte(b) == IF Len(buffer) = 4 THEN b ELSE length_byte

(* Mutant: one byte too many. *)
StoreByteTooFar(b) ==
    /\ IF Len(buffer) <= MAX_SERIALIZED_SIZE
       THEN buffer' = Append(buffer, b) /\ UNCHANGED faulted
       ELSE faulted' = TRUE /\ UNCHANGED buffer
    /\ length_byte' = LengthByte(b)
    /\ UNCHANGED <<currently_reading, got>>

(* A byte of a frame; index 13 is past the end of the buffer. *)
StoreByte(b) ==
    /\ IF Len(buffer) < MAX_SERIALIZED_SIZE
       THEN buffer' = Append(buffer, b) /\ UNCHANGED faulted
       ELSE faulted' = TRUE /\ UNCHANGED buffer
    /\ length_byte' = LengthByte(b)
    /\ UNCHANGED <<currently_reading, got>>

read_frame ==
    /\ out # <<>>
    /\ out' = Tail(out)
    /\ IF faulted
       THEN hurt' = hurt \cup {Len(sent)} /\ UNCHANGED <<currently_reading, buffer, length_byte, faulted, got>>
       ELSE /\ LET b == Head(out)
               IN  IF b = SERIAL_MESSAGE_START_BYTE /\ ~currently_reading
                   THEN /\ currently_reading' = TRUE
                        /\ UNCHANGED <<buffer, length_byte, faulted, got>>
                   ELSE IF ~currently_reading
                   THEN UNCHANGED <<currently_reading, buffer, length_byte, faulted, got>>
                   ELSE IF b = SERIAL_MESSAGE_STOP_BYTE THEN EndFrame ELSE StoreByte(b)
            /\ UNCHANGED hurt
    /\ UNCHANGED <<sent, lost, restarts>>

LoseByte ==
    /\ out # <<>>
    /\ lost < MaxLost
    /\ out' = Tail(out)
    /\ lost' = lost + 1
    /\ hurt' = hurt \cup {Len(sent)}
    /\ UNCHANGED <<sent, currently_reading, buffer, length_byte, faulted, got, restarts>>

(* Bytes that come while the module starts are lost; here they come after. *)
Restart ==
    /\ restarts < MaxRestarts
    /\ restarts' = restarts + 1
    /\ currently_reading' = FALSE
    /\ buffer' = <<>>
    /\ length_byte' = 0
    /\ faulted' = FALSE
    /\ hurt' = IF out = <<>> THEN hurt ELSE hurt \cup {Len(sent)}
    /\ UNCHANGED <<sent, out, got, lost>>

Next ==
    \/ \E f \in Frame : send_frame(f)
    \/ read_frame \/ LoseByte \/ Restart

Spec == Init /\ [][Next]_vars
-----------------------------------------------------------------------------
(* Nothing in a frame ends it early, and it has an id. *)
Sound(f) ==
    /\ f.from_id # 0 /\ f.to_id # 0
    /\ SERIAL_MESSAGE_STOP_BYTE \notin ToSet(serialize_frame(f))

(* Neither this frame nor the one before it was hurt. *)
Undisturbed(n) == n \notin hurt /\ n - 1 \notin hurt

(* Types, the bytes of the module's buffer lie within it, and between two   *)
(* frames a module that missed nothing is not reading.                      *)
TypeOK ==
    /\ sent \in Seq(Frame) /\ Len(sent) <= MaxFrames
    /\ out \in Seq(0 .. 255)
    /\ currently_reading \in BOOLEAN
    /\ buffer \in Seq(0 .. 255) /\ Len(buffer) <= MAX_SERIALIZED_SIZE
    /\ length_byte \in 0 .. 255
    /\ faulted \in BOOLEAN
    /\ \A g \in ToSet(got) : g.n \in DOMAIN sent
    /\ hurt \subseteq DOMAIN sent
    /\ lost \in 0 .. MaxLost /\ restarts \in 0 .. MaxRestarts
    /\ (out = <<>> /\ Len(sent) \notin hurt) => (~currently_reading \/ faulted)

(* Of all that was read, only the k-th came while frame n was sent. *)
ReadOnceAt(n, k) == \A j \in DOMAIN got : got[j].n = n <=> j = k

(* A sound frame that came whole after one that came whole is read once, as *)
(* it was sent, and nothing else is read while it comes: whatever was in    *)
(* the frames before it, bytes equal to the start or the stop byte or bytes *)
(* lost long ago, the reader is at the start of a frame again when it comes.*)
SoundFramesArrive ==
    \A n \in DOMAIN sent :
        (Sound(sent[n]) /\ Undisturbed(n) /\ (n < Len(sent) \/ out = <<>>))
        => \E k \in DOMAIN got : got[k].frame = sent[n] /\ ReadOnceAt(n, k)

(* As long as no byte is lost and all frames are sound, read_frame stays    *)
(* within its buffer and always has a whole frame to copy.                  *)
FaultsNeedCause ==
    faulted => \/ hurt # {}
               \/ \E n \in DOMAIN sent : ~Sound(sent[n])
=============================================================================
