----------------------- MODULE InterfaceHandlerProofs -----------------------
(***************************************************************************)
(* The table of pending acknowledgements keeps its entries until they are  *)
(* acknowledged, and is not written past its end, for every even           *)
(* MAX_ACK_BUFFERS, every set of frames and every clock, as long as no     *)
(* time is mistaken for an entry.                                          *)
(***************************************************************************)
EXTENDS InterfaceHandler, TLAPS, SequenceTheorems

(* Entries lie at the multiples of four, and the word two after an entry,  *)
(* which holds or has held its time, is not empty: so the scan for an      *)
(* empty slot stops at a multiple of four.                                 *)
TableInv ==
    ~collided =>
        /\ ~overrun
        /\ \A i \in Slot : i % 4 = 0 =>
            /\ m_ack_buffer[i] \in Entry \cup {0}
            /\ m_ack_buffer[i] # 0 => m_ack_buffer[i + 2] # 0

(* Where the entries and the times of the array lie. *)
LEMMA SlotArithmetic ==
    /\ \A i \in Slot : i \in Word /\ i + 1 \in Word /\ i \in Nat
    /\ \A i \in Slot : i % 4 # 0 => i % 4 = 2 /\ i - 2 \in Slot /\ (i - 2) % 4 = 0
    /\ \A i \in Slot : i % 4 = 0 =>
        i + 2 \in Slot /\ (i + 2) % 4 # 0
    /\ Word \subseteq Nat
BY TableAssumption DEF Slot, Word

(* A packed entry is a number other than 0, the mark of an empty slot. *)
LEMMA PackIsPositive == \A u \in Uid, b \in Byte : Pack(u, b) \in Nat \ {0}
BY DEF Pack, Uid, Byte

LEMMA FrameParts ==
    ASSUME NEW f \in Frame
    PROVE /\ f.from_id \in Uid /\ f.to_id \in Uid
          /\ f.data[1] \in Byte /\ f.data[2] \in Byte
          /\ CommandByte(f) \in Byte
<1>1. f.data \in Byte \X Byte
  BY DEF Frame
<1>2. f.data[1] \in Byte /\ f.data[2] \in Byte
  BY <1>1
<1>. QED BY <1>2 DEF Frame, CommandByte

LEMMA EntriesAreWords == Entry \subseteq Nat \ {0}
<1>. SUFFICES ASSUME NEW f \in SentFrame
              PROVE Pack(f.to_id, CommandByte(f)) \in Nat \ {0}
  BY DEF Entry
<1>1. f \in Frame
  BY NodeAssumption
<1>2. f.to_id \in Uid /\ CommandByte(f) \in Byte
  BY <1>1, FrameParts
<1>. QED BY <1>2, PackIsPositive, Zenon

----------------------------------------------------------------------------
(* Type correctness.                                                       *)

LEMMA AddType ==
    ASSUME TypeOK, NEW f \in SentFrame, ExpectsAck(f),
           add_waiting_on_ack(f.to_id, CommandByte(f))
    PROVE /\ m_ack_buffer' \in [Word -> Nat]
          /\ overrun' \in BOOLEAN /\ collided' \in BOOLEAN /\ unrecorded' \in Nat
<1>1. Pack(f.to_id, CommandByte(f)) \in Nat
  BY EntriesAreWords DEF Entry
<1>2. CASE \E i \in Slot, now \in Time :
              /\ m_ack_buffer' = [m_ack_buffer EXCEPT ![i] = Pack(f.to_id, CommandByte(f)),
                                                      ![i + 2] = now]
              /\ overrun' = (overrun \/ i + 2 \notin Word)
              /\ collided' = (collided \/ now = 0)
              /\ UNCHANGED unrecorded
  <2>1. PICK i \in Slot, now \in Time :
              /\ m_ack_buffer' = [m_ack_buffer EXCEPT ![i] = Pack(f.to_id, CommandByte(f)),
                                                      ![i + 2] = now]
              /\ overrun' = (overrun \/ i + 2 \notin Word)
              /\ collided' = (collided \/ now = 0)
              /\ UNCHANGED unrecorded
    BY <1>2
  <2>2. now \in Nat
    BY NodeAssumption
  <2>3. m_ack_buffer' \in [Word -> Nat]
    BY <1>1, <2>1, <2>2 DEF TypeOK
  <2>4. overrun' \in BOOLEAN /\ collided' \in BOOLEAN
    BY <2>1 DEF TypeOK
  <2>. QED BY <2>1, <2>3, <2>4 DEF TypeOK
<1>3. CASE unrecorded' = unrecorded + 1 /\ UNCHANGED <<m_ack_buffer, overrun, collided>>
  BY <1>3 DEF TypeOK
<1>. QED BY <1>2, <1>3 DEF add_waiting_on_ack

LEMMA RemoveType ==
    ASSUME TypeOK, NEW f \in BusFrame, remove_waiting_on_ack(f.from_id, f.data[2])
    PROVE /\ m_ack_buffer' \in [Word -> Nat]
          /\ collided' \in BOOLEAN
<1>. DEFINE packed == Pack(f.from_id, f.data[2])
<1>1. \/ \E i \in Slot :
          /\ m_ack_buffer' = [m_ack_buffer EXCEPT ![i] = 0, ![i + 1] = 0]
          /\ collided' = (collided \/ i % 4 = 2)
      \/ UNCHANGED <<m_ack_buffer, collided>>
  BY Zenon DEF remove_waiting_on_ack
<1>2. CASE UNCHANGED <<m_ack_buffer, collided>>
  BY <1>2 DEF TypeOK
<1>3. ASSUME NEW i \in Slot,
             m_ack_buffer' = [m_ack_buffer EXCEPT ![i] = 0, ![i + 1] = 0],
             collided' = (collided \/ i % 4 = 2)
      PROVE /\ m_ack_buffer' \in [Word -> Nat]
            /\ collided' \in BOOLEAN
    <2>1. m_ack_buffer' \in [Word -> Nat]
    BY <1>3 DEF TypeOK
  <2>. QED BY <1>3, <2>1 DEF TypeOK
<1>. QED BY <1>1, <1>2, <1>3

LEMMA ProcessType ==
    ASSUME TypeOK, NEW f \in BusFrame \cup {unset}, NEW forwarded, ProcessFrame(f, forwarded)
    PROVE /\ m_ack_buffer' \in [Word -> Nat]
          /\ overrun' \in BOOLEAN /\ collided' \in BOOLEAN /\ unrecorded' \in Nat
<1>1. CASE UNCHANGED tableVars
  BY <1>1 DEF TypeOK, tableVars
<1>2. CASE /\ is_for_me(f)
           /\ remove_waiting_on_ack(f.from_id, f.data[2])
           /\ UNCHANGED <<overrun, unrecorded>>
  <2>1. f \in BusFrame
    BY <1>2, NodeAssumption DEF is_for_me, unset, Uid
  <2>. QED BY <1>2, <2>1, RemoveType DEF TypeOK
<1>. QED BY <1>1, <1>2 DEF ProcessFrame

(* Every variable keeps its type, whatever the frames on the buses. *)
THEOREM TypeCorrect == Spec => []TypeOK
<1>1. Init => TypeOK
  <2>. SUFFICES ASSUME Init PROVE TypeOK
    OBVIOUS
  <2>1. inbox \in [Interface -> Seq(BusFrame)]
    BY EmptySeq DEF Init
  <2>2. 0 \in Interface
    BY NodeAssumption DEF Interface
  <2>. QED BY <2>1, <2>2, NodeAssumption DEF Init, TypeOK
<1>2. TypeOK /\ [Next]_vars => TypeOK'
  <2>. SUFFICES ASSUME TypeOK, [Next]_vars PROVE TypeOK'
    OBVIOUS
  <2>1. ASSUME NEW f \in SentFrame, send_frame_to_every_interface(f) PROVE TypeOK'
    <3>1. /\ m_ack_buffer' \in [Word -> Nat]
          /\ overrun' \in BOOLEAN /\ collided' \in BOOLEAN /\ unrecorded' \in Nat
      <4>1. CASE ExpectsAck(f)
        BY <2>1, <4>1, AddType DEF send_frame_to_every_interface
      <4>2. CASE ~ExpectsAck(f)
        BY <2>1, <4>2 DEF send_frame_to_every_interface, TypeOK
      <4>. QED BY <4>1, <4>2
    <3>. QED BY <2>1, <3>1, NodeAssumption DEF send_frame_to_every_interface, TypeOK, readVars
  <2>2. ASSUME NEW i \in Interface, NEW f \in BusFrame, Arrive(i, f) PROVE TypeOK'
    <3>1. Append(inbox[i], f) \in Seq(BusFrame)
      BY AppendProperties DEF TypeOK
    <3>2. inbox' \in [Interface -> Seq(BusFrame)]
      BY <2>2, <3>1 DEF Arrive, TypeOK
    <3>. QED BY <2>2, <3>2, NodeAssumption DEF Arrive, TypeOK, tableVars
  <2>3. NextInterface \in Interface
    BY NodeAssumption DEF NextInterface, Interface, TypeOK
  <2>4. CASE ReadFrame
    <3>. DEFINE i == NextInterface
    <3>1. Head(inbox[i]) \in BusFrame /\ Tail(inbox[i]) \in Seq(BusFrame)
      BY <2>3, <2>4, HeadTailProperties DEF ReadFrame, TypeOK
    <3>2. /\ m_ack_buffer' \in [Word -> Nat]
          /\ overrun' \in BOOLEAN /\ collided' \in BOOLEAN /\ unrecorded' \in Nat
      BY <2>4, <3>1, ProcessType DEF ReadFrame
    <3>3. inbox' \in [Interface -> Seq(BusFrame)]
      BY <2>3, <2>4, <3>1 DEF ReadFrame, TypeOK
    <3>4. frame' \in BusFrame /\ heard' \subseteq BusFrame /\ interface_to_check' \in Interface
      BY <2>3, <2>4, <3>1 DEF ReadFrame, TypeOK
    <3>. QED BY <2>4, <3>2, <3>3, <3>4 DEF ReadFrame, TypeOK
  <2>5. CASE ReadNothing
    <3>1. /\ m_ack_buffer' \in [Word -> Nat]
          /\ overrun' \in BOOLEAN /\ collided' \in BOOLEAN /\ unrecorded' \in Nat
      BY <2>5, ProcessType DEF ReadNothing, TypeOK
    <3>. QED BY <2>3, <2>5, <3>1 DEF ReadNothing, TypeOK
  <2>6. CASE UNCHANGED vars
    BY <2>6 DEF vars, tableVars, readVars, TypeOK
  <2>. QED BY <2>1, <2>2, <2>4, <2>5, <2>6 DEF Next, try_read_frame
<1>. QED BY <1>1, <1>2, PTL DEF Spec

----------------------------------------------------------------------------
(* The table.                                                              *)

(* What a send that records its frame does: it fills a place that is free. *)
LEMMA RecordStep ==
    ASSUME TypeOK, TableInv, ~collided', NEW f \in SentFrame, ExpectsAck(f),
           NEW i \in Slot, NEW now \in Time, FirstSlotWith(0, i),
           m_ack_buffer' = [m_ack_buffer EXCEPT ![i] = Pack(f.to_id, CommandByte(f)),
                                               ![i + 2] = now],
           overrun' = (overrun \/ i + 2 \notin Word),
           collided' = (collided \/ now = 0)
    PROVE /\ i % 4 = 0
          /\ TableInv'
          /\ \A j \in Slot : j % 4 = 0 => m_ack_buffer'[j] =
                IF j = i THEN Pack(f.to_id, CommandByte(f)) ELSE m_ack_buffer[j]
<1>. DEFINE packed == Pack(f.to_id, CommandByte(f))
<1>1. packed \in Entry
  BY DEF Entry
<1>2. packed # 0
  BY <1>1, EntriesAreWords
<1>3. ~collided /\ now # 0
  OBVIOUS
<1>. HIDE DEF packed
<1>4. i % 4 = 0
  <2>. SUFFICES ASSUME i % 4 # 0 PROVE FALSE
    OBVIOUS
  <2>1. i - 2 \in Slot /\ (i - 2) % 4 = 0 /\ i \in Nat
    BY SlotArithmetic
  <2>2. m_ack_buffer[i - 2] # 0
    BY <2>1 DEF FirstSlotWith
  <2>3. m_ack_buffer[(i - 2) + 2] # 0
    BY <1>3, <2>1, <2>2 DEF TableInv
  <2>4. (i - 2) + 2 = i
    BY <2>1
  <2>. QED BY <2>3, <2>4 DEF FirstSlotWith
<1>5. i + 2 \in Slot /\ (i + 2) % 4 # 0 /\ i \in Word /\ i + 2 \in Word
  BY <1>4, SlotArithmetic
<1>6. \A j \in Slot : m_ack_buffer'[j] =
        IF j = i + 2 THEN now ELSE IF j = i THEN packed ELSE m_ack_buffer[j]
  BY <1>5, SlotArithmetic DEF TypeOK, packed
<1>7. \A j \in Slot : j % 4 = 0 =>
        m_ack_buffer'[j] = IF j = i THEN packed ELSE m_ack_buffer[j]
  BY <1>5, <1>6
<1>8. TableInv'
  <2>1. ~overrun'
    BY <1>3, <1>5 DEF TableInv
  <2>2. ASSUME NEW j \in Slot, j % 4 = 0 PROVE m_ack_buffer'[j] \in Entry \cup {0}
    BY <1>1, <1>3, <1>7, <2>2 DEF TableInv
  <2>3. ASSUME NEW j \in Slot, j % 4 = 0, m_ack_buffer'[j] # 0 PROVE m_ack_buffer'[j + 2] # 0
    <3>1. j + 2 \in Slot /\ (j + 2) % 4 # 0 /\ j \in Nat /\ i \in Nat
      BY <2>3, SlotArithmetic
    <3>2. CASE j = i
      BY <1>3, <1>5, <1>6, <3>2
    <3>3. CASE j # i
      <4>1. m_ack_buffer[j] # 0
        BY <1>7, <2>3, <3>3
      <4>2. m_ack_buffer[j + 2] # 0
        BY <1>3, <2>3, <4>1 DEF TableInv
      <4>3. j + 2 # i + 2 /\ j + 2 # i
        BY <1>4, <3>1, <3>3
      <4>. QED BY <1>6, <3>1, <4>2, <4>3
    <3>. QED BY <3>2, <3>3
  <2>. QED BY <2>1, <2>2, <2>3 DEF TableInv
<1>. QED BY <1>4, <1>7, <1>8 DEF packed

(* What an acknowledgement that finds its entry does: it frees the place.  *)
LEMMA ClearStep ==
    ASSUME TypeOK, TableInv, ~collided', NEW packed \in Nat \ {0},
           NEW i \in Slot, FirstSlotWith(packed, i),
           m_ack_buffer' = [m_ack_buffer EXCEPT ![i] = 0, ![i + 1] = 0],
           collided' = (collided \/ i % 4 = 2), UNCHANGED overrun
    PROVE /\ i % 4 = 0
          /\ packed \in Entry
          /\ TableInv'
          /\ \A j \in Slot : j % 4 = 0 => m_ack_buffer'[j] = IF j = i THEN 0 ELSE m_ack_buffer[j]
<1>1. ~collided /\ i % 4 = 0
  BY SlotArithmetic
<1>2. packed \in Entry
  BY <1>1 DEF TableInv, FirstSlotWith
<1>3. \A j \in Slot : j # i + 1
  BY DEF Slot, Word
<1>4. \A j \in Slot : m_ack_buffer'[j] = IF j = i THEN 0 ELSE m_ack_buffer[j]
  BY <1>3, SlotArithmetic DEF TypeOK
<1>5. TableInv'
  <2>1. ~overrun'
    BY <1>1 DEF TableInv
  <2>2. ASSUME NEW j \in Slot, j % 4 = 0 PROVE m_ack_buffer'[j] \in Entry \cup {0}
    BY <1>1, <1>4, <2>2 DEF TableInv
  <2>3. ASSUME NEW j \in Slot, j % 4 = 0, m_ack_buffer'[j] # 0 PROVE m_ack_buffer'[j + 2] # 0
    <3>1. j + 2 \in Slot /\ (j + 2) % 4 # 0
      BY <2>3, SlotArithmetic
    <3>2. m_ack_buffer[j] # 0
      BY <1>4, <2>3
    <3>3. m_ack_buffer[j + 2] # 0
      BY <1>1, <2>3, <3>2 DEF TableInv
    <3>4. j + 2 # i
      BY <1>1, <3>1
    <3>. QED BY <1>4, <3>1, <3>3, <3>4
  <2>. QED BY <2>1, <2>2, <2>3 DEF TableInv
<1>. QED BY <1>1, <1>2, <1>4, <1>5

(* The entries of the array, as PendingAcks sees them. *)
waiting == [i \in Slot |-> IF i % 4 = 0 THEN m_ack_buffer[i] ELSE 0]

(* A step that changes one entry of the array changes one place of it. *)
LEMMA OnePlace ==
    ASSUME NEW i \in Slot, i % 4 = 0, NEW word,
           \A j \in Slot : j % 4 = 0 =>
              m_ack_buffer'[j] = IF j = i THEN word ELSE m_ack_buffer[j]
    PROVE waiting' = [waiting EXCEPT ![i] = word]
BY DEF waiting

LEMMA AddImplements ==
    ASSUME TypeOK, TableInv, ~collided', NEW f \in SentFrame, ExpectsAck(f),
           add_waiting_on_ack(f.to_id, CommandByte(f))
    PROVE TableInv' /\ [Acks!Next]_(Acks!vars)
<1>. DEFINE packed == Pack(f.to_id, CommandByte(f))
<1>1. packed \in Entry
  BY DEF Entry
<1>2. ASSUME NEW i \in Slot, NEW now \in Time, FirstSlotWith(0, i),
             m_ack_buffer' = [m_ack_buffer EXCEPT ![i] = packed, ![i + 2] = now],
             overrun' = (overrun \/ i + 2 \notin Word),
             collided' = (collided \/ now = 0),
             UNCHANGED unrecorded
      PROVE TableInv' /\ Acks!Next
  <2>1. /\ i % 4 = 0
        /\ TableInv'
        /\ \A j \in Slot : j % 4 = 0 =>
              m_ack_buffer'[j] = IF j = i THEN packed ELSE m_ack_buffer[j]
    BY <1>2, RecordStep
  <2>. HIDE DEF packed
  <2>2. waiting[i] = 0
    BY <1>2, <2>1 DEF FirstSlotWith, waiting
  <2>3. waiting' = [waiting EXCEPT ![i] = packed]
    BY <2>1, OnePlace
  <2>4. Acks!Record(packed)
    BY <2>2, <2>3 DEF Acks!Record, waiting
  <2>. QED BY <1>1, <2>1, <2>4 DEF Acks!Next
<1>3. CASE UNCHANGED <<m_ack_buffer, overrun, collided>>
  BY <1>3 DEF TableInv, Acks!vars
<1>. QED BY <1>2, <1>3, Zenon DEF add_waiting_on_ack

LEMMA RemoveImplements ==
    ASSUME TypeOK, TableInv, ~collided', frame' \in Frame,
           is_for_me(frame'), frame'.data[1] = ACKNOWLEDGEMENT,
           remove_waiting_on_ack(frame'.from_id, frame'.data[2]), UNCHANGED <<overrun, unrecorded>>
    PROVE TableInv' /\ [Acks!Next]_(Acks!vars)
<1>. DEFINE packed == Pack(frame'.from_id, frame'.data[2])
<1>1. packed \in Nat \ {0}
  BY FrameParts, PackIsPositive, Zenon
<1>2. Acknowledged' = packed
  BY DEF Acknowledged, is_for_me
<1>3. ASSUME NEW i \in Slot, FirstSlotWith(packed, i),
             m_ack_buffer' = [m_ack_buffer EXCEPT ![i] = 0, ![i + 1] = 0],
             collided' = (collided \/ i % 4 = 2)
      PROVE TableInv' /\ Acks!Next
  <2>. HIDE DEF packed
  <2>1. /\ i % 4 = 0
        /\ packed \in Entry
        /\ TableInv'
        /\ \A j \in Slot : j % 4 = 0 =>
              m_ack_buffer'[j] = IF j = i THEN 0 ELSE m_ack_buffer[j]
    BY <1>1, <1>3, ClearStep
  <2>2. waiting[i] = packed
    BY <1>3, <2>1 DEF FirstSlotWith, waiting
  <2>3. waiting' = [waiting EXCEPT ![i] = 0]
    BY <2>1, OnePlace
  <2>4. PICK a \in Entry : a = packed
    BY <2>1
  <2>5. Acks!Clear(a)
    BY <1>2, <2>2, <2>3, <2>4 DEF Acks!Clear, waiting
  <2>. QED BY <2>1, <2>5 DEF Acks!Next
<1>4. CASE UNCHANGED <<m_ack_buffer, collided>>
  BY <1>4 DEF TableInv, Acks!vars
<1>. QED BY <1>3, <1>4, Zenon DEF remove_waiting_on_ack

(* One step of the node.                                                   *)
LEMMA StepImplements ==
    ASSUME TypeOK, TableInv, [Next]_vars, ~collided'
    PROVE TableInv' /\ [Acks!Next]_(Acks!vars)
<1>1. ASSUME UNCHANGED <<m_ack_buffer, overrun, collided, unrecorded>>
      PROVE TableInv' /\ [Acks!Next]_(Acks!vars)
  BY <1>1 DEF TableInv, Acks!vars
<1>2. ASSUME NEW f \in SentFrame, send_frame_to_every_interface(f)
      PROVE TableInv' /\ [Acks!Next]_(Acks!vars)
  <2>1. CASE ExpectsAck(f)
    BY <1>2, <2>1, AddImplements DEF send_frame_to_every_interface
  <2>2. CASE ~ExpectsAck(f)
    BY <1>1, <1>2, <2>2 DEF send_frame_to_every_interface
  <2>. QED BY <2>1, <2>2
<1>3. ASSUME frame' \in BusFrame \cup {unset}, NEW forwarded, ProcessFrame(frame', forwarded)
      PROVE TableInv' /\ [Acks!Next]_(Acks!vars)
  <2>1. CASE UNCHANGED tableVars
    BY <1>1, <2>1 DEF tableVars
  <2>2. CASE /\ is_for_me(frame') /\ frame'.data[1] = ACKNOWLEDGEMENT
             /\ remove_waiting_on_ack(frame'.from_id, frame'.data[2])
             /\ UNCHANGED <<overrun, unrecorded>>
    <3>1. frame' \in Frame
      BY <1>3, <2>2, NodeAssumption DEF is_for_me, unset, Uid
    <3>. QED BY <2>2, <3>1, RemoveImplements
  <2>. QED BY <1>3, <2>1, <2>2 DEF ProcessFrame
<1>4. CASE ReadFrame
  <2>1. NextInterface \in Interface
    BY NodeAssumption DEF NextInterface, Interface, TypeOK
  <2>2. Head(inbox[NextInterface]) \in BusFrame
    BY <1>4, <2>1, HeadTailProperties DEF ReadFrame, TypeOK
  <2>. QED BY <1>3, <1>4, <2>2 DEF ReadFrame
<1>5. CASE ReadNothing
  BY <1>3, <1>5 DEF ReadNothing, TypeOK
<1>6. ASSUME NEW i \in Interface, NEW f \in BusFrame, Arrive(i, f)
      PROVE TableInv' /\ [Acks!Next]_(Acks!vars)
  BY <1>1, <1>6 DEF Arrive, tableVars
<1>7. CASE UNCHANGED vars
  BY <1>1, <1>7 DEF vars, tableVars
<1>. QED BY <1>2, <1>4, <1>5, <1>6, <1>7 DEF Next, try_read_frame

(* Once a time was taken for an entry it stays so. *)
LEMMA CollidedStays == ASSUME TypeOK, [Next]_vars, collided PROVE collided'
<1>1. ASSUME NEW f, NEW forwarded, ProcessFrame(f, forwarded) PROVE collided'
  BY <1>1 DEF ProcessFrame, remove_waiting_on_ack, tableVars
<1>2. ASSUME NEW f \in SentFrame, send_frame_to_every_interface(f) PROVE collided'
  BY <1>2 DEF send_frame_to_every_interface, add_waiting_on_ack
<1>. QED BY <1>1, <1>2 DEF Next, try_read_frame, ReadFrame, ReadNothing, Arrive, vars, tableVars

LEMMA TableInvariant == Spec => []TableInv
<1>1. Init => TableInv
  BY SlotArithmetic DEF Init, TableInv
<1>2. TypeOK /\ TableInv /\ [Next]_vars => TableInv'
  BY StepImplements, CollidedStays DEF TableInv
<1>. QED BY <1>1, <1>2, TypeCorrect, PTL DEF Spec

(* InterfaceHandler.cpp:169-177 never writes past the end of m_ack_buffer, *)
(* if no time was 0 or taken for an entry.                                 *)
THEOREM TableInBounds == Spec => []NoOverrun
<1>1. TableInv => NoOverrun
  BY DEF TableInv, NoOverrun
<1>. QED BY <1>1, TableInvariant, PTL

(* Every step of the array is a step of PendingAcks, or a stutter, as long *)
(* as no time was 0 or taken for an entry: the refinement.                 *)
THEOREM AcksArePending == Spec => EntriesKept
<1>1. TypeOK /\ TableInv /\ [Next]_vars => [~collided' => [Acks!Next]_(Acks!vars)]_vars
  BY StepImplements
<1>. QED BY <1>1, TypeCorrect, TableInvariant, PTL DEF Spec, EntriesKept

----------------------------------------------------------------------------
(* What ProcessFrame puts out, beyond what was forwarded.                  *)
Answered(a, f) == is_for_me(f) /\ f.data[1] # ACKNOWLEDGEMENT /\ a = ack(f)

LEMMA ProcessPutsOut ==
    ASSUME NEW f, NEW forwarded \in [Interface -> Seq(BusFrame)], ProcessFrame(f, forwarded),
           NEW i \in Interface, NEW k \in DOMAIN out'[i]
    PROVE  (k \in DOMAIN forwarded[i] /\ out'[i][k] = forwarded[i][k]) \/ Answered(out'[i][k], f)
<1>1. CASE out' = forwarded
  BY <1>1
<1>2. CASE /\ is_for_me(f) /\ f.data[1] # ACKNOWLEDGEMENT
           /\ out' = [j \in Interface |-> Append(forwarded[j], ack(f))]
  <2>. DEFINE q == forwarded[i]
              T == BusFrame \cup {ack(f)}
  <2>1. q \in Seq(T) /\ ack(f) \in T
    BY SeqMonotonic
  <2>2. out'[i] = Append(q, ack(f))
    BY <1>2
  <2>. HIDE DEF q, T
  <2>3. /\ Len(q) \in Nat /\ DOMAIN q = 1..Len(q) /\ DOMAIN Append(q, ack(f)) = 1..(Len(q) + 1)
        /\ \A j \in 1..Len(q) : Append(q, ack(f))[j] = q[j]
        /\ Append(q, ack(f))[Len(q) + 1] = ack(f)
    BY <2>1, AppendProperties, LenProperties
  <2>4. k \in DOMAIN q \/ k = Len(q) + 1
    BY <2>2, <2>3
  <2>5. CASE k \in DOMAIN q
    BY <2>2, <2>3, <2>5 DEF q
  <2>6. CASE k = Len(q) + 1
    BY <1>2, <2>2, <2>3, <2>6 DEF Answered
  <2>. QED BY <2>4, <2>5, <2>6
<1>. QED BY <1>1, <1>2 DEF ProcessFrame

(* The frame that is acted on again was read before, or is none yet.       *)
HeardInv == AcksAnswerMessages /\ frame \in heard \cup {unset}

(* The second half of try_read_frame acts on *frame whether or not it was  *)
(* just read (InterfaceHandler.cpp:36-51): it answers nothing but what     *)
(* was read and was for this node, even before the first frame was.        *)
THEOREM AcksAnswer == Spec => []AcksAnswerMessages
<1>1. Init => HeardInv
  BY DEF Init, HeardInv, AcksAnswerMessages
<1>2. TypeOK /\ HeardInv /\ [Next]_vars => HeardInv'
  <2>. SUFFICES ASSUME TypeOK, HeardInv, [Next]_vars PROVE HeardInv'
    OBVIOUS
  <2>1. ASSUME NEW f \in SentFrame, send_frame_to_every_interface(f) PROVE HeardInv'
    <3>1. out' = [i \in Interface |-> <<f>>] /\ UNCHANGED <<heard, frame>>
      BY <2>1 DEF send_frame_to_every_interface, readVars
    <3>2. \A i \in Interface : \A k \in DOMAIN out'[i] : out'[i][k] = f
      BY <3>1
    <3>. QED BY <3>1, <3>2 DEF HeardInv, AcksAnswerMessages
  <2>2. CASE UNCHANGED <<out, heard, frame>>
    BY <2>2 DEF HeardInv, AcksAnswerMessages, is_for_me, ack, CommandByte
  <2>3. NextInterface \in Interface
    BY NodeAssumption DEF NextInterface, Interface, TypeOK
  <2>4. CASE ReadFrame
    <3>. DEFINE n == NextInterface
                f == Head(inbox[n])
                forwarded == [j \in Interface |->
                    IF <<n, j>> \in TranslationLayers THEN <<f>> ELSE <<>>]
    <3>1. f \in BusFrame
      BY <2>3, <2>4, HeadTailProperties DEF ReadFrame, TypeOK
    <3>2. heard' = heard \cup {f} /\ frame' = f /\ ProcessFrame(f, forwarded)
      BY <2>4 DEF ReadFrame
    <3>. HIDE DEF n, f
    <3>3. forwarded \in [Interface -> Seq(BusFrame)]
      BY <3>1
    <3>4. \A i \in Interface : \A k \in DOMAIN forwarded[i] : forwarded[i][k] = f
      OBVIOUS
    <3>. HIDE DEF forwarded
    <3>5. ASSUME NEW i \in Interface, NEW k \in DOMAIN out'[i], out'[i][k] \notin heard'
          PROVE  \E g \in heard' : is_for_me(g) /\ g.data[1] # ACKNOWLEDGEMENT /\ out'[i][k] = ack(g)
      <4>1. Answered(out'[i][k], f)
        BY <3>2, <3>3, <3>4, <3>5, ProcessPutsOut
      <4>. QED BY <3>2, <4>1 DEF Answered
    <3>6. AcksAnswerMessages'
      BY <3>5 DEF AcksAnswerMessages, is_for_me, ack, CommandByte
    <3>. QED BY <3>2, <3>6 DEF HeardInv
  <2>5. CASE ReadNothing
    <3>. DEFINE forwarded == [j \in Interface |-> <<>>]
    <3>1. UNCHANGED <<heard, frame>> /\ ProcessFrame(frame, forwarded)
      BY <2>5 DEF ReadNothing
    <3>2. forwarded \in [Interface -> Seq(BusFrame)]
      OBVIOUS
    <3>3. \A i \in Interface : DOMAIN forwarded[i] = {}
      OBVIOUS
    <3>. HIDE DEF forwarded
    <3>4. ~is_for_me(unset)
      BY NodeAssumption DEF is_for_me, unset, Uid
    <3>5. ASSUME NEW i \in Interface, NEW k \in DOMAIN out'[i]
          PROVE  \E g \in heard : is_for_me(g) /\ g.data[1] # ACKNOWLEDGEMENT /\ out'[i][k] = ack(g)
      <4>1. Answered(out'[i][k], frame)
        BY <3>1, <3>2, <3>3, ProcessPutsOut
      <4>2. frame \in heard
        BY <3>4, <4>1 DEF Answered, HeardInv
      <4>. QED BY <4>1, <4>2 DEF Answered
    <3>6. AcksAnswerMessages'
      BY <3>1, <3>5 DEF AcksAnswerMessages, is_for_me, ack, CommandByte
    <3>. QED BY <3>1, <3>6 DEF HeardInv
  <2>6. ASSUME NEW i \in Interface, NEW f \in BusFrame, Arrive(i, f) PROVE HeardInv'
    BY <2>2, <2>6 DEF Arrive
  <2>7. CASE UNCHANGED vars
    BY <2>2, <2>7 DEF vars, readVars
  <2>. QED BY <2>1, <2>4, <2>5, <2>6, <2>7 DEF Next, try_read_frame
<1>3. HeardInv => AcksAnswerMessages
  BY DEF HeardInv
<1>. QED BY <1>1, <1>2, <1>3, TypeCorrect, PTL DEF Spec
=============================================================================
