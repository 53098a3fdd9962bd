-------------------------- MODULE SerialLinkProofs --------------------------
(***************************************************************************)
(* What keeps read_frame within its buffer, and why a sound frame that     *)
(* comes whole is read as it was sent: for any frames and any bounds.      *)
(***************************************************************************)
EXTENDS SerialLink, SequenceTheorems, TLAPS

Byte == 0 .. 255

(* Two sequences, one behind the other.                                    *)
LEMMA Joined ==
    ASSUME NEW S, NEW s \in Seq(S), NEW t \in Seq(S)
    PROVE  /\ s \o t \in Seq(S) /\ Len(s \o t) = Len(s) + Len(t)
           /\ \A i \in 1 .. Len(s) : (s \o t)[i] = s[i]
           /\ \A i \in Len(s) + 1 .. Len(s) + Len(t) : (s \o t)[i] = t[i - Len(s)]
<1>1. /\ s \o t \in Seq(S) /\ Len(s \o t) = Len(s) + Len(t)
      /\ \A i \in 1 .. Len(s) + Len(t) :
             (s \o t)[i] = IF i <= Len(s) THEN s[i] ELSE t[i - Len(s)]
  BY ConcatProperties
<1>2. Len(s) \in Nat /\ Len(t) \in Nat
  BY LenProperties
<1>3. ASSUME NEW i \in Len(s) + 1 .. Len(s) + Len(t) PROVE (s \o t)[i] = t[i - Len(s)]
  BY <1>1, <1>2
<1>4. ASSUME NEW i \in 1 .. Len(s) PROVE (s \o t)[i] = s[i]
  BY <1>1, <1>2
<1>. QED BY <1>1, <1>3, <1>4

(* The fields of a frame. *)
LEMMA FrameFields ==
    ASSUME NEW f \in Frame
    PROVE  /\ f.from_id \in 0 .. 2047 /\ f.to_id \in 0 .. 2047
           /\ f.priority \in 0 .. 3 /\ f.is_long_frame \in {0, 1}
           /\ f.data \in Seq(Byte)
<1>1. f \in [from_id : 0 .. MAX_UID, to_id : 0 .. MAX_UID, priority : 0 .. 3,
             is_long_frame : {0, 1}, data : Seq(0 .. 255)]
  BY SerialAssumption
<1>. QED BY <1>1 DEF MAX_UID, Byte

LEMMA FrameIsRecord ==
    ASSUME NEW f \in Frame
    PROVE  f = [from_id |-> f.from_id, to_id |-> f.to_id, priority |-> f.priority,
                is_long_frame |-> f.is_long_frame, data |-> f.data]
<1>1. f \in [from_id : 0 .. MAX_UID, to_id : 0 .. MAX_UID, priority : 0 .. 3,
             is_long_frame : {0, 1}, data : Seq(0 .. 255)]
  BY SerialAssumption
<1>. QED BY <1>1

(* The four bytes of an id are bytes (CanID.cpp:22-40).                    *)
LEMMA IdBytes ==
    ASSUME NEW f \in Frame
    PROVE  formatted_can_id(f) \in Seq(Byte) /\ Len(formatted_can_id(f)) = 4
<1>. DEFINE from == f.from_id
            to == f.to_id
            p == f.priority
            l == f.is_long_frame
            b1 == (to % 32) * 8 + 1
            b2 == to \div 32 + (from % 4) * 64
            b3 == from \div 4 % 256
            b4 == from \div 1024 + l * 32 + p * 64
<1>1. from \in 0 .. 2047 /\ to \in 0 .. 2047 /\ p \in 0 .. 3 /\ l \in {0, 1}
  BY FrameFields
<1>2. formatted_can_id(f) = IF from = 0 \/ to = 0 THEN <<0, 0, 0, 0>> ELSE <<b1, b2, b3, b4>>
  BY DEF formatted_can_id
<1>. HIDE DEF from, to, p, l
<1>3. b1 \in 0 .. 255 /\ b2 \in 0 .. 255 /\ b3 \in 0 .. 255 /\ b4 \in 0 .. 255
  <2>. DEFINE a == to % 32
              b == to \div 32
              c == from % 4
              d == from \div 1024
  <2>1. a \in 0 .. 31
    BY <1>1
  <2>2. b \in 0 .. 63
    BY <1>1
  <2>3. c \in 0 .. 3
    BY <1>1
  <2>4. d \in 0 .. 1
    BY <1>1
  <2>5. b3 \in 0 .. 255
    BY <1>1
  <2>. HIDE DEF a, b, c, d
  <2>6. a * 8 + 1 \in 0 .. 255
    BY <2>1
  <2>7. b + c * 64 \in 0 .. 255
    BY <2>2, <2>3
  <2>8. d + l * 32 + p * 64 \in 0 .. 255
    BY <1>1, <2>4
  <2>. QED BY <2>5, <2>6, <2>7, <2>8 DEF a, b, c, d
<1>. HIDE DEF b1, b2, b3, b4
<1>4. <<b1, b2, b3, b4>> \in Seq(Byte) /\ Len(<<b1, b2, b3, b4>>) = 4
  BY <1>3 DEF Byte
<1>5. <<0, 0, 0, 0>> \in Seq(Byte) /\ Len(<<0, 0, 0, 0>>) = 4
  BY DEF Byte
<1>. QED BY <1>2, <1>4, <1>5

(* A frame on the line: a start byte, 5 to 13 bytes, and a stop byte.      *)
LEMMA LineShape ==
    ASSUME NEW f \in Frame
    PROVE  LET s == serialize_frame(f)
               line == OnTheLine(f)
           IN  /\ s \in Seq(Byte) /\ Len(s) \in 5 .. 13
               /\ line \in Seq(Byte) /\ Len(line) = Len(s) + 2
               /\ line[1] = SERIAL_MESSAGE_START_BYTE
               /\ line[Len(s) + 2] = SERIAL_MESSAGE_STOP_BYTE
               /\ \A i \in 1 .. Len(s) : line[i + 1] = s[i]
<1>. DEFINE data == f.data
            id == formatted_can_id(f)
            n == Len(data)
            len == <<n>>
            s == serialize_frame(f)
            start == <<SERIAL_MESSAGE_START_BYTE>>
            stop == <<SERIAL_MESSAGE_STOP_BYTE>>
            line == OnTheLine(f)
<1>0. data \in Seq(Byte) /\ n <= 8
  BY FrameFields, SerialAssumption
<1>3. id \in Seq(Byte) /\ Len(id) = 4
  BY IdBytes
<1>4. start \in Seq(Byte) /\ Len(start) = 1 /\ start[1] = SERIAL_MESSAGE_START_BYTE
  BY DEF Byte, SERIAL_MESSAGE_START_BYTE
<1>5. stop \in Seq(Byte) /\ Len(stop) = 1 /\ stop[1] = SERIAL_MESSAGE_STOP_BYTE
  BY DEF Byte, SERIAL_MESSAGE_STOP_BYTE
<1>6. s = (id \o len) \o data
  BY DEF serialize_frame
<1>7. line = (start \o s) \o stop
  BY DEF OnTheLine
<1>. HIDE DEF data, id, s, start, stop, line
<1>a. n \in Nat
  BY <1>0, LenProperties
<1>. HIDE DEF n
<1>1. n \in 0 .. 8
  BY <1>0, <1>a
<1>2. len \in Seq(Byte) /\ Len(len) = 1
  BY <1>1 DEF Byte
<1>. HIDE DEF len
<1>8. id \o len \in Seq(Byte) /\ Len(id \o len) = Len(id) + Len(len)
  BY <1>2, <1>3, Joined
<1>9. s \in Seq(Byte) /\ Len(s) = Len(id \o len) + n
  BY <1>0, <1>6, <1>8, Joined DEF n
<1>10. Len(s) \in 5 .. 13
  BY <1>1, <1>2, <1>3, <1>8, <1>9
<1>. DEFINE ss == start \o s
<1>11. /\ ss \in Seq(Byte) /\ Len(ss) = Len(start) + Len(s)
       /\ \A i \in 1 .. Len(start) : ss[i] = start[i]
       /\ \A i \in Len(start) + 1 .. Len(start) + Len(s) : ss[i] = s[i - Len(start)]
  <2>1. ss \in Seq(Byte) /\ Len(ss) = Len(start) + Len(s)
    BY <1>4, <1>9, Joined
  <2>2. \A i \in 1 .. Len(start) : ss[i] = start[i]
    BY <1>4, <1>9, Joined
  <2>3. \A i \in Len(start) + 1 .. Len(start) + Len(s) : ss[i] = s[i - Len(start)]
    BY <1>4, <1>9, Joined
  <2>. QED BY <2>1, <2>2, <2>3
<1>. HIDE DEF ss
<1>12. /\ line \in Seq(Byte) /\ Len(line) = Len(ss) + Len(stop)
       /\ \A i \in 1 .. Len(ss) : line[i] = ss[i]
       /\ \A i \in Len(ss) + 1 .. Len(ss) + Len(stop) : line[i] = stop[i - Len(ss)]
  <2>0. line = ss \o stop
    BY <1>7 DEF ss
  <2>1. line \in Seq(Byte) /\ Len(line) = Len(ss) + Len(stop)
    BY <1>5, <1>11, <2>0, Joined
  <2>2. \A i \in 1 .. Len(ss) : line[i] = ss[i]
    BY <1>5, <1>11, <2>0, Joined
  <2>3. \A i \in Len(ss) + 1 .. Len(ss) + Len(stop) : line[i] = stop[i - Len(ss)]
    <3>1. ss \in Seq(Byte) /\ stop \in Seq(Byte)
      BY <1>5, <1>11
    <3>. QED BY <2>0, <3>1, Joined
  <2>. QED BY <2>1, <2>2, <2>3
<1>13. Len(ss) = Len(s) + 1 /\ Len(line) = Len(s) + 2
  BY <1>4, <1>5, <1>10, <1>11, <1>12
<1>14. line[1] = SERIAL_MESSAGE_START_BYTE
  BY <1>4, <1>10, <1>11, <1>12, <1>13
<1>. DEFINE k == Len(s)
<1>. HIDE DEF k
<1>15. line[k + 2] = SERIAL_MESSAGE_STOP_BYTE
  <2>1. Len(ss) = k + 1 /\ k \in 5 .. 13
    BY <1>10, <1>13 DEF k
  <2>2. k + 2 \in k + 2 .. k + 2 /\ (k + 2) - (k + 1) = 1
    BY <2>1
  <2>3. \A i \in k + 2 .. k + 2 : line[i] = stop[i - (k + 1)]
    BY <1>5, <1>12, <2>1
  <2>. QED BY <1>5, <2>2, <2>3
<1>16. ASSUME NEW i \in 1 .. k PROVE line[i + 1] = s[i]
  <2>1. Len(ss) = k + 1 /\ k \in 5 .. 13
    BY <1>10, <1>13 DEF k
  <2>2. i + 1 \in 1 .. k + 1 /\ i + 1 \in 2 .. k + 1 /\ (i + 1) - 1 = i
    BY <2>1
  <2>3. \A j \in 2 .. k + 1 : ss[j] = s[j - 1]
    BY <1>4, <1>11, <2>1 DEF k
  <2>4. \A j \in 1 .. k + 1 : line[j] = ss[j]
    BY <1>12, <2>1
  <2>. QED BY <2>2, <2>3, <2>4
<1>. QED BY <1>9, <1>10, <1>12, <1>13, <1>14, <1>15, <1>16 DEF s, line, k
-----------------------------------------------------------------------------
Current == sent[Len(sent)]

Line == OnTheLine(Current)

(* What is still to come is the end of the frame sent last.                *)
LineInv ==
    out # <<>> =>
        /\ sent # <<>>
        /\ Len(out) <= Len(Line)
        /\ \A i \in 1 .. Len(out) : out[i] = Line[Len(Line) - Len(out) + i]

(* The rest of a sequence after its first element.                         *)
LEMMA TailShape ==
    ASSUME NEW S, NEW s \in Seq(S), s # <<>>
    PROVE  /\ Tail(s) \in Seq(S) /\ Len(Tail(s)) = Len(s) - 1 /\ Len(s) \in Nat \ {0}
           /\ Head(s) = s[1] /\ Head(s) \in S
           /\ \A i \in 1 .. Len(s) - 1 : Tail(s)[i] = s[i + 1]
BY HeadTailProperties, LenProperties

(* As long as bytes are to come there is a frame that they are of.         *)
LEMMA LineType ==
    ASSUME TypeOK, sent # <<>>
    PROVE  /\ Current \in Frame
           /\ Line \in Seq(Byte) /\ Len(Line) \in 7 .. 15
           /\ Len(sent) \in DOMAIN sent /\ Len(sent) \in Nat \ {0}
           /\ Line[1] = SERIAL_MESSAGE_START_BYTE
           /\ Line[Len(Line)] = SERIAL_MESSAGE_STOP_BYTE
           /\ \A i \in 1 .. Len(Line) - 2 : Line[i + 1] = serialize_frame(Current)[i]
           /\ Len(serialize_frame(Current)) = Len(Line) - 2
<1>1. sent \in Seq(Frame) /\ Len(sent) \in Nat \ {0}
  BY LenProperties, EmptySeq DEF TypeOK
<1>2. Len(sent) \in DOMAIN sent /\ Current \in Frame
  BY <1>1 DEF Current
<1>. DEFINE s == serialize_frame(Current)
            n == Len(s)
            m == Len(Line)
<1>3. /\ n \in 5 .. 13 /\ Line \in Seq(Byte) /\ m = n + 2
      /\ Line[1] = SERIAL_MESSAGE_START_BYTE /\ Line[n + 2] = SERIAL_MESSAGE_STOP_BYTE
      /\ \A i \in 1 .. n : Line[i + 1] = s[i]
  BY <1>2, LineShape DEF Line
<1>. HIDE DEF s, n, m
<1>4. m \in 7 .. 15 /\ n + 2 = m /\ m - 2 = n
  BY <1>3
<1>5. Line[m] = SERIAL_MESSAGE_STOP_BYTE
  BY <1>3, <1>4
<1>6. \A i \in 1 .. m - 2 : Line[i + 1] = s[i]
  BY <1>3, <1>4
<1>. QED BY <1>1, <1>2, <1>3, <1>4, <1>5, <1>6 DEF s, n, m

(* A byte less on the line.                                                *)
LEMMA LineShorter ==
    ASSUME TypeOK, LineInv, out # <<>>, out' = Tail(out), sent' = sent
    PROVE  /\ LineInv' /\ out' \in Seq(Byte) /\ Len(out') = Len(out) - 1
           /\ Len(out) \in 1 .. Len(Line) /\ Line' = Line
           /\ Head(out) = Line[Len(Line) - Len(out) + 1] /\ Head(out) \in Byte
<1>. DEFINE n == Len(out)
            m == Len(Line)
<1>1. out \in Seq(Byte)
  BY DEF TypeOK, Byte
<1>2. /\ out' \in Seq(Byte) /\ Len(out') = n - 1 /\ n \in Nat \ {0}
      /\ Head(out) = out[1] /\ Head(out) \in Byte
      /\ \A i \in 1 .. n - 1 : out'[i] = out[i + 1]
  BY <1>1, TailShape
<1>3. sent # <<>> /\ n <= m /\ \A i \in 1 .. n : out[i] = Line[m - n + i]
  BY DEF LineInv
<1>4. m \in 7 .. 15
  BY <1>3, LineType
<1>5. Line' = Line
  BY DEF Line, Current
<1>. HIDE DEF n, m
<1>6. ASSUME NEW i \in 1 .. n - 1 PROVE out'[i] = Line[m - (n - 1) + i]
  <2>1. i + 1 \in 1 .. n /\ m - n + (i + 1) = m - (n - 1) + i
    BY <1>2, <1>4
  <2>. QED BY <1>2, <1>3, <2>1
<1>7. Head(out) = Line[m - n + 1] /\ n \in 1 .. m
  BY <1>2, <1>3, <1>4
<1>8. LineInv'
  <2>1. sent' # <<>> /\ n - 1 <= m
    BY <1>2, <1>3, <1>4
  <2>. QED BY <1>2, <1>5, <1>6, <2>1 DEF LineInv, m
<1>. QED BY <1>2, <1>5, <1>7, <1>8 DEF n, m

(* Another frame goes on the line.                                         *)
LEMMA SendStep ==
    ASSUME TypeOK, NEW f \in Frame, send_frame(f)
    PROVE  /\ sent' \in Seq(Frame) /\ Len(sent') = Len(sent) + 1 /\ Len(sent) \in Nat
           /\ sent' # <<>> /\ Current' = f /\ out' = Line' /\ out' \in Seq(Byte)
           /\ Len(out') \in 7 .. 15 /\ out' # <<>>
           /\ \A n \in DOMAIN sent : n \in DOMAIN sent' /\ sent'[n] = sent[n]
           /\ LineInv'
<1>1. sent \in Seq(Frame) /\ sent' = Append(sent, f) /\ out' = OnTheLine(f)
  BY DEF TypeOK, send_frame
<1>2. /\ sent' \in Seq(Frame) /\ Len(sent') = Len(sent) + 1 /\ Len(sent) \in Nat
      /\ sent'[Len(sent')] = f /\ sent' # <<>>
      /\ \A n \in DOMAIN sent : n \in DOMAIN sent' /\ sent'[n] = sent[n]
  BY <1>1, AppendProperties, LenProperties
<1>3. Current' = f /\ out' = Line'
  BY <1>1, <1>2 DEF Current, Line
<1>. DEFINE n == Len(serialize_frame(f))
            m == Len(OnTheLine(f))
<1>4. OnTheLine(f) \in Seq(Byte) /\ m = n + 2 /\ n \in 5 .. 13
  BY LineShape
<1>. HIDE DEF n, m
<1>5. m \in 7 .. 15
  BY <1>4
<1>6. out' # <<>>
  BY <1>1, <1>4, <1>5, LenProperties, EmptySeq DEF m
<1>7. LineInv'
  <2>1. Len(out') = m /\ Len(Line') = m
    BY <1>1, <1>3 DEF m
  <2>2. \A i \in 1 .. m : m - m + i = i
    BY <1>5
  <2>. QED BY <1>2, <1>3, <1>5, <2>1, <2>2 DEF LineInv
<1>. QED BY <1>1, <1>2, <1>3, <1>4, <1>5, <1>6, <1>7 DEF m

(* A byte is stored within the buffer, which a frame leaves empty.         *)
LEMMA StoreType ==
    ASSUME TypeOK, NEW b \in Byte, StoreByte(b) \/ EndFrame
    PROVE  /\ buffer' \in Seq(0 .. 255) /\ Len(buffer') <= MAX_SERIALIZED_SIZE
           /\ currently_reading' \in BOOLEAN /\ faulted' \in BOOLEAN
           /\ length_byte' \in 0 .. 255
<1>1. buffer \in Seq(0 .. 255) /\ Len(buffer) \in Nat /\ Len(buffer) <= 13
  BY LenProperties DEF TypeOK, MAX_SERIALIZED_SIZE
<1>2. CASE StoreByte(b)
  <2>1. Append(buffer, b) \in Seq(0 .. 255) /\ Len(Append(buffer, b)) = Len(buffer) + 1
    BY <1>1, AppendProperties DEF Byte
  <2>2. buffer' = buffer \/ (Len(buffer) < 13 /\ buffer' = Append(buffer, b))
    BY <1>2 DEF StoreByte, MAX_SERIALIZED_SIZE
  <2>3. currently_reading' \in BOOLEAN /\ faulted' \in BOOLEAN
    BY <1>2, Zenon DEF StoreByte, TypeOK
  <2>5. length_byte' \in 0 .. 255
    BY <1>2 DEF StoreByte, LengthByte, TypeOK, Byte
  <2>4. buffer' \in Seq(0 .. 255) /\ Len(buffer') <= MAX_SERIALIZED_SIZE
    <3>1. CASE buffer' = buffer
      BY <1>1, <3>1 DEF MAX_SERIALIZED_SIZE
    <3>2. CASE Len(buffer) < 13 /\ buffer' = Append(buffer, b)
      <4>1. Len(buffer) + 1 <= 13
        BY <1>1, <3>2
      <4>. QED BY <2>1, <3>2, <4>1 DEF MAX_SERIALIZED_SIZE
    <3>. QED BY <2>2, <3>1, <3>2
  <2>. QED BY <2>3, <2>4, <2>5, Zenon
<1>3. CASE EndFrame
  <2>1. buffer' = <<>>
    BY <1>3 DEF EndFrame, EmptyBuffer
  <2>2. currently_reading' \in BOOLEAN /\ faulted' \in BOOLEAN
    BY <1>3, Zenon DEF EndFrame, TypeOK
  <2>3. buffer' \in Seq(0 .. 255) /\ Len(buffer') <= MAX_SERIALIZED_SIZE
    BY <2>1 DEF MAX_SERIALIZED_SIZE
  <2>4. length_byte' \in 0 .. 255
    BY <1>3, Zenon DEF EndFrame, TypeOK
  <2>. QED BY <2>2, <2>3, <2>4, Zenon
<1>. QED BY <1>2, <1>3, Zenon

(* The frames read are a sequence.                                         *)
GotInv == \E S : got \in Seq(S)

(* What is read is noted with the number of a frame sent.                  *)
LEMMA GotType ==
    ASSUME TypeOK, GotInv, sent # <<>>, sent' = sent, NEW g, g.n = Len(sent),
           got' = Append(got, g)
    PROVE  GotInv' /\ \A e \in ToSet(got') : e.n \in DOMAIN sent'
<1>1. PICK S : got \in Seq(S)
  BY DEF GotInv
<1>. DEFINE T == S \cup {g}
<1>2. got \in Seq(T) /\ g \in T
  BY <1>1
<1>. HIDE DEF T
<1>3. /\ got' \in Seq(T) /\ Len(got') = Len(got) + 1 /\ Len(got) \in Nat
      /\ got'[Len(got) + 1] = g /\ \A i \in 1 .. Len(got) : got'[i] = got[i]
  BY <1>2, AppendProperties, LenProperties
<1>4. g.n \in DOMAIN sent'
  BY LineType
<1>5. ASSUME NEW i \in DOMAIN got' PROVE got'[i].n \in DOMAIN sent'
  <2>1. i \in 1 .. Len(got) + 1
    BY <1>3
  <2>2. CASE i = Len(got) + 1
    BY <1>3, <1>4, <2>2
  <2>3. CASE i # Len(got) + 1
    <3>1. i \in 1 .. Len(got) /\ i \in DOMAIN got
      BY <1>2, <1>3, <2>1, <2>3
    <3>2. got[i].n \in DOMAIN sent
      BY <3>1 DEF TypeOK, ToSet
    <3>. QED BY <1>3, <3>1, <3>2
  <2>. QED BY <2>2, <2>3
<1>. QED BY <1>3, <1>5 DEF GotInv, ToSet

TypeInv == TypeOK /\ LineInv /\ GotInv

(* TypeOK in parts: what the steps disturb.                                *)
Lists == sent \in Seq(Frame) /\ Len(sent) <= MaxFrames /\ out \in Seq(0 .. 255)

Reader == /\ currently_reading \in BOOLEAN /\ faulted \in BOOLEAN
          /\ buffer \in Seq(0 .. 255) /\ Len(buffer) <= MAX_SERIALIZED_SIZE
          /\ length_byte \in 0 .. 255

Numbers == (\A g \in ToSet(got) : g.n \in DOMAIN sent) /\ hurt \subseteq DOMAIN sent

Counters == lost \in 0 .. MaxLost /\ restarts \in 0 .. MaxRestarts

Idle == (out = <<>> /\ Len(sent) \notin hurt) => (~currently_reading \/ faulted)

LEMMA Parts == TypeOK <=> (Lists /\ Reader /\ Numbers /\ Counters /\ Idle)
BY Zenon DEF TypeOK, Lists, Reader, Numbers, Counters, Idle

LEMMA PartsNext == (Lists /\ Reader /\ Numbers /\ Counters /\ Idle)' => TypeOK'
BY Zenon DEF TypeOK, Lists, Reader, Numbers, Counters, Idle

LEMMA TypeInit == ASSUME Init PROVE TypeInv
<1>1. sent = <<>> /\ out = <<>> /\ buffer = <<>> /\ got = <<>> /\ hurt = {} /\ lost = 0 /\ restarts = 0
  BY DEF Init
<1>2. currently_reading = FALSE /\ faulted = FALSE /\ length_byte \in 0 .. 255
  BY DEF Init
<1>3. Lists /\ Counters
  BY <1>1, SerialAssumption DEF Lists, Counters
<1>4. buffer \in Seq(0 .. 255) /\ Len(buffer) <= MAX_SERIALIZED_SIZE
  BY <1>1 DEF MAX_SERIALIZED_SIZE
<1>5. Reader
  BY <1>2, <1>4, Zenon DEF Reader
<1>6. ToSet(got) = {}
  BY <1>1 DEF ToSet
<1>7. Numbers
  BY <1>1, <1>6 DEF Numbers
<1>8. Idle /\ LineInv
  BY <1>1, <1>2 DEF Idle, LineInv
<1>9. got \in Seq({})
  BY <1>1
<1>. QED BY <1>3, <1>5, <1>7, <1>8, <1>9, Parts DEF TypeInv, GotInv

LEMMA TypeSend == ASSUME TypeInv, NEW f \in Frame, send_frame(f) PROVE TypeInv'
<1>. USE DEF TypeInv
<1>1. Len(sent) < MaxFrames /\ UNCHANGED <<currently_reading, buffer, length_byte, faulted, got, hurt, lost, restarts>>
  BY DEF send_frame
<1>2. Lists'
  BY <1>1, SendStep, SerialAssumption DEF Lists, Byte
<1>3. Reader' /\ Counters'
  BY <1>1, Parts DEF Reader, Counters
<1>4. \A n \in DOMAIN sent : n \in DOMAIN sent'
  BY SendStep
<1>5. Numbers'
  BY <1>1, <1>4, Parts DEF Numbers
<1>6. out' # <<>> /\ LineInv'
  BY SendStep
<1>7. Idle' /\ GotInv'
  BY <1>1, <1>6 DEF Idle, GotInv
<1>. QED BY <1>2, <1>3, <1>5, <1>6, <1>7, PartsNext

(* What a read byte and a lost byte have in common.                        *)
LEMMA TypeTail ==
    ASSUME TypeInv, out # <<>>, out' = Tail(out), sent' = sent
    PROVE  /\ Lists' /\ LineInv' /\ Len(sent) \in DOMAIN sent
           /\ out' = <<>> => Head(out) = SERIAL_MESSAGE_STOP_BYTE
           /\ Head(out) \in Byte
<1>. USE DEF TypeInv
<1>1. /\ LineInv' /\ out' \in Seq(Byte) /\ Len(out') = Len(out) - 1
      /\ Len(out) \in 1 .. Len(Line)
      /\ Head(out) = Line[Len(Line) - Len(out) + 1] /\ Head(out) \in Byte
  BY LineShorter
<1>2. sent # <<>>
  BY DEF LineInv
<1>3. Len(Line) \in 7 .. 15 /\ Line[Len(Line)] = SERIAL_MESSAGE_STOP_BYTE /\ Len(sent) \in DOMAIN sent
  BY <1>2, LineType
<1>. DEFINE m == Len(Line)
<1>4. ASSUME out' = <<>> PROVE Head(out) = SERIAL_MESSAGE_STOP_BYTE
  <2>1. Len(out) = 1
    <3>1. Len(out') = 0
      BY <1>1, <1>4, EmptySeq
    <3>. QED BY <1>1, <1>3, <3>1
  <2>. HIDE DEF m
  <2>2. m - 1 + 1 = m
    BY <1>3 DEF m
  <2>. QED BY <1>1, <1>3, <2>1, <2>2 DEF m
<1>5. Lists'
  BY <1>1, Parts DEF Lists, Byte
<1>. QED BY <1>1, <1>3, <1>4, <1>5

LEMMA TypeRead == ASSUME TypeInv, read_frame PROVE TypeInv'
<1>. USE DEF TypeInv
<1>. DEFINE b == Head(out)
<1>1. /\ out # <<>> /\ out' = Tail(out) /\ UNCHANGED <<sent, lost, restarts>>
  BY DEF read_frame
<1>2. /\ Lists' /\ LineInv' /\ Len(sent) \in DOMAIN sent /\ b \in Byte
      /\ out' = <<>> => b = SERIAL_MESSAGE_STOP_BYTE
  BY <1>1, TypeTail
<1>3. Counters' /\ sent # <<>>
  BY <1>1, Parts DEF Counters, LineInv
<1>. HIDE DEF b
<1>4. CASE faulted
  <2>1. /\ hurt' = hurt \cup {Len(sent)}
        /\ UNCHANGED <<currently_reading, buffer, length_byte, faulted, got>>
    BY <1>4 DEF read_frame
  <2>2. Reader'
    BY <2>1, Parts DEF Reader
  <2>3. Numbers' /\ Idle' /\ GotInv'
    BY <1>1, <1>2, <1>4, <2>1, Parts DEF Numbers, Idle, GotInv
  <2>. QED BY <1>2, <1>3, <2>2, <2>3, PartsNext
<1>5. CASE ~faulted /\ ~currently_reading
  <2>1. UNCHANGED <<buffer, length_byte, faulted, got, hurt>>
    BY <1>5 DEF read_frame
  <2>2. \/ b = SERIAL_MESSAGE_START_BYTE /\ currently_reading' = TRUE
        \/ b # SERIAL_MESSAGE_START_BYTE /\ currently_reading' = currently_reading
    BY <1>5 DEF read_frame, b
  <2>3. currently_reading' \in BOOLEAN
    BY <2>2, Parts, Zenon DEF Reader
  <2>4. Reader'
    BY <2>1, <2>3, Parts DEF Reader
  <2>5. Idle'
    <3>1. out' = <<>> => ~currently_reading'
      BY <1>2, <1>5, <2>2 DEF SERIAL_MESSAGE_START_BYTE, SERIAL_MESSAGE_STOP_BYTE
    <3>. QED BY <3>1 DEF Idle
  <2>6. Numbers' /\ GotInv'
    BY <1>1, <2>1, Parts DEF Numbers, GotInv
  <2>. QED BY <1>2, <1>3, <2>4, <2>5, <2>6, PartsNext
<1>6. CASE ~faulted /\ currently_reading /\ b # SERIAL_MESSAGE_STOP_BYTE
  <2>1. StoreByte(b) /\ UNCHANGED hurt
    BY <1>6 DEF read_frame, b
  <2>2. Reader'
    BY <1>2, <2>1, StoreType, Zenon DEF Reader
  <2>3. Idle'
    BY <1>2, <1>6 DEF Idle
  <2>4. Numbers' /\ GotInv'
    BY <1>1, <2>1, Parts DEF Numbers, GotInv, StoreByte
  <2>. QED BY <1>2, <1>3, <2>2, <2>3, <2>4, PartsNext
<1>7. CASE ~faulted /\ currently_reading /\ b = SERIAL_MESSAGE_STOP_BYTE
  <2>1. EndFrame /\ UNCHANGED hurt
    BY <1>7 DEF read_frame, b
  <2>2. Reader'
    BY <1>2, <2>1, StoreType, Zenon DEF Reader
  <2>3. Idle'
    BY <2>1 DEF Idle, EndFrame
  <2>4. CASE Len(buffer) < 5 /\ length_byte <= 8
    <3>1. UNCHANGED got
      BY <2>1, <2>4 DEF EndFrame
    <3>2. Numbers' /\ GotInv'
      BY <1>1, <2>1, <3>1, Parts DEF Numbers, GotInv
    <3>. QED BY <1>2, <1>3, <2>2, <2>3, <3>2, PartsNext
  <2>5. CASE ~(Len(buffer) < 5 /\ length_byte <= 8)
    <3>. DEFINE g == [n |-> Len(sent),
                      frame |-> IF Len(buffer) < 5 THEN NoFrame ELSE deserialize_frame(buffer)]
    <3>1. got' = Append(got, g) /\ g.n = Len(sent)
      BY <2>1, <2>5 DEF EndFrame
    <3>. HIDE DEF g
    <3>2. GotInv' /\ \A e \in ToSet(got') : e.n \in DOMAIN sent'
      BY <1>1, <1>3, <3>1, GotType
    <3>3. Numbers'
      BY <1>1, <2>1, <3>2, Parts DEF Numbers
    <3>. QED BY <1>2, <1>3, <2>2, <2>3, <3>2, <3>3, PartsNext
  <2>. QED BY <2>4, <2>5
<1>. QED BY <1>4, <1>5, <1>6, <1>7

LEMMA TypeLose == ASSUME TypeInv, LoseByte PROVE TypeInv'
<1>. USE DEF TypeInv
<1>1. /\ out # <<>> /\ out' = Tail(out) /\ hurt' = hurt \cup {Len(sent)}
      /\ lost < MaxLost /\ lost' = lost + 1
      /\ UNCHANGED <<sent, currently_reading, buffer, length_byte, faulted, got, restarts>>
  BY DEF LoseByte
<1>2. Lists' /\ LineInv' /\ Len(sent) \in DOMAIN sent
  BY <1>1, TypeTail
<1>3. Reader' /\ Counters'
  BY <1>1, Parts, SerialAssumption DEF Reader, Counters
<1>4. Numbers' /\ Idle' /\ GotInv'
  BY <1>1, <1>2, Parts DEF Numbers, Idle, GotInv
<1>. QED BY <1>2, <1>3, <1>4, PartsNext

LEMMA TypeRestart == ASSUME TypeInv, Restart PROVE TypeInv'
<1>. USE DEF TypeInv
<1>1. /\ restarts < MaxRestarts /\ restarts' = restarts + 1
      /\ currently_reading' = FALSE /\ buffer' = <<>> /\ length_byte' = 0 /\ faulted' = FALSE
      /\ UNCHANGED <<sent, out, got, lost>>
  BY DEF Restart
<1>2. hurt' = hurt \/ (out # <<>> /\ hurt' = hurt \cup {Len(sent)})
  BY DEF Restart
<1>3. Lists' /\ Counters'
  BY <1>1, Parts, SerialAssumption DEF Lists, Counters
<1>4. LineInv'
  BY <1>1 DEF LineInv, Line, Current
<1>5. Reader'
  <2>1. buffer' \in Seq(0 .. 255) /\ Len(buffer') <= MAX_SERIALIZED_SIZE
    BY <1>1 DEF MAX_SERIALIZED_SIZE
  <2>2. length_byte' \in 0 .. 255
    BY <1>1
  <2>. QED BY <1>1, <2>1, <2>2, Zenon DEF Reader
<1>6. out # <<>> => Len(sent) \in DOMAIN sent
  BY LineType DEF LineInv
<1>7. Numbers' /\ Idle' /\ GotInv'
  BY <1>1, <1>2, <1>6, Parts DEF Numbers, Idle, GotInv
<1>. QED BY <1>3, <1>4, <1>5, <1>7, PartsNext

LEMMA TypeStep == ASSUME TypeInv, [Next]_vars PROVE TypeInv'
<1>1. CASE UNCHANGED vars
  BY <1>1 DEF TypeInv, TypeOK, LineInv, Line, Current, GotInv, vars
<1>. QED BY <1>1, TypeSend, TypeRead, TypeLose, TypeRestart DEF Next

(* For any frames and bounds the module's buffer is filled within its 13    *)
(* bytes, and a module that missed no byte of a frame has stopped reading   *)
(* when the frame is over: the stop byte of send_frame always ends it.      *)
THEOREM TypeCorrect == Spec => []TypeOK
<1>1. Init => TypeInv
  BY TypeInit
<1>2. TypeInv /\ [Next]_vars => TypeInv'
  BY TypeStep
<1>3. TypeInv => TypeOK
  BY DEF TypeInv
<1>. QED BY <1>1, <1>2, <1>3, PTL DEF Spec
-----------------------------------------------------------------------------
NothingWrong == hurt = {} /\ \A n \in DOMAIN sent : Sound(sent[n])

(* Where the reader is when nothing went wrong: between frames, or behind  *)
(* the start byte with all bytes since then in its buffer.                 *)
InStep ==
    /\ ~faulted
    /\ (out = <<>> \/ Len(out) = Len(Line)) => (~currently_reading /\ buffer = <<>>)
    /\ (out # <<>> /\ Len(out) # Len(Line)) =>
           (currently_reading /\ Len(buffer) = Len(Line) - Len(out) - 1)

CleanInv == NothingWrong => InStep

LEMMA CleanSend == ASSUME TypeInv, CleanInv, NEW f \in Frame, send_frame(f) PROVE CleanInv'
<1>. SUFFICES ASSUME NothingWrong' PROVE InStep'
  BY DEF CleanInv
<1>1. out = <<>> /\ UNCHANGED <<currently_reading, buffer, faulted, hurt>>
  BY DEF send_frame
<1>2. /\ \A n \in DOMAIN sent : n \in DOMAIN sent' /\ sent'[n] = sent[n]
      /\ out' = Line' /\ out' # <<>>
  BY SendStep DEF TypeInv
<1>3. NothingWrong
  BY <1>1, <1>2 DEF NothingWrong
<1>4. ~faulted /\ ~currently_reading /\ buffer = <<>>
  BY <1>1, <1>3 DEF CleanInv, InStep
<1>. QED BY <1>1, <1>2, <1>4 DEF InStep

LEMMA CleanRead == ASSUME TypeInv, CleanInv, read_frame PROVE CleanInv'
<1>. SUFFICES ASSUME NothingWrong' PROVE InStep'
  BY DEF CleanInv
<1>. DEFINE b == Head(out)
            n == Len(out)
            m == Len(Line)
            s == serialize_frame(Current)
<1>1. /\ out # <<>> /\ out' = Tail(out) /\ sent' = sent /\ sent # <<>>
  BY DEF read_frame, TypeInv, LineInv
<1>2. /\ out' \in Seq(Byte) /\ Len(out') = n - 1 /\ n \in 1 .. m /\ Line' = Line
      /\ b = Line[m - n + 1]
  BY <1>1, LineShorter DEF TypeInv
<1>3. /\ m \in 7 .. 15 /\ Line[1] = SERIAL_MESSAGE_START_BYTE
      /\ Line[m] = SERIAL_MESSAGE_STOP_BYTE /\ Len(s) = m - 2
      /\ Len(sent) \in DOMAIN sent
      /\ \A i \in 1 .. m - 2 : Line[i + 1] = s[i]
  BY <1>1, LineType DEF TypeInv
<1>4. NothingWrong
  <2>1. hurt \subseteq hurt'
    BY DEF read_frame
  <2>. QED BY <1>1, <2>1 DEF NothingWrong
<1>5. InStep
  BY <1>4 DEF CleanInv
<1>6. \A i \in DOMAIN s : s[i] # SERIAL_MESSAGE_STOP_BYTE
  BY <1>3, <1>4 DEF NothingWrong, Sound, ToSet, Current
<1>. HIDE DEF b, m, s
<1>7. \A i \in 1 .. m - 2 : Line[i + 1] # SERIAL_MESSAGE_STOP_BYTE
  <2>1. s \in Seq(Byte)
    BY <1>1, LineShape, LineType DEF s, TypeInv
  <2>2. DOMAIN s = 1 .. m - 2
    BY <1>3, <2>1
  <2>. QED BY <1>3, <1>6, <2>2
<1>8. Len(out') = Len(out) - 1 /\ Len(Line') = m /\ (out' = <<>> <=> Len(out') = 0)
  BY <1>2, EmptySeq DEF m
<1>. HIDE DEF n
<1>9. CASE n = m
  <2>1. ~faulted /\ ~currently_reading /\ buffer = <<>>
    BY <1>5, <1>9 DEF InStep, n, m
  <2>2. b = SERIAL_MESSAGE_START_BYTE
    <3>1. m - n + 1 = 1
      BY <1>3, <1>9
    <3>. QED BY <1>2, <1>3, <3>1
  <2>3. currently_reading' = TRUE /\ buffer' = <<>> /\ ~faulted'
    BY <2>1, <2>2 DEF read_frame, b
  <2>4. Len(out') = m - 1 /\ out' # <<>>
    BY <1>2, <1>3, <1>8, <1>9
  <2>5. Len(out') # m /\ 0 = m - (m - 1) - 1
    BY <1>3, <2>4
  <2>6. Len(buffer') = 0
    BY <2>3
  <2>. QED BY <1>8, <2>3, <2>4, <2>5, <2>6 DEF InStep
<1>10. CASE n # m /\ n # 1
  <2>1. ~faulted /\ currently_reading /\ Len(buffer) = m - n - 1
    BY <1>1, <1>5, <1>10 DEF InStep, n, m
  <2>2. m - n \in 1 .. m - 2
    BY <1>2, <1>3, <1>10
  <2>3. b # SERIAL_MESSAGE_STOP_BYTE
    BY <1>2, <1>7, <2>2
  <2>4. StoreByte(b)
    BY <2>1, <2>3 DEF read_frame, b
  <2>5. m - n - 1 < 13 /\ (m - n - 1) + 1 = m - (n - 1) - 1
    BY <1>2, <1>3, <2>2
  <2>6. buffer' = Append(buffer, b) /\ faulted' = faulted /\ currently_reading' = currently_reading
    BY <2>1, <2>4, <2>5 DEF StoreByte, MAX_SERIALIZED_SIZE
  <2>7. Len(buffer') = Len(buffer) + 1
    BY <2>6, AppendProperties DEF TypeInv, TypeOK
  <2>8. Len(out') = n - 1 /\ out' # <<>> /\ n - 1 # m
    BY <1>2, <1>3, <1>8, <1>10
  <2>. QED BY <1>8, <2>1, <2>5, <2>6, <2>7, <2>8 DEF InStep
<1>11. CASE n # m /\ n = 1
  <2>1. ~faulted /\ currently_reading /\ Len(buffer) = m - n - 1
    BY <1>1, <1>5, <1>11 DEF InStep, n, m
  <2>2. b = SERIAL_MESSAGE_STOP_BYTE
    <3>1. m - n + 1 = m
      BY <1>3, <1>11
    <3>. QED BY <1>2, <1>3, <3>1
  <2>3. EndFrame
    BY <2>1, <2>2 DEF read_frame, b
  <2>4. ~(Len(buffer) < 5)
    BY <1>3, <1>11, <2>1
  <2>5. currently_reading' = FALSE /\ buffer' = <<>> /\ ~faulted'
    BY <2>1, <2>3, <2>4 DEF EndFrame, EmptyBuffer
  <2>6. out' = <<>>
    BY <1>2, <1>8, <1>11
  <2>. QED BY <2>5, <2>6 DEF InStep
<1>. QED BY <1>9, <1>10, <1>11

LEMMA CleanRestart == ASSUME TypeInv, CleanInv, Restart PROVE CleanInv'
<1>. SUFFICES ASSUME NothingWrong' PROVE InStep'
  BY DEF CleanInv
<1>1. ~currently_reading' /\ buffer' = <<>> /\ ~faulted' /\ UNCHANGED <<sent, out>>
  BY DEF Restart
<1>2. out = <<>>
  BY DEF Restart, NothingWrong
<1>. QED BY <1>1, <1>2 DEF InStep

LEMMA CleanStep == ASSUME TypeInv, CleanInv, [Next]_vars PROVE CleanInv'
<1>1. CASE UNCHANGED vars
  BY <1>1 DEF CleanInv, NothingWrong, InStep, Line, Current, vars
<1>2. CASE LoseByte
  BY <1>2 DEF LoseByte, CleanInv, NothingWrong
<1>. QED BY <1>1, <1>2, CleanSend, CleanRead, CleanRestart DEF Next

(* read_frame writes past its buffer or copies a negative number of bytes   *)
(* only after a lost byte, a restart within a frame, or a frame that has    *)
(* no id or a stop byte among its bytes: for any frames and any bounds.     *)
THEOREM FaultsHaveCause == Spec => []FaultsNeedCause
<1>1. Init => TypeInv /\ CleanInv
  BY TypeInit DEF Init, CleanInv, InStep
<1>2. (TypeInv /\ CleanInv) /\ [Next]_vars => (TypeInv /\ CleanInv)'
  BY TypeStep, CleanStep
<1>3. TypeInv /\ CleanInv => FaultsNeedCause
  BY DEF CleanInv, NothingWrong, InStep, FaultsNeedCause
<1>. QED BY <1>1, <1>2, <1>3, PTL DEF Spec
-----------------------------------------------------------------------------
(* The id, the length and the data, each at its place (CanSerializer.h).   *)
LEMMA Serialized ==
    ASSUME NEW f \in Frame
    PROVE  LET s == serialize_frame(f)
           IN  /\ \A i \in 1 .. 4 : s[i] = formatted_can_id(f)[i]
               /\ s[5] = Len(f.data) /\ Len(s) = 5 + Len(f.data)
               /\ \A i \in 1 .. Len(f.data) : s[5 + i] = f.data[i]
<1>. DEFINE data == f.data
            id == formatted_can_id(f)
            n == Len(data)
            len == <<n>>
            s == serialize_frame(f)
<1>1. data \in Seq(Byte) /\ n <= 8
  BY FrameFields, SerialAssumption
<1>2. id \in Seq(Byte) /\ Len(id) = 4
  BY IdBytes
<1>3. s = (id \o len) \o data
  BY DEF serialize_frame
<1>. HIDE DEF data, id, s
<1>4. n \in Nat
  BY <1>1, LenProperties
<1>. HIDE DEF n
<1>5. len \in Seq(Byte) /\ Len(len) = 1 /\ len[1] = n
  BY <1>1, <1>4 DEF Byte
<1>. HIDE DEF len
<1>. DEFINE head == id \o len
<1>6. /\ head \in Seq(Byte) /\ Len(head) = 5
      /\ \A i \in 1 .. 4 : head[i] = id[i]
      /\ head[5] = n
  <2>1. head \in Seq(Byte) /\ Len(head) = Len(id) + Len(len)
    BY <1>2, <1>5, Joined
  <2>2. \A i \in 1 .. Len(id) : head[i] = id[i]
    BY <1>2, <1>5, Joined
  <2>3. \A i \in Len(id) + 1 .. Len(id) + Len(len) : head[i] = len[i - Len(id)]
    BY <1>2, <1>5, Joined
  <2>. HIDE DEF head
  <2>4. head[5] = len[5 - 4]
    BY <1>2, <1>5, <2>3
  <2>. QED BY <1>2, <1>5, <2>1, <2>2, <2>4
<1>. HIDE DEF head
<1>7. /\ Len(s) = Len(head) + Len(data)
      /\ \A i \in 1 .. Len(head) : s[i] = head[i]
      /\ \A i \in Len(head) + 1 .. Len(head) + Len(data) : s[i] = data[i - Len(head)]
  <2>1. s = head \o data
    BY <1>3 DEF head
  <2>2. Len(s) = Len(head) + Len(data)
    BY <1>1, <1>6, <2>1, Joined
  <2>3. \A i \in 1 .. Len(head) : s[i] = head[i]
    BY <1>1, <1>6, <2>1, Joined
  <2>4. \A i \in Len(head) + 1 .. Len(head) + Len(data) : s[i] = data[i - Len(head)]
    BY <1>1, <1>6, <2>1, Joined
  <2>. QED BY <2>2, <2>3, <2>4
<1>8. Len(data) = n
  BY DEF n
<1>9. ASSUME NEW i \in 1 .. n PROVE s[5 + i] = data[i]
  <2>1. 5 + i \in 6 .. 5 + n /\ 5 + i - 5 = i
    BY <1>4
  <2>2. s[5 + i] = data[5 + i - 5]
    BY <1>6, <1>7, <1>8, <2>1
  <2>. QED BY <2>1, <2>2
<1>10. s[5] = n /\ Len(s) = 5 + n /\ \A i \in 1 .. 4 : s[i] = id[i]
  BY <1>6, <1>7, <1>8
<1>. QED BY <1>9, <1>10 DEF s, id, n, data

IdFields(from, to, p, l) ==
    from \in 0 .. 2047 /\ to \in 0 .. 2047 /\ p \in 0 .. 3 /\ l \in {0, 1}

(* The four bytes that formatted_can_id makes, and what is read from them. *)
IdBytesOf(b1, b2, b3, b4, from, to, p, l) ==
    /\ b1 = (to % 32) * 8 + 1 /\ b2 = to \div 32 + (from % 4) * 64
    /\ b3 = from \div 4 % 256 /\ b4 = from \div 1024 + l * 32 + p * 64

IdHolds(b1, b2, b3, b4, from, to, p, l) ==
    /\ b2 \div 64 + b3 * 4 + (b4 % 2) * 1024 = from
    /\ b1 \div 8 + (b2 % 64) * 32 = to
    /\ b4 \div 64 = p /\ b4 \div 32 % 2 = l

(* The uids of an id are found again (CanID.cpp:22-40 and 5-11).           *)
LEMMA IdRead ==
    ASSUME NEW from, NEW to, NEW p, NEW l, NEW b1, NEW b2, NEW b3, NEW b4,
           IdFields(from, to, p, l), IdBytesOf(b1, b2, b3, b4, from, to, p, l)
    PROVE  IdHolds(b1, b2, b3, b4, from, to, p, l)
<1>. DEFINE t0 == to % 32
            t1 == to \div 32
            f0 == from % 4
            f1 == from \div 4 % 256
            f2 == from \div 1024
<1>0. from \in 0 .. 2047 /\ to \in 0 .. 2047 /\ p \in 0 .. 3 /\ l \in {0, 1}
  BY DEF IdFields
<1>1. t0 \in 0 .. 31 /\ t1 \in 0 .. 63 /\ to = t1 * 32 + t0
  BY <1>0
<1>2. f0 \in 0 .. 3 /\ f1 \in 0 .. 255 /\ f2 \in 0 .. 1 /\ from = f2 * 1024 + f1 * 4 + f0
  BY <1>0
<1>3. b1 = t0 * 8 + 1 /\ b2 = t1 + f0 * 64 /\ b3 = f1 /\ b4 = f2 + l * 32 + p * 64
  BY <1>0 DEF IdBytesOf
<1>. HIDE DEF t0, t1, f0, f1, f2
<1>4. b1 \div 8 = t0
  BY <1>0, <1>1, <1>3
<1>5. b2 \div 64 = f0 /\ b2 % 64 = t1
  <2>1. b2 \div 64 = f0
    BY <1>0, <1>1, <1>2, <1>3
  <2>2. b2 % 64 = t1
    BY <1>0, <1>1, <1>2, <1>3
  <2>. QED BY <2>1, <2>2
<1>6. b4 \div 64 = p /\ b4 \div 32 % 2 = l /\ b4 % 2 = f2
  <2>. DEFINE r == f2 + l * 32
              k == l + p * 2
              h == l * 16 + p * 32
  <2>1. r \in 0 .. 63 /\ b4 = r + p * 64
    BY <1>0, <1>1, <1>2, <1>3
  <2>2. k \in Nat /\ b4 = f2 + k * 32 /\ k % 2 = l
    BY <1>0, <1>1, <1>2, <1>3
  <2>3. h \in Nat /\ b4 = f2 + h * 2
    BY <1>0, <1>1, <1>2, <1>3
  <2>. HIDE DEF r, k, h
  <2>4. b4 \div 64 = p
    BY <1>0, <2>1
  <2>5. b4 \div 32 = k
    BY <1>0, <1>2, <2>2
  <2>6. b4 % 2 = f2
    BY <1>0, <1>2, <2>3
  <2>7. b4 \div 32 % 2 = l
    BY <1>0, <2>2, <2>5
  <2>. HIDE DEF f2
  <2>. QED BY <2>4, <2>6, <2>7
<1>. QED BY <1>0, <1>1, <1>2, <1>3, <1>4, <1>5, <1>6 DEF IdHolds

(* What serialize_frame makes of a frame, deserialize_frame makes into it. *)
LEMMA RoundTrip ==
    ASSUME NEW f \in Frame, f.from_id # 0, f.to_id # 0
    PROVE  deserialize_frame(serialize_frame(f)) = f
<1>. DEFINE s == serialize_frame(f)
            n == Len(f.data)
<1>1. /\ \A i \in 1 .. 4 : s[i] = formatted_can_id(f)[i]
      /\ s[5] = n /\ Len(s) = 5 + n
      /\ \A i \in 1 .. n : s[5 + i] = f.data[i]
  BY Serialized
<1>2. n \in Nat /\ n <= 8 /\ f.data \in Seq(Byte)
  BY FrameFields, SerialAssumption, LenProperties
<1>. HIDE DEF s
<1>3. /\ s[1] = (f.to_id % 32) * 8 + 1
      /\ s[2] = f.to_id \div 32 + (f.from_id % 4) * 64
      /\ s[3] = f.from_id \div 4 % 256
      /\ s[4] = f.from_id \div 1024 + f.is_long_frame * 32 + f.priority * 64
  <2>. DEFINE b1 == (f.to_id % 32) * 8 + 1
              b2 == f.to_id \div 32 + (f.from_id % 4) * 64
              b3 == f.from_id \div 4 % 256
              b4 == f.from_id \div 1024 + f.is_long_frame * 32 + f.priority * 64
  <2>1. formatted_can_id(f) = <<b1, b2, b3, b4>>
    BY DEF formatted_can_id
  <2>. HIDE DEF b1, b2, b3, b4
  <2>2. s[1] = b1 /\ s[2] = b2 /\ s[3] = b3 /\ s[4] = b4
    BY <1>1, <2>1
  <2>. QED BY <2>2 DEF b1, b2, b3, b4
<1>4. /\ s[2] \div 64 + s[3] * 4 + (s[4] % 2) * 1024 = f.from_id
      /\ s[1] \div 8 + (s[2] % 64) * 32 = f.to_id
      /\ s[4] \div 64 = f.priority /\ s[4] \div 32 % 2 = f.is_long_frame
  <2>1. IdHolds(s[1], s[2], s[3], s[4], f.from_id, f.to_id, f.priority, f.is_long_frame)
    <3>. DEFINE from == f.from_id
                to == f.to_id
                p == f.priority
                l == f.is_long_frame
    <3>1. IdFields(from, to, p, l)
      BY FrameFields DEF IdFields
    <3>2. IdBytesOf(s[1], s[2], s[3], s[4], from, to, p, l)
      BY <1>3 DEF IdBytesOf
    <3>. HIDE DEF from, to, p, l
    <3>3. IdHolds(s[1], s[2], s[3], s[4], from, to, p, l)
      BY <3>1, <3>2, IdRead
    <3>. QED BY <3>3 DEF from, to, p, l
  <2>. QED BY <2>1 DEF IdHolds
<1>5. [i \in 1 .. s[5] |-> IF 5 + i <= Len(s) THEN s[5 + i] ELSE 0] = f.data
  <2>1. \A i \in 1 .. n : 5 + i <= Len(s)
    BY <1>1, <1>2
  <2>2. f.data = [i \in 1 .. n |-> f.data[i]]
    BY <1>2
  <2>. HIDE DEF n
  <2>3. [i \in 1 .. n |-> IF 5 + i <= Len(s) THEN s[5 + i] ELSE 0] = [i \in 1 .. n |-> f.data[i]]
    BY <1>1, <2>1
  <2>. QED BY <1>1, <2>2, <2>3
<1>6. ~(s[5] > 8)
  BY <1>1, <1>2
<1>7. deserialize_frame(s) =
        [from_id |-> f.from_id, to_id |-> f.to_id, priority |-> f.priority,
         is_long_frame |-> f.is_long_frame, data |-> f.data]
  BY <1>4, <1>5, <1>6 DEF deserialize_frame
<1>. QED BY <1>7, FrameIsRecord DEF s
-----------------------------------------------------------------------------
(* The frame on the line is one that SoundFramesArrive is about.           *)
AtHand == out # <<>> /\ Sound(Current) /\ Undisturbed(Len(sent))

(* Where the reader is while such a frame comes: not yet in it, or behind  *)
(* its start byte with all bytes since then in its buffer.  A fault before *)
(* its first byte is one that the frame before it left.                    *)
AtStart == Len(out) = Len(Line) => faulted \/ ~currently_reading

Within ==
    Len(out) # Len(Line) =>
        /\ ~faulted /\ currently_reading
        /\ Len(buffer) = Len(Line) - Len(out) - 1
        /\ \A i \in 1 .. Len(buffer) : buffer[i] = Line[i + 1]

SoundInv ==
    /\ SoundFramesArrive
    /\ ~currently_reading /\ ~faulted => buffer = <<>>
    /\ AtHand => /\ \A j \in DOMAIN got : got[j].n # Len(sent)
                 /\ AtStart /\ Within

(* What is true of an earlier frame stays true when bytes of a later one   *)
(* are read.                                                               *)
LEMMA EarlierStay ==
    ASSUME TypeInv, SoundFramesArrive, sent' = sent, sent # <<>>, hurt \subseteq hurt',
           NEW n \in DOMAIN sent, n < Len(sent), Sound(sent[n]), Undisturbed(n)',
           got' = got \/ \E g : g.n = Len(sent) /\ got' = Append(got, g)
    PROVE  \E k \in DOMAIN got' : got'[k].frame = sent[n] /\ ReadOnceAt(n, k)'
<1>1. Undisturbed(n)
  BY DEF Undisturbed
<1>2. PICK k \in DOMAIN got : got[k].frame = sent[n] /\ ReadOnceAt(n, k)
  BY <1>1 DEF SoundFramesArrive
<1>3. CASE got' = got
  BY <1>2, <1>3 DEF ReadOnceAt
<1>4. CASE \E g : g.n = Len(sent) /\ got' = Append(got, g)
  <2>1. PICK g : g.n = Len(sent) /\ got' = Append(got, g)
    BY <1>4
  <2>2. PICK S : got \in Seq(S)
    BY DEF TypeInv, GotInv
  <2>. DEFINE T == S \cup {g}
  <2>3. got \in Seq(T) /\ g \in T
    BY <2>2
  <2>. HIDE DEF T
  <2>4. /\ DOMAIN got = 1 .. Len(got) /\ DOMAIN got' = 1 .. Len(got) + 1 /\ Len(got) \in Nat
        /\ got'[Len(got) + 1] = g /\ \A i \in 1 .. Len(got) : got'[i] = got[i]
    BY <2>1, <2>3, AppendProperties, LenProperties
  <2>5. g.n # n
    <3>1. Len(sent) \in Nat /\ n \in Nat
      BY LineType DEF TypeInv, TypeOK
    <3>. QED BY <2>1, <3>1
  <2>6. ASSUME NEW j \in DOMAIN got' PROVE got'[j].n = n <=> j = k
    <3>1. CASE j \in DOMAIN got
      BY <1>2, <2>4, <3>1 DEF ReadOnceAt
    <3>2. CASE j \notin DOMAIN got
      <4>1. j = Len(got) + 1 /\ j # k
        BY <2>4, <3>2
      <4>. QED BY <2>4, <2>5, <4>1
    <3>. QED BY <3>1, <3>2
  <2>7. k \in DOMAIN got' /\ got'[k] = got[k]
    BY <2>4
  <2>. QED BY <1>2, <2>6, <2>7 DEF ReadOnceAt
<1>. QED BY <1>3, <1>4

LEMMA SoundSend == ASSUME TypeInv, SoundInv, NEW f \in Frame, send_frame(f) PROVE SoundInv'
<1>1. out = <<>> /\ UNCHANGED <<currently_reading, buffer, faulted, got, hurt>>
  BY DEF send_frame
<1>2. /\ Len(sent') = Len(sent) + 1 /\ Len(sent) \in Nat
      /\ \A n \in DOMAIN sent : n \in DOMAIN sent' /\ sent'[n] = sent[n]
      /\ out' = Line' /\ out' # <<>>
  BY SendStep DEF TypeInv
<1>3. DOMAIN sent = 1 .. Len(sent) /\ DOMAIN sent' = 1 .. Len(sent')
  BY SendStep, LenProperties DEF TypeInv, TypeOK
<1>4. SoundFramesArrive'
  <2>. SUFFICES ASSUME NEW n \in DOMAIN sent', Sound(sent'[n]), Undisturbed(n)',
                       n < Len(sent') \/ out' = <<>>
                PROVE  \E k \in DOMAIN got' : got'[k].frame = sent'[n] /\ ReadOnceAt(n, k)'
    BY DEF SoundFramesArrive
  <2>1. n \in DOMAIN sent
    BY <1>2, <1>3
  <2>2. Sound(sent[n]) /\ Undisturbed(n) /\ sent'[n] = sent[n]
    BY <1>1, <1>2, <2>1 DEF Undisturbed
  <2>. QED BY <1>1, <2>1, <2>2 DEF SoundInv, SoundFramesArrive, ReadOnceAt
<1>5. \A j \in DOMAIN got' : got'[j].n # Len(sent')
  <2>1. \A j \in DOMAIN got : got[j].n \in DOMAIN sent
    BY DEF TypeInv, TypeOK, ToSet
  <2>2. Len(sent') \notin DOMAIN sent
    BY <1>2, <1>3
  <2>. QED BY <1>1, <2>1, <2>2
<1>6. Undisturbed(Len(sent))' => AtStart'
  <2>1. Len(sent') - 1 = Len(sent)
    BY <1>2
  <2>2. Len(sent) \notin hurt => ~currently_reading \/ faulted
    BY <1>1 DEF TypeInv, TypeOK
  <2>. QED BY <1>1, <2>1, <2>2 DEF Undisturbed, AtStart
<1>7. Within'
  BY <1>2 DEF Within
<1>. QED BY <1>1, <1>4, <1>5, <1>6, <1>7 DEF SoundInv, AtHand

(* Such a frame has no stop byte before its last.                          *)
LEMMA NoEarlyStop ==
    ASSUME TypeInv, sent # <<>>, Sound(Current)
    PROVE  \A i \in 1 .. Len(Line) - 2 : Line[i + 1] # SERIAL_MESSAGE_STOP_BYTE
<1>. DEFINE s == serialize_frame(Current)
            m == Len(Line)
<1>1. /\ Current \in Frame /\ Len(s) = m - 2 /\ m \in 7 .. 15
      /\ \A i \in 1 .. m - 2 : Line[i + 1] = s[i]
  BY LineType DEF TypeInv
<1>2. \A i \in DOMAIN s : s[i] # SERIAL_MESSAGE_STOP_BYTE
  BY DEF Sound, ToSet
<1>. HIDE DEF s, m
<1>3. s \in Seq(Byte)
  BY <1>1, LineShape DEF s
<1>4. DOMAIN s = 1 .. m - 2
  BY <1>1, <1>3
<1>. QED BY <1>1, <1>2, <1>4 DEF m

(* A byte of it that is not its last.                                      *)
LEMMA SoundMore ==
    ASSUME TypeInv, SoundInv, AtHand, ~faulted, Len(out) # 1, read_frame
    PROVE  /\ Within' /\ Len(out') # Len(Line)' /\ out' # <<>>
           /\ currently_reading' /\ UNCHANGED <<got, hurt>>
<1>. DEFINE b == Head(out)
            n == Len(out)
            m == Len(Line)
<1>1. /\ out # <<>> /\ out' = Tail(out) /\ sent' = sent /\ sent # <<>> /\ hurt' = hurt
  BY DEF read_frame, TypeInv, LineInv
<1>2. /\ out' \in Seq(Byte) /\ Len(out') = n - 1 /\ n \in 1 .. m /\ Line' = Line
      /\ b = Line[m - n + 1] /\ b \in Byte
  BY <1>1, LineShorter DEF TypeInv
<1>3. m \in 7 .. 15 /\ Line[1] = SERIAL_MESSAGE_START_BYTE
  BY <1>1, LineType DEF TypeInv
<1>4. \A i \in 1 .. m - 2 : Line[i + 1] # SERIAL_MESSAGE_STOP_BYTE
  BY <1>1, NoEarlyStop DEF AtHand
<1>5. /\ n = m => ~currently_reading /\ buffer = <<>>
      /\ n # m => /\ currently_reading /\ Len(buffer) = m - n - 1
                  /\ \A i \in 1 .. Len(buffer) : buffer[i] = Line[i + 1]
  BY DEF SoundInv, AtStart, Within
<1>6. buffer \in Seq(Byte)
  BY DEF TypeInv, TypeOK, Byte
<1>7. Len(out') = n - 1 /\ Len(Line') = m /\ (out' = <<>> <=> Len(out') = 0)
  BY <1>2, EmptySeq DEF m
<1>. HIDE DEF b, m, n
<1>8. Len(out') # m /\ out' # <<>> /\ n \in 2 .. m
  BY <1>2, <1>3, <1>7 DEF n
<1>9. CASE n = m
  <2>1. b = SERIAL_MESSAGE_START_BYTE
    <3>1. m - n + 1 = 1
      BY <1>3, <1>9
    <3>. QED BY <1>2, <1>3, <3>1
  <2>2. currently_reading' = TRUE /\ buffer' = <<>> /\ ~faulted' /\ got' = got
    BY <1>5, <1>9, <2>1 DEF read_frame, b
  <2>3. Len(buffer') = 0 /\ m - (n - 1) - 1 = 0
    BY <1>3, <1>9, <2>2
  <2>. QED BY <1>1, <1>7, <1>8, <2>2, <2>3 DEF Within
<1>10. CASE n # m
  <2>1. m - n \in 1 .. m - 2
    BY <1>3, <1>8, <1>10
  <2>2. b # SERIAL_MESSAGE_STOP_BYTE
    BY <1>2, <1>4, <2>1
  <2>3. StoreByte(b)
    BY <1>5, <1>10, <2>2 DEF read_frame, b
  <2>4. Len(buffer) < 13 /\ Len(buffer) = m - n - 1
    BY <1>3, <1>5, <1>10, <2>1
  <2>5. buffer' = Append(buffer, b) /\ UNCHANGED <<faulted, currently_reading, got>>
    BY <2>3, <2>4 DEF StoreByte, MAX_SERIALIZED_SIZE
  <2>. DEFINE k == Len(buffer)
  <2>6. /\ Len(buffer') = k + 1 /\ k \in Nat /\ buffer'[k + 1] = b
        /\ \A i \in 1 .. k : buffer'[i] = buffer[i]
    BY <1>2, <1>6, <2>5, AppendProperties, LenProperties
  <2>7. \A i \in 1 .. k : buffer[i] = Line[i + 1]
    BY <1>5, <1>10
  <2>8. k = m - n - 1
    BY <2>4
  <2>. HIDE DEF k
  <2>9. k + 1 = m - (n - 1) - 1 /\ (k + 1) + 1 = m - n + 1
    BY <1>3, <1>8, <2>8
  <2>10. ASSUME NEW i \in 1 .. k + 1 PROVE buffer'[i] = Line[i + 1]
    <3>1. CASE i = k + 1
      BY <1>2, <2>6, <2>9, <3>1
    <3>2. CASE i # k + 1
      <4>1. i \in 1 .. k
        BY <2>6, <3>2
      <4>. QED BY <2>6, <2>7, <4>1
    <3>. QED BY <3>1, <3>2
  <2>11. ~faulted' /\ currently_reading'
    BY <1>5, <1>10, <2>5
  <2>. QED BY <1>1, <1>2, <1>7, <1>8, <2>5, <2>6, <2>9, <2>10, <2>11 DEF Within
<1>. QED BY <1>9, <1>10 DEF m, n

(* Its last byte: the frame is read as it was sent.                        *)
LEMMA SoundLast ==
    ASSUME TypeInv, SoundInv, AtHand, ~faulted, Len(out) = 1, read_frame
    PROVE  /\ got' = Append(got, [frame |-> Current, n |-> Len(sent)])
           /\ out' = <<>> /\ buffer' = <<>> /\ hurt' = hurt
<1>. DEFINE b == Head(out)
            m == Len(Line)
            s == serialize_frame(Current)
<1>1. /\ out # <<>> /\ out' = Tail(out) /\ sent' = sent /\ sent # <<>> /\ hurt' = hurt
  BY DEF read_frame, TypeInv, LineInv
<1>2. /\ out' \in Seq(Byte) /\ Len(out') = Len(out) - 1 /\ b = Line[m - Len(out) + 1]
  BY <1>1, LineShorter DEF TypeInv
<1>3. /\ m \in 7 .. 15 /\ Line[m] = SERIAL_MESSAGE_STOP_BYTE /\ Current \in Frame
      /\ Len(s) = m - 2 /\ \A i \in 1 .. m - 2 : Line[i + 1] = s[i]
  BY <1>1, LineType DEF TypeInv
<1>4. s \in Seq(Byte)
  BY <1>3, LineShape
<1>. HIDE DEF b, m, s
<1>5. Len(out) # m
  BY <1>3
<1>6. /\ currently_reading /\ Len(buffer) = m - Len(out) - 1
      /\ \A i \in 1 .. Len(buffer) : buffer[i] = Line[i + 1]
  BY <1>5 DEF SoundInv, Within, m
<1>7. buffer \in Seq(Byte)
  BY DEF TypeInv, TypeOK, Byte
<1>8. Len(buffer) = m - 2 /\ b = SERIAL_MESSAGE_STOP_BYTE /\ Len(out') = 0
  <2>1. m - 1 - 1 = m - 2 /\ m - 1 + 1 = m
    BY <1>3
  <2>. QED BY <1>2, <1>3, <1>6, <2>1
<1>9. buffer = s
  <2>. DEFINE k == m - 2
  <2>1. Len(buffer) = k /\ Len(s) = k
    BY <1>3, <1>8
  <2>2. \A i \in 1 .. k : buffer[i] = s[i]
    BY <1>3, <1>6, <1>8
  <2>3. k \in Nat
    BY <1>3
  <2>. HIDE DEF k
  <2>4. buffer = [i \in 1 .. k |-> buffer[i]] /\ s = [i \in 1 .. k |-> s[i]]
    BY <1>4, <1>7, <2>1
  <2>5. [i \in 1 .. k |-> buffer[i]] = [i \in 1 .. k |-> s[i]]
    BY <2>2
  <2>. QED BY <2>4, <2>5
<1>10. EndFrame /\ ~(Len(buffer) < 5)
  <2>1. EndFrame
    BY <1>6, <1>8 DEF read_frame, b
  <2>2. ~(Len(buffer) < 5)
    BY <1>3, <1>8
  <2>. QED BY <2>1, <2>2
<1>11. deserialize_frame(s) = Current
  BY <1>3, RoundTrip DEF AtHand, Sound, s
<1>12. out' = <<>>
  BY <1>2, <1>8, EmptySeq
<1>. QED BY <1>1, <1>9, <1>10, <1>11, <1>12 DEF EndFrame, EmptyBuffer

(* What read_frame does with got and hurt, whatever comes.                 *)
LEMMA ReadEffect ==
    ASSUME TypeInv, SoundInv, read_frame
    PROVE  /\ out # <<>> /\ sent # <<>> /\ sent' = sent /\ hurt \subseteq hurt'
           /\ got' = got \/ \E g : g.n = Len(sent) /\ got' = Append(got, g)
           /\ faulted => Len(sent) \in hurt' /\ faulted'
           /\ ~currently_reading' /\ ~faulted' => buffer' = <<>>
<1>1. /\ out # <<>> /\ sent # <<>> /\ sent' = sent /\ hurt \subseteq hurt'
      /\ faulted => Len(sent) \in hurt' /\ UNCHANGED faulted
  BY DEF read_frame, TypeInv, LineInv
<1>2. \/ UNCHANGED <<currently_reading, buffer, faulted, got>>
      \/ currently_reading' = TRUE /\ UNCHANGED got
      \/ currently_reading /\ EndFrame
      \/ currently_reading /\ \E b : StoreByte(b)
  BY DEF read_frame
<1>3. CASE UNCHANGED <<currently_reading, buffer, faulted, got>>
  BY <1>1, <1>3 DEF SoundInv
<1>4. CASE currently_reading' = TRUE /\ UNCHANGED got
  BY <1>1, <1>4
<1>5. CASE currently_reading /\ EndFrame
  <2>1. got' = got \/ \E g : g.n = Len(sent) /\ got' = Append(got, g)
    BY <1>5 DEF EndFrame
  <2>2. buffer' = <<>>
    BY <1>5 DEF EndFrame, EmptyBuffer
  <2>. QED BY <1>1, <2>1, <2>2
<1>6. CASE currently_reading /\ \E b : StoreByte(b)
  <2>1. currently_reading' /\ got' = got
    BY <1>6 DEF StoreByte
  <2>. QED BY <1>1, <2>1
<1>. QED BY <1>2, <1>3, <1>4, <1>5, <1>6

LEMMA SoundRead == ASSUME TypeInv, SoundInv, read_frame PROVE SoundInv'
<1>1. /\ out # <<>> /\ sent # <<>> /\ sent' = sent /\ hurt \subseteq hurt'
      /\ got' = got \/ \E g : g.n = Len(sent) /\ got' = Append(got, g)
      /\ faulted => Len(sent) \in hurt'
      /\ ~currently_reading' /\ ~faulted' => buffer' = <<>>
  BY ReadEffect
<1>2. /\ Len(sent) \in DOMAIN sent /\ Len(sent) \in Nat /\ DOMAIN sent = 1 .. Len(sent)
  BY <1>1, LineType, LenProperties DEF TypeInv, TypeOK
<1>3. ASSUME Sound(Current), Undisturbed(Len(sent))' PROVE AtHand /\ ~faulted
  <2>1. Len(sent) \notin hurt' /\ Len(sent) - 1 \notin hurt'
    BY <1>1, <1>3 DEF Undisturbed
  <2>2. Undisturbed(Len(sent)) /\ ~faulted
    BY <1>1, <2>1 DEF Undisturbed
  <2>3. out # <<>> /\ Sound(Current)
    BY <1>1, <1>3
  <2>. QED BY <2>2, <2>3 DEF AtHand
<1>4. SoundFramesArrive'
  <2>. SUFFICES ASSUME NEW n \in DOMAIN sent, Sound(sent[n]), Undisturbed(n)',
                       n < Len(sent) \/ out' = <<>>
                PROVE  \E k \in DOMAIN got' : got'[k].frame = sent[n] /\ ReadOnceAt(n, k)'
    BY <1>1 DEF SoundFramesArrive
  <2>1. CASE n < Len(sent)
    BY <1>1, <2>1, EarlierStay DEF SoundInv
  <2>2. CASE ~(n < Len(sent))
    <3>1. n = Len(sent) /\ out' = <<>>
      BY <1>2, <2>2
    <3>2. AtHand /\ ~faulted
      <4>1. Sound(Current)
        BY <3>1 DEF Current
      <4>2. Undisturbed(Len(sent))'
        BY <1>1, <3>1 DEF Undisturbed
      <4>. QED BY <1>3, <4>1, <4>2
    <3>3. Len(out) = 1
      BY <3>1, <3>2, SoundMore
    <3>. DEFINE g == [frame |-> Current, n |-> n]
    <3>4. got' = Append(got, g) /\ g.frame = sent[n] /\ g.n = n
      BY <3>1, <3>2, <3>3, SoundLast DEF Current
    <3>5. PICK S : got \in Seq(S)
      BY DEF TypeInv, GotInv
    <3>. DEFINE T == S \cup {g}
    <3>6. got \in Seq(T) /\ g \in T
      BY <3>5
    <3>. HIDE DEF T, g
    <3>7. /\ DOMAIN got = 1 .. Len(got) /\ DOMAIN got' = 1 .. Len(got) + 1 /\ Len(got) \in Nat
          /\ got'[Len(got) + 1] = g /\ \A i \in 1 .. Len(got) : got'[i] = got[i]
      BY <3>4, <3>6, AppendProperties, LenProperties
    <3>8. \A j \in DOMAIN got : got[j].n # n
      BY <3>1, <3>2 DEF SoundInv
    <3>. DEFINE k == Len(got) + 1
    <3>9. k \in DOMAIN got' /\ got'[k].frame = sent[n]
      BY <3>4, <3>7
    <3>10. ASSUME NEW j \in DOMAIN got' PROVE got'[j].n = n <=> j = k
      <4>1. CASE j \in DOMAIN got
        BY <3>7, <3>8, <4>1
      <4>2. CASE j \notin DOMAIN got
        <5>1. j = k
          BY <3>7, <4>2
        <5>. QED BY <3>4, <3>7, <5>1
      <4>. QED BY <4>1, <4>2
    <3>. HIDE DEF k
    <3>. QED BY <3>9, <3>10 DEF ReadOnceAt
  <2>. QED BY <2>1, <2>2
<1>5. ASSUME AtHand'
      PROVE  (\A j \in DOMAIN got' : got'[j].n # Len(sent)') /\ AtStart' /\ Within'
  <2>1. AtHand /\ ~faulted /\ out' # <<>>
    BY <1>1, <1>3, <1>5 DEF AtHand, Current
  <2>2. Len(out) # 1
    BY <2>1, SoundLast
  <2>3. Within' /\ Len(out') # Len(Line)' /\ UNCHANGED got
    BY <2>1, <2>2, SoundMore
  <2>. QED BY <1>1, <2>1, <2>3 DEF SoundInv, AtStart
<1>. QED BY <1>1, <1>4, <1>5 DEF SoundInv

LEMMA SoundLose == ASSUME TypeInv, SoundInv, LoseByte PROVE SoundInv'
<1>1. /\ out # <<>> /\ sent # <<>> /\ sent' = sent
      /\ hurt' = hurt \cup {Len(sent)}
      /\ UNCHANGED <<currently_reading, buffer, faulted, got>>
  BY DEF LoseByte, TypeInv, LineInv
<1>2. Len(sent) \in Nat /\ DOMAIN sent = 1 .. Len(sent)
  BY LenProperties DEF TypeInv, TypeOK
<1>3. ~Undisturbed(Len(sent))'
  BY <1>1 DEF Undisturbed
<1>4. SoundFramesArrive'
  <2>. SUFFICES ASSUME NEW n \in DOMAIN sent, Sound(sent[n]), Undisturbed(n)'
                PROVE  \E k \in DOMAIN got' : got'[k].frame = sent[n] /\ ReadOnceAt(n, k)'
    BY <1>1 DEF SoundFramesArrive
  <2>1. n < Len(sent)
    <3>1. n \notin hurt'
      BY DEF Undisturbed
    <3>2. n # Len(sent)
      BY <1>1, <3>1
    <3>. QED BY <1>2, <3>2
  <2>2. hurt \subseteq hurt' /\ got' = got
    BY <1>1
  <2>. QED BY <1>1, <2>1, <2>2, EarlierStay DEF SoundInv
<1>5. ~AtHand'
  BY <1>1, <1>3 DEF AtHand
<1>. QED BY <1>1, <1>4, <1>5 DEF SoundInv

LEMMA SoundRestart == ASSUME TypeInv, SoundInv, Restart PROVE SoundInv'
<1>1. /\ buffer' = <<>> /\ UNCHANGED <<sent, out, got>> /\ hurt \subseteq hurt'
      /\ out # <<>> => Len(sent) \in hurt'
  BY DEF Restart
<1>2. SoundFramesArrive'
  <2>1. \A n : Undisturbed(n)' => Undisturbed(n)
    BY <1>1 DEF Undisturbed
  <2>. QED BY <1>1, <2>1 DEF SoundInv, SoundFramesArrive, ReadOnceAt
<1>3. ~AtHand'
  BY <1>1 DEF AtHand, Undisturbed
<1>. QED BY <1>1, <1>2, <1>3 DEF SoundInv

LEMMA SoundStep == ASSUME TypeInv, SoundInv, [Next]_vars PROVE SoundInv'
<1>1. CASE UNCHANGED vars
  <2>1. UNCHANGED <<sent, out, currently_reading, buffer, faulted, got, hurt>>
    BY <1>1 DEF vars
  <2>2. SoundFramesArrive'
    BY <2>1 DEF SoundInv, SoundFramesArrive, ReadOnceAt, Undisturbed
  <2>3. AtHand' => AtHand
    BY <2>1 DEF AtHand, Undisturbed, Current
  <2>4. (AtStart => AtStart') /\ (Within => Within')
    BY <2>1 DEF AtStart, Within, Line, Current
  <2>. QED BY <2>1, <2>2, <2>3, <2>4 DEF SoundInv
<1>. QED BY <1>1, SoundSend, SoundRead, SoundLose, SoundRestart DEF Next

(* A sound frame that comes whole, after one that came whole, is read once  *)
(* and as it was sent, for any frames and any bounds: whatever the reader   *)
(* was left with before is over with the stop byte of the frame before it,  *)
(* and the id, the length and the data are found at their places again.     *)
THEOREM SoundArrive == Spec => []SoundFramesArrive
<1>1. Init => TypeInv /\ SoundInv
  <2>1. Init => SoundInv
    BY DEF Init, SoundInv, SoundFramesArrive, AtHand
  <2>. QED BY <2>1, TypeInit
<1>2. (TypeInv /\ SoundInv) /\ [Next]_vars => (TypeInv /\ SoundInv)'
  BY TypeStep, SoundStep
<1>3. TypeInv /\ SoundInv => SoundFramesArrive
  BY DEF SoundInv
<1>. QED BY <1>1, <1>2, <1>3, PTL DEF Spec
=============================================================================
