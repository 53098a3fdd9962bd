------------------------- MODULE LongFrameBusProofs -------------------------
(***************************************************************************)
(* What the proofs of both receivers of long frames, CanRed's and the      *)
(* modules', use about the senders and the bus (LongFrameBus).             *)
(***************************************************************************)
EXTENDS LongFrameBus, SequenceTheorems, TLAPS

(* A frame holds its uid and the bytes behind it, if it is not the empty   *)
(* one that CanManager ends a group with.                                  *)
Frames ==
    {f \in [uid : GroupUid \cup {INVALID}, message : 1..MaxMessages,
            bytes : Seq((1..MaxMessages) \X Nat), dlc : 0..8] :
        f.dlc # 0 => Len(f.bytes) = f.dlc - 1 /\ f.uid \in GroupUid}

(* A full frame is followed by another of its group. *)
Followed(q) ==
    \A k \in DOMAIN q : q[k].dlc = 8 => k + 1 \in DOMAIN q /\ q[k + 1].uid = q[k].uid

(* What is still to be sent of a message of so many bytes after j frames,  *)
(* if it is sent seven bytes at a time.                                    *)
Rest(q, n, uid, size, j) ==
    /\ j \in 0..(size \div 7)
    /\ q = [k \in 1..(size \div 7 + 1 - j) |->
                Frame(uid, n, Bytes(n, 7 * (j + k) - 6, AtMost(7 * (j + k), size)))]

(* The types of the senders and the bus. *)
BusInv ==
    /\ queue \in [Sender -> Seq(Frames)]
    /\ messages \in Seq(Nat) /\ Len(messages) <= MaxMessages
    /\ disturbed \subseteq GroupUid \cup {INVALID}
    /\ \A s \in Sender : Followed(queue[s])

(* Each sender is at some frame of one group, and two senders are not      *)
(* under the same uid unless that is known to be disturbed.                *)
GroupsInv ==
    /\ \A s \in Sender : queue[s] # <<>> =>
        \E n \in 1..Len(messages), uid \in GroupUid, size \in Nat, j \in Nat :
            messages[n] <= size /\ Rest(queue[s], n, uid, size, j)
    /\ \A s, t \in Sender :
        s # t /\ queue[s] # <<>> /\ queue[t] # <<>> /\ queue[s][1].uid = queue[t][1].uid
            => queue[s][1].uid \in disturbed

(* CanRed alone sends by CanManager. *)
NoneByCanManager == \A m \in Message : m.by # "CanManager"

----------------------------------------------------------------------------
LEMMA DivSeven ==
  ASSUME NEW size \in Nat
  PROVE  /\ size \div 7 \in Nat
         /\ 7 * (size \div 7) <= size
         /\ size < 7 * (size \div 7) + 7
OBVIOUS

LEMMA BytesType ==
  ASSUME NEW n \in 1..MaxMessages, NEW first \in Nat, NEW last \in Nat, first <= last + 1
  PROVE  /\ Bytes(n, first, last) \in Seq((1..MaxMessages) \X Nat)
         /\ Len(Bytes(n, first, last)) = last - first + 1
         /\ DOMAIN Bytes(n, first, last) = 1..(last - first + 1)
         /\ \A i \in 1..(last - first + 1) : Bytes(n, first, last)[i] = <<n, first + i - 1>>
<1>1. last - first + 1 \in Nat
  OBVIOUS
<1>2. \A i \in 1..(last - first + 1) : <<n, first + i - 1>> \in (1..MaxMessages) \X Nat
  OBVIOUS
<1>. QED
  BY <1>1, <1>2 DEF Bytes

(* Frames that follow one another: their bytes do too. *)
LEMMA BytesJoin ==
  ASSUME NEW n \in 1..MaxMessages, NEW mid \in Nat, NEW last \in Nat, mid <= last
  PROVE  Bytes(n, 1, mid) \o Bytes(n, mid + 1, last) = Bytes(n, 1, last)
<1>. DEFINE S == (1..MaxMessages) \X Nat
            a == Bytes(n, 1, mid)
            b == Bytes(n, mid + 1, last)
            c == Bytes(n, 1, last)
<1>1. a = [i \in 1..mid |-> <<n, i>>]
  BY DEF Bytes
<1>2. b = [i \in 1..(last - mid) |-> <<n, mid + i>>]
  BY DEF Bytes
<1>3. c = [i \in 1..last |-> <<n, i>>]
  BY DEF Bytes
<1>4. a \in Seq(S) /\ Len(a) = mid
  BY <1>1
<1>5. b \in Seq(S) /\ Len(b) = last - mid
  <2>. DEFINE k == last - mid
  <2>1. k \in Nat
    OBVIOUS
  <2>. HIDE DEF k
  <2>2. b = [i \in 1..k |-> <<n, mid + i>>]
    BY <1>2 DEF k
  <2>. HIDE DEF b
  <2>3. b \in Seq(S) /\ Len(b) = k
    BY <2>1, <2>2
  <2>. QED
    BY <2>3 DEF k
<1>6. c \in Seq(S) /\ Len(c) = last
  BY <1>3
<1>. HIDE DEF a, b, c, S
<1>7. /\ a \o b \in Seq(S) /\ Len(a \o b) = last
      /\ \A i \in 1..last : (a \o b)[i] = IF i <= mid THEN a[i] ELSE b[i - mid]
  <2>1. Len(a) + Len(b) = last
    BY <1>4, <1>5
  <2>. QED
    BY <2>1, <1>4, <1>5, ConcatProperties
<1>8. ASSUME NEW i \in 1..last PROVE (a \o b)[i] = c[i]
  <2>1. CASE i <= mid
    BY <2>1, <1>1, <1>3, <1>7
  <2>2. CASE i > mid
    <3>1. (a \o b)[i] = b[i - mid]
      BY <2>2, <1>7
    <3>2. PICK k \in 1..(last - mid) : (a \o b)[i] = b[k] /\ mid + k = i
      <4>1. i - mid \in 1..(last - mid) /\ mid + (i - mid) = i
        BY <2>2
      <4>. QED
        BY <3>1, <4>1
    <3>3. b[k] = <<n, i>>
      BY <3>2, <1>2
    <3>4. c[i] = <<n, i>>
      BY <1>3
    <3>. QED
      BY <3>1, <3>2, <3>3, <3>4
  <2>3. i <= mid \/ i > mid
    OBVIOUS
  <2>. QED
    BY <2>1, <2>2, <2>3, Zenon
<1>9. a \o b = c
  BY <1>6, <1>7, <1>8, SeqEqual
<1>. QED
  BY <1>9 DEF a, b, c

----------------------------------------------------------------------------
(* What is left of a group: frames under its uid, all but the last full.   *)
LEMMA RestShape ==
  ASSUME NEW q, NEW n \in 1..MaxMessages, NEW uid \in GroupUid, NEW size \in Nat, NEW j,
         Rest(q, n, uid, size, j)
  PROVE  /\ q \in Seq(Frames) /\ Len(q) = size \div 7 + 1 - j /\ q # <<>>
         /\ \A k \in 1..Len(q) :
             /\ q[k].uid = uid /\ q[k].message = n
             /\ q[k].bytes = Bytes(n, 7 * (j + k) - 6, AtMost(7 * (j + k), size))
             /\ q[k].dlc = 8 <=> k < Len(q)
             /\ q[k].dlc <= 8 /\ q[k].dlc = Len(q[k].bytes) + 1
         /\ Followed(q)
<1>. DEFINE d == size \div 7
            N == d + 1 - j
            f(k) == Frame(uid, n, Bytes(n, 7 * (j + k) - 6, AtMost(7 * (j + k), size)))
<1>1. d \in Nat /\ 7 * d <= size /\ size < 7 * d + 7
  BY DivSeven
<1>2. j \in 0..d /\ q = [k \in 1..N |-> f(k)]
  BY DEF Rest
<1>. HIDE DEF d
<1>3. N \in Nat \ {0}
  BY <1>1, <1>2
<1>4. ASSUME NEW k \in 1..N
      PROVE  /\ f(k) \in Frames
             /\ f(k).uid = uid /\ f(k).message = n
             /\ f(k).bytes = Bytes(n, 7 * (j + k) - 6, AtMost(7 * (j + k), size))
             /\ f(k).dlc = 8 <=> k < N
             /\ f(k).dlc <= 8 /\ f(k).dlc = Len(f(k).bytes) + 1
  <2>. DEFINE first == 7 * (j + k) - 6
              last == AtMost(7 * (j + k), size)
              bytes == Bytes(n, first, last)
  <2>1. /\ first \in Nat /\ last \in Nat /\ first <= last + 1 /\ last - first + 1 <= 7
        /\ last - first + 1 = 7 <=> k < N
    <3>1. CASE k < N
      <4>1. 7 * (j + k) <= size
        BY <1>1, <1>2, <3>1
      <4>. QED
        BY <1>1, <1>2, <3>1, <4>1 DEF AtMost
    <3>2. CASE k = N
      <4>1. j + k = d + 1
        BY <1>1, <1>2, <3>2
      <4>2. 7 * (j + k) = 7 * d + 7
        BY <1>1, <4>1
      <4>. QED
        BY <1>1, <1>2, <3>2, <4>2 DEF AtMost
    <3>. QED
      BY <1>3, <3>1, <3>2
  <2>. HIDE DEF first, last
  <2>2. bytes \in Seq((1..MaxMessages) \X Nat) /\ Len(bytes) = last - first + 1
    BY <2>1, BytesType
  <2>. HIDE DEF bytes
  <2>3. f(k) = [uid |-> uid, message |-> n, bytes |-> bytes, dlc |-> Len(bytes) + 1]
    BY DEF Frame, bytes, first, last
  <2>4. f(k) \in Frames
    <3>. DEFINE dlc == Len(bytes) + 1
    <3>1. dlc \in 0..8 /\ Len(bytes) = dlc - 1
      BY <2>1, <2>2
    <3>. HIDE DEF dlc
    <3>2. f(k) = [uid |-> uid, message |-> n, bytes |-> bytes, dlc |-> dlc]
      BY <2>3 DEF dlc
    <3>. QED
      BY <2>2, <3>1, <3>2 DEF Frames
  <2>. QED
    BY <2>1, <2>2, <2>3, <2>4 DEF bytes, first, last
<1>. HIDE DEF N, f
<1>5. q \in Seq(Frames) /\ Len(q) = N /\ q # <<>>
  <2>1. q \in Seq(Frames)
    BY <1>2, <1>3, <1>4, IsASeq
  <2>2. Len(q) = N
    BY <1>2, <1>3
  <2>. QED
    BY <1>3, <2>1, <2>2
<1>6. Followed(q)
  BY <1>2, <1>3, <1>4, <1>5 DEF Followed
<1>. QED
  BY <1>2, <1>4, <1>5, <1>6 DEF N, d, f

(* By whichever function, messages are sent as such groups, or in frames   *)
(* that are not full.                                                      *)
LEMMA FramesOfShape ==
  ASSUME NEW m \in Message, NEW n \in 1..MaxMessages, NEW uid \in GroupUid
  PROVE  /\ FramesOf(m, uid, n) \in Seq(Frames)
         /\ Followed(FramesOf(m, uid, n))
         /\ m.by # "CanManager" =>
                \E size \in Nat : m.size <= size /\ Rest(FramesOf(m, uid, n), n, uid, size, 0)
<1>1. m \in [by : {"events", "configuration", "CanManager"}, size : Nat]
  BY BusAssumption
<1>2. ASSUME NEW size \in Nat PROVE Rest(SevenAtATime(uid, n, size), n, uid, size, 0)
  BY DivSeven DEF Rest, SevenAtATime
<1>3. CASE m.by = "events"
  <2>1. FramesOf(m, uid, n) = SevenAtATime(uid, n, m.size)
    BY <1>3 DEF FramesOf, send_stored_events
  <2>. QED
    BY <1>1, <1>2, <2>1, RestShape
<1>4. CASE m.by = "configuration"
  <2>. DEFINE total == 7 * (1 + (m.size + 7) \div 7)
  <2>1. total \in Nat /\ m.size <= total
    BY <1>1
  <2>2. FramesOf(m, uid, n) = SevenAtATime(uid, n, total)
    BY <1>4 DEF FramesOf, send_stored_configuration
  <2>. HIDE DEF total
  <2>3. Rest(FramesOf(m, uid, n), n, uid, total, 0)
    BY <1>2, <2>1, <2>2
  <2>4. FramesOf(m, uid, n) \in Seq(Frames) /\ Followed(FramesOf(m, uid, n))
    BY <2>1, <2>3, RestShape
  <2>. QED
    BY <2>1, <2>3, <2>4
<1>5. CASE m.by = "CanManager"
  <2>. DEFINE size == m.size
              N == (size + 6) \div 7
              f(k) == Frame(uid, n, Bytes(n, 7 * k - 4, AtMost(7 * k, size) + 1))
              full == [k \in 1..N |-> f(k)]
              last == [Frame(INVALID, n, <<>>) EXCEPT !.dlc = 0]
  <2>1. /\ size \in Nat /\ N \in Nat
        /\ 7 * N <= size + 6 /\ size + 6 < 7 * N + 7
    BY <1>1
  <2>2. FramesOf(m, uid, n) = full \o IF size % 7 = 0 THEN <<last>> ELSE <<>>
    BY <1>5 DEF FramesOf, CanManager_send_buffer
  <2>. HIDE DEF size, N
  <2>3. ASSUME NEW k \in 1..N PROVE f(k) \in Frames /\ f(k).dlc # 8
    <3>. DEFINE low == 7 * k - 4
                high == AtMost(7 * k, size) + 1
                bytes == Bytes(n, low, high)
                dlc == Len(bytes) + 1
    <3>1. /\ low \in Nat /\ high \in Nat /\ low <= high + 1 /\ high - low + 1 <= 6
      <4>1. CASE 7 * k <= size
        BY <2>1, <4>1 DEF AtMost
      <4>2. CASE ~(7 * k <= size)
        BY <2>1, <4>2 DEF AtMost
      <4>. QED
        BY <4>1, <4>2
    <3>. HIDE DEF low, high
    <3>2. bytes \in Seq((1..MaxMessages) \X Nat) /\ Len(bytes) = high - low + 1
      BY <3>1, BytesType
    <3>. HIDE DEF bytes
    <3>3. dlc \in 0..7 /\ Len(bytes) = dlc - 1
      BY <3>1, <3>2
    <3>. HIDE DEF dlc
    <3>4. f(k) = [uid |-> uid, message |-> n, bytes |-> bytes, dlc |-> dlc]
      BY DEF Frame, bytes, dlc, low, high
    <3>. HIDE DEF f
    <3>5. dlc \in 0..8 /\ dlc # 8
      BY <3>3
    <3>6. f(k) \in [uid : GroupUid \cup {INVALID}, message : 1..MaxMessages,
                    bytes : Seq((1..MaxMessages) \X Nat), dlc : 0..8]
      BY <3>2, <3>4, <3>5
    <3>. QED
      BY <3>3, <3>4, <3>5, <3>6 DEF Frames
  <2>4. last \in Frames /\ last.dlc # 8
    <3>1. last = [uid |-> INVALID, message |-> n, bytes |-> <<>>, dlc |-> 0]
      BY DEF Frame
    <3>. HIDE DEF last
    <3>2. last \in [uid : GroupUid \cup {INVALID}, message : 1..MaxMessages,
                   bytes : Seq((1..MaxMessages) \X Nat), dlc : 0..8]
      BY <3>1
    <3>3. last.dlc = 0
      BY <3>1
    <3>. QED
      BY <3>2, <3>3 DEF Frames
  <2>. HIDE DEF f, last
  <2>5. full \in Seq(Frames) /\ \A k \in 1..Len(full) : full[k].dlc # 8
    BY <2>1, <2>3, IsASeq
  <2>. HIDE DEF full
  <2>6. CASE size % 7 = 0
    <3>1. FramesOf(m, uid, n) = Append(full, last)
      BY <2>2, <2>4, <2>5, <2>6
    <3>. QED
      BY <1>5, <2>4, <2>5, <3>1 DEF Followed
  <2>7. CASE size % 7 # 0
    <3>1. FramesOf(m, uid, n) = full
      BY <2>2, <2>5, <2>7
    <3>. QED
      BY <1>5, <2>5, <3>1 DEF Followed
  <2>. QED
    BY <2>6, <2>7
<1>. QED
  BY <1>1, <1>3, <1>4, <1>5

LEMMA TailFacts ==
  ASSUME NEW q \in Seq(Frames), q # <<>>
  PROVE  /\ Head(q) = q[1] /\ q[1] \in Frames
         /\ Tail(q) \in Seq(Frames) /\ Len(Tail(q)) = Len(q) - 1
         /\ \A k \in 1..(Len(q) - 1) : Tail(q)[k] = q[k + 1]
         /\ Tail(q) # <<>> <=> Len(q) > 1
<1>1. Len(q) \in Nat \ {0}
  BY EmptySeq
<1>2. Head(q) = q[1] /\ q[1] \in Frames
  BY <1>1, HeadTailProperties, ElementOfSeq
<1>3. /\ Tail(q) \in Seq(Frames) /\ Len(Tail(q)) = Len(q) - 1
      /\ \A k \in 1..(Len(q) - 1) : Tail(q)[k] = q[k + 1]
  BY <1>1, HeadTailProperties
<1>4. Tail(q) # <<>> <=> Len(q) > 1
  <2>1. ASSUME NEW t \in Seq(Frames) PROVE t # <<>> <=> Len(t) # 0
    BY EmptySeq
  <2>2. Tail(q) # <<>> <=> Len(q) - 1 # 0
    BY <1>3, <2>1
  <2>3. ASSUME NEW k \in Nat \ {0} PROVE k - 1 # 0 <=> k > 1
    OBVIOUS
  <2>4. Len(q) - 1 # 0 <=> Len(q) > 1
    BY <1>1, <2>3
  <2>. QED
    BY <2>2, <2>4, Zenon
<1>. QED
  BY <1>2, <1>3, <1>4

LEMMA TailFollowed ==
  ASSUME NEW q \in Seq(Frames), q # <<>>, Followed(q)
  PROVE  Followed(Tail(q))
BY TailFacts DEF Followed

LEMMA TailRest ==
  ASSUME NEW q \in Seq(Frames), NEW n \in 1..MaxMessages, NEW uid \in GroupUid,
         NEW size \in Nat, NEW j \in Nat, Rest(q, n, uid, size, j), Tail(q) # <<>>
  PROVE  Rest(Tail(q), n, uid, size, j + 1) /\ Tail(q)[1].uid = uid
<1>. DEFINE d == size \div 7
            f(k) == Frame(uid, n, Bytes(n, 7 * (j + k) - 6, AtMost(7 * (j + k), size)))
            g(k) == Frame(uid, n, Bytes(n, 7 * (j + 1 + k) - 6, AtMost(7 * (j + 1 + k), size)))
<1>1. d \in Nat
  BY DivSeven
<1>2. q = [k \in 1..(d + 1 - j) |-> f(k)]
  BY DEF Rest
<1>3. Len(q) = d + 1 - j /\ q # <<>>
  BY RestShape
<1>4. /\ Tail(q) \in Seq(Frames) /\ Len(Tail(q)) = Len(q) - 1 /\ Len(q) > 1
      /\ \A k \in 1..(Len(q) - 1) : Tail(q)[k] = q[k + 1]
  BY <1>3, TailFacts
<1>5. ASSUME NEW k \in Nat PROVE f(k + 1) = g(k)
  <2>1. 7 * (j + (k + 1)) = 7 * (j + 1 + k)
    OBVIOUS
  <2>. QED
    BY <2>1
<1>. HIDE DEF d, f, g
<1>6. Tail(q) = [k \in 1..(d + 1 - (j + 1)) |-> g(k)]
  <2>. DEFINE t == Tail(q)
  <2>2. Len(t) = d + 1 - (j + 1) /\ Len(t) \in Nat
    BY <1>1, <1>3, <1>4
  <2>3. ASSUME NEW k \in 1..Len(t) PROVE t[k] = g(k)
    <3>1. t[k] = q[k + 1]
      BY <1>4
    <3>2. k + 1 \in 1..(d + 1 - j) /\ k \in Nat
      BY <1>1, <1>3, <1>4
    <3>3. q[k + 1] = f(k + 1)
      BY <1>2, <3>2
    <3>. QED
      BY <1>5, <3>1, <3>2, <3>3
  <2>4. t \in Seq(Frames)
    BY <1>4
  <2>. HIDE DEF t
  <2>5. t = [k \in 1..Len(t) |-> t[k]]
    BY <2>4
  <2>. QED
    BY <2>2, <2>3, <2>5 DEF t
<1>7. j + 1 \in 0..d
  BY <1>1, <1>3, <1>4
<1>8. Rest(Tail(q), n, uid, size, j + 1)
  BY <1>6, <1>7 DEF Rest, d, g
<1>9. Tail(q)[1].uid = uid
  <2>1. 1 \in 1..(Len(q) - 1) /\ 1 + 1 = 2 /\ 2 \in 1..Len(q)
    BY <1>4
  <2>2. \A k \in 1..Len(q) : q[k].uid = uid
    BY RestShape
  <2>. QED
    BY <1>4, <2>1, <2>2
<1>. QED
  BY <1>8, <1>9

----------------------------------------------------------------------------
(* Whatever the receiver does with a frame, the bus keeps its invariant.   *)
LEMMA BusStarts == BusInit => BusInv /\ GroupsInv
BY BusAssumption DEF BusInit, BusInv, GroupsInv, Followed

LEMMA BeginKeepsBusInv ==
  ASSUME BusInv, NEW s \in Sender, NEW m \in Message, NEW uid \in GroupUid, Begin(s, m, uid)
  PROVE  BusInv'
<1>1. Len(messages) \in Nat /\ Len(messages) < MaxMessages /\ MaxMessages \in Nat
  BY BusAssumption DEF BusInv, Begin
<1>2. m.size \in Nat
  BY BusAssumption
<1>3. messages' \in Seq(Nat) /\ Len(messages') = Len(messages) + 1
  BY <1>2 DEF BusInv, Begin
<1>. DEFINE n == Len(messages')
            q == FramesOf(m, uid, n)
<1>4. n \in 1..MaxMessages
  BY <1>1, <1>3
<1>5. q \in Seq(Frames) /\ Followed(q)
  BY <1>4, FramesOfShape
<1>6. queue' = [queue EXCEPT ![s] = q]
  BY DEF Begin
<1>. HIDE DEF q
<1>7. queue' \in [Sender -> Seq(Frames)]
  BY <1>5, <1>6 DEF BusInv
<1>8. \A t \in Sender : Followed(queue'[t])
  BY <1>5, <1>6 DEF BusInv
<1>9. disturbed' \subseteq GroupUid \cup {INVALID}
  BY DEF BusInv, Begin
<1>. QED
  BY <1>3, <1>4, <1>7, <1>8, <1>9 DEF BusInv

LEMMA HeadTaken ==
  ASSUME BusInv, NEW s \in Sender, queue[s] # <<>>, queue' = [queue EXCEPT ![s] = Tail(@)]
  PROVE  /\ queue' \in [Sender -> Seq(Frames)]
         /\ \A t \in Sender : Followed(queue'[t])
         /\ Head(queue[s]) \in Frames /\ Head(queue[s]) = queue[s][1]
<1>1. queue[s] \in Seq(Frames) /\ Followed(queue[s])
  BY DEF BusInv
<1>2. Tail(queue[s]) \in Seq(Frames) /\ Followed(Tail(queue[s]))
  BY <1>1, TailFacts, TailFollowed
<1>3. Head(queue[s]) \in Frames /\ Head(queue[s]) = queue[s][1]
  BY <1>1, TailFacts
<1>. QED
  BY <1>2, <1>3 DEF BusInv

LEMMA LoseKeepsBusInv ==
  ASSUME BusInv, NEW s \in Sender, Lose(s)
  PROVE  BusInv'
<1>1. queue[s] # <<>> /\ queue' = [queue EXCEPT ![s] = Tail(@)] /\ messages' = messages
  BY DEF Lose
<1>2. Head(queue[s]).uid \in GroupUid \cup {INVALID}
  BY <1>1, HeadTaken DEF Frames
<1>3. disturbed' \subseteq GroupUid \cup {INVALID}
  BY <1>2 DEF Lose, BusInv
<1>. QED
  BY <1>1, <1>3, HeadTaken DEF BusInv

LEMMA GetsThroughKeepsBusInv ==
  ASSUME BusInv, NEW s \in Sender, GetsThrough(s)
  PROVE  BusInv'
<1>1. queue[s] # <<>> /\ queue' = [queue EXCEPT ![s] = Tail(@)] /\ messages' = messages
  BY DEF GetsThrough
<1>2. disturbed' \subseteq disturbed
  BY DEF GetsThrough
<1>. QED
  BY <1>1, <1>2, HeadTaken DEF BusInv

(* A frame that gets through is no longer in its queue; a full one is      *)
(* followed by another of its group.                                       *)
LEMMA FrameTakenIn ==
  ASSUME BusInv, NEW s \in Sender, GetsThrough(s)
  PROVE  /\ Head(queue[s]) = queue[s][1] /\ Head(queue[s]) \in Frames
         /\ queue[s] # <<>> /\ queue' = [queue EXCEPT ![s] = Tail(@)]
         /\ queue'[s] = Tail(queue[s])
         /\ \A t \in Sender \ {s} : queue'[t] = queue[t]
         /\ Head(queue[s]).dlc = 8 =>
                Head(queue[s]).uid \in UidsIn(queue') \cap GroupUid
<1>. DEFINE q == queue[s]
<1>1. q # <<>> /\ queue' = [queue EXCEPT ![s] = Tail(@)]
  BY DEF GetsThrough
<1>2. /\ queue'[s] = Tail(q) /\ \A t \in Sender \ {s} : queue'[t] = queue[t]
      /\ q \in Seq(Frames) /\ Followed(q)
  BY <1>1 DEF BusInv
<1>. HIDE DEF q
<1>3. Head(q) = q[1] /\ Head(q) \in Frames
  BY <1>1, <1>2, TailFacts
<1>4. ASSUME Head(q).dlc = 8 PROVE Head(q).uid \in UidsIn(queue') \cap GroupUid
  <2>1. 1 \in DOMAIN q
    BY <1>1, <1>2, EmptySeq
  <2>2. 2 \in DOMAIN q /\ q[2].uid = q[1].uid
    BY <1>2, <1>3, <1>4, <2>1 DEF Followed
  <2>3. 1 \in DOMAIN Tail(q) /\ Tail(q)[1] = q[2]
    BY <1>1, <1>2, <2>2, TailFacts
  <2>4. 1 \in DOMAIN queue'[s] /\ queue'[s][1].uid = Head(q).uid
    BY <1>2, <1>3, <2>2, <2>3
  <2>5. Head(q).uid \in UidsIn(queue')
    BY <2>4 DEF UidsIn
  <2>. QED
    BY <1>3, <1>4, <2>5 DEF Frames
<1>. QED
  BY <1>1, <1>2, <1>3, <1>4 DEF q

LEMMA UidsAfterBegin ==
  ASSUME BusInv, NEW s \in Sender, NEW m \in Message, NEW uid \in GroupUid, Begin(s, m, uid)
  PROVE  UidsIn(queue) \subseteq UidsIn(queue')
<1>1. ASSUME NEW t \in Sender, NEW k \in DOMAIN queue[t]
      PROVE  k \in DOMAIN queue'[t] /\ queue'[t][k].uid = queue[t][k].uid
  <2>1. t # s
    BY <1>1 DEF Begin
  <2>. QED
    BY <2>1 DEF Begin, BusInv
<1>. QED
  BY <1>1 DEF UidsIn

LEMMA UidsAfterHead ==
  ASSUME BusInv, NEW s \in Sender, queue[s] # <<>>, queue' = [queue EXCEPT ![s] = Tail(@)]
  PROVE  UidsIn(queue) \subseteq UidsIn(queue') \cup {Head(queue[s]).uid}
<1>. DEFINE q == queue[s]
<1>1. /\ queue'[s] = Tail(q) /\ \A t \in Sender \ {s} : queue'[t] = queue[t]
      /\ q \in Seq(Frames) /\ q # <<>>
  BY DEF BusInv
<1>. HIDE DEF q
<1>2. ASSUME NEW k \in DOMAIN q, k # 1
      PROVE  k - 1 \in DOMAIN queue'[s] /\ queue'[s][k - 1] = q[k]
  BY <1>1, <1>2, TailFacts
<1>3. ASSUME NEW t \in Sender, NEW k \in DOMAIN queue[t]
      PROVE  queue[t][k].uid \in UidsIn(queue') \cup {Head(queue[s]).uid}
  <2>1. CASE t # s
    BY <1>1, <1>3, <2>1 DEF UidsIn
  <2>2. CASE t = s /\ k = 1
    BY <1>1, <2>2, TailFacts DEF q
  <2>3. CASE t = s /\ k # 1
    <3>1. queue[t][k] = queue'[s][k - 1] /\ k - 1 \in DOMAIN queue'[s]
      BY <1>2, <1>3, <2>3 DEF q
    <3>. QED
      BY <3>1 DEF UidsIn
  <2>. QED
    BY <2>1, <2>2, <2>3
<1>. QED
  BY <1>3 DEF UidsIn

LEMMA BusInvGivesType ==
  ASSUME BusInv, parsed.message \in 0..MaxMessages
  PROVE  BusType
<1>1. ASSUME NEW s \in Sender, NEW k \in DOMAIN queue[s]
      PROVE  queue[s][k].dlc \in 0..8 /\ queue[s][k].uid \in GroupUid \cup {INVALID}
  <2>1. queue[s] \in Seq(Frames)
    BY DEF BusInv
  <2>2. queue[s][k] \in Frames
    BY <2>1
  <2>. QED
    BY <2>2 DEF Frames
<1>. QED
  BY <1>1 DEF BusInv, BusType

----------------------------------------------------------------------------
LEMMA BeginKeepsGroups ==
  ASSUME BusInv, GroupsInv, NoneByCanManager, NEW s \in Sender, NEW m \in Message,
         NEW uid \in GroupUid, Begin(s, m, uid)
  PROVE  GroupsInv'
<1>. DEFINE N == Len(messages) + 1
            q == FramesOf(m, uid, N)
<1>1. /\ N \in 1..MaxMessages /\ Len(messages) \in Nat
      /\ messages' \in Seq(Nat) /\ Len(messages') = N /\ messages'[N] = m.size
      /\ \A n \in 1..Len(messages) : messages'[n] = messages[n]
  BY BusAssumption DEF BusInv, Begin
<1>2. queue' = [queue EXCEPT ![s] = q] /\ queue[s] = <<>>
  BY <1>1 DEF Begin
<1>3. PICK size \in Nat : m.size <= size /\ Rest(q, N, uid, size, 0)
  BY <1>1, FramesOfShape DEF NoneByCanManager
<1>. HIDE DEF q
<1>4. q # <<>> /\ q[1].uid = uid
  <2>1. q \in Seq(Frames) /\ q # <<>>
    BY <1>1, <1>3, RestShape
  <2>2. 1 \in 1..Len(q)
    BY <2>1, EmptySeq
  <2>. QED
    BY <1>1, <1>3, <2>1, <2>2, RestShape
<1>5. queue'[s] = q /\ \A t \in Sender \ {s} : queue'[t] = queue[t]
  BY <1>2 DEF BusInv
<1>6. ASSUME NEW t \in Sender, queue'[t] # <<>>
      PROVE  \E n \in 1..Len(messages'), u \in GroupUid, z \in Nat, j \in Nat :
                messages'[n] <= z /\ Rest(queue'[t], n, u, z, j)
  <2>1. CASE t = s
    <3>1. messages'[N] <= size /\ Rest(queue'[t], N, uid, size, 0)
      BY <1>1, <1>3, <1>5, <2>1
    <3>. QED
      BY <1>1, <3>1
  <2>2. CASE t # s
    BY <1>1, <1>5, <1>6, <2>2 DEF GroupsInv
  <2>. QED
    BY <2>1, <2>2
<1>7. ASSUME NEW t \in Sender, t # s, queue'[t] # <<>>, queue'[t][1].uid = uid
      PROVE  uid \in disturbed'
  <2>1. queue[t] \in Seq(Frames) /\ queue[t] # <<>>
    BY <1>5, <1>7 DEF BusInv
  <2>2. 1 \in DOMAIN queue[t]
    BY <2>1, EmptySeq
  <2>3. uid \in UidsIn(queue)
    BY <1>5, <1>7, <2>2 DEF UidsIn
  <2>. QED
    BY <2>3 DEF Begin
<1>8. disturbed \subseteq disturbed'
  BY DEF Begin
<1>9. ASSUME NEW t \in Sender, NEW r \in Sender, t # r, queue'[t] # <<>>, queue'[r] # <<>>,
             queue'[t][1].uid = queue'[r][1].uid
      PROVE  queue'[t][1].uid \in disturbed'
  BY <1>4, <1>5, <1>7, <1>8, <1>9 DEF GroupsInv
<1>. QED
  BY <1>6, <1>9 DEF GroupsInv

(* The first frame of what is left: it holds the bytes behind those of the *)
(* frames before it, to the last that it completes.                        *)
LastByte(f, size, j) == IF f.dlc = 8 THEN 7 * (j + 1) ELSE size

IsHead(f, q, n, uid, size, j) ==
    LET last == LastByte(f, size, j) IN
    /\ f.uid = uid /\ f.message = n
    /\ f.dlc = 8 => Len(q) > 1
    /\ f.dlc # 8 => Len(q) = 1
    /\ last \in Nat /\ 7 * j <= last
    /\ f.bytes = Bytes(n, 7 * j + 1, last)
    /\ f.dlc = last - 7 * j + 1

LEMMA HeadOfRest ==
  ASSUME NEW q, NEW n \in 1..MaxMessages, NEW uid \in GroupUid, NEW size \in Nat,
         NEW j \in Nat, Rest(q, n, uid, size, j), NEW f, f = q[1]
  PROVE  IsHead(f, q, n, uid, size, j)
<1>. DEFINE d == size \div 7
            last == LastByte(f, size, j)
<1>1. q \in Seq(Frames) /\ q # <<>>
  BY RestShape
<1>2. d \in Nat /\ 7 * d <= size /\ size < 7 * d + 7 /\ j \in 0..d
  BY DivSeven DEF Rest
<1>3. 1 \in 1..Len(q) /\ Len(q) \in Nat
  BY <1>1, EmptySeq
<1>4. /\ f.uid = uid /\ f.message = n
      /\ f.bytes = Bytes(n, 7 * (j + 1) - 6, AtMost(7 * (j + 1), size))
      /\ f.dlc = 8 <=> 1 < Len(q)
      /\ f.dlc = Len(f.bytes) + 1
      /\ Len(q) = d + 1 - j
  <2>1. Len(q) = d + 1 - j
    <3>1. q = [k \in 1..(d + 1 - j) |->
                Frame(uid, n, Bytes(n, 7 * (j + k) - 6, AtMost(7 * (j + k), size)))]
      BY DEF Rest
    <3>2. d + 1 - j \in Nat
      BY <1>2
    <3>. HIDE DEF d
    <3>. QED
      BY <3>1, <3>2
  <2>2. ASSUME NEW k \in 1..Len(q)
        PROVE  /\ q[k].uid = uid /\ q[k].message = n
               /\ q[k].bytes = Bytes(n, 7 * (j + k) - 6, AtMost(7 * (j + k), size))
               /\ q[k].dlc = 8 <=> k < Len(q)
               /\ q[k].dlc = Len(q[k].bytes) + 1
    BY RestShape
  <2>. QED
    BY <1>3, <2>1, <2>2
<1>. HIDE DEF d
<1>5. AtMost(7 * (j + 1), size) = last /\ 7 * j <= last /\ last \in Nat
  <2>1. CASE f.dlc = 8
    <3>1. j + 1 <= d
      BY <1>2, <1>4, <2>1
    <3>2. 7 * (j + 1) <= size
      BY <1>2, <3>1
    <3>. QED
      BY <2>1, <3>2 DEF AtMost, LastByte
  <2>2. CASE f.dlc # 8
    <3>1. j = d
      BY <1>2, <1>3, <1>4, <2>2
    <3>. QED
      BY <1>2, <2>2, <3>1 DEF AtMost, LastByte
  <2>. QED
    BY <2>1, <2>2
<1>. HIDE DEF last
<1>6. f.bytes = Bytes(n, 7 * j + 1, last)
  <2>1. 7 * (j + 1) - 6 = 7 * j + 1
    OBVIOUS
  <2>. QED
    BY <1>4, <1>5, <2>1
<1>7. Len(f.bytes) = last - 7 * j
  <2>. DEFINE first == 7 * j + 1
  <2>1. first \in Nat /\ first <= last + 1 /\ last - first + 1 = last - 7 * j
    BY <1>5
  <2>. HIDE DEF first
  <2>2. Len(Bytes(n, first, last)) = last - first + 1
    BY <1>5, <2>1, BytesType
  <2>. QED
    BY <1>6, <2>1, <2>2 DEF first
<1>8. (f.dlc = 8 => Len(q) > 1) /\ (f.dlc # 8 => Len(q) = 1)
  BY <1>3, <1>4
<1>. QED
  <2>1. f.dlc = last - 7 * j + 1
    BY <1>4, <1>7
  <2>. QED
    BY <1>4, <1>5, <1>6, <1>8, <2>1 DEF last, IsHead

(* Only the last frame of a queue is not full. *)
LEMMA HeadOfGroupIsFull ==
  ASSUME BusInv, GroupsInv, NEW s \in Sender, queue[s] # <<>>, Len(queue[s]) > 1
  PROVE  queue[s][1].dlc = 8
<1>1. PICK n \in 1..Len(messages), uid \in GroupUid, size \in Nat, j \in Nat :
        Rest(queue[s], n, uid, size, j)
  BY DEF GroupsInv
<1>. DEFINE q == queue[s]
<1>2. n \in 1..MaxMessages /\ Rest(q, n, uid, size, j) /\ Len(q) > 1
  BY <1>1, BusAssumption DEF BusInv
<1>. HIDE DEF q
<1>3. PICK f : f = q[1]
  OBVIOUS
<1>4. IsHead(f, q, n, uid, size, j)
  BY <1>2, <1>3, HeadOfRest
<1>5. q[1].dlc = 8
  <2>1. Len(q) \in Nat
    BY <1>2, RestShape
  <2>2. Len(q) # 1
    <3>. DEFINE L == Len(q)
    <3>1. L \in Nat /\ L > 1
      BY <1>2, <2>1
    <3>. HIDE DEF L
    <3>2. L # 1
      BY <3>1
    <3>. QED
      BY <3>2 DEF L
  <2>. QED
    BY <1>3, <1>4, <2>2 DEF IsHead
<1>. QED
  BY <1>5 DEF q

(* The head of one queue is taken. *)
LEMMA HeadTakenGroups ==
  ASSUME BusInv, GroupsInv, NEW s \in Sender, queue[s] # <<>>,
         queue' = [queue EXCEPT ![s] = Tail(@)], messages' = messages
  PROVE  /\ \A t \in Sender : queue'[t] # <<>> =>
             \E n \in 1..Len(messages'), uid \in GroupUid, size \in Nat, j \in Nat :
                messages'[n] <= size /\ Rest(queue'[t], n, uid, size, j)
         /\ \A t \in Sender : queue'[t] # <<>> =>
             queue[t] # <<>> /\ queue'[t][1].uid = queue[t][1].uid
<1>1. queue'[s] = Tail(queue[s]) /\ \A t \in Sender \ {s} : queue'[t] = queue[t]
  BY DEF BusInv
<1>2. PICK n \in 1..Len(messages), uid \in GroupUid, size \in Nat, j \in Nat :
        messages[n] <= size /\ Rest(queue[s], n, uid, size, j)
  BY DEF GroupsInv
<1>. DEFINE q == queue[s]
<1>3. q \in Seq(Frames) /\ q # <<>> /\ n \in 1..MaxMessages /\ Rest(q, n, uid, size, j)
  BY <1>2, BusAssumption DEF BusInv
<1>. HIDE DEF q
<1>4. q[1].uid = uid
  <2>1. 1 \in 1..Len(q)
    BY <1>3, EmptySeq
  <2>2. \A k \in 1..Len(q) : q[k].uid = uid
    BY <1>3, RestShape
  <2>. QED
    BY <2>1, <2>2
<1>5. ASSUME queue'[s] # <<>>
      PROVE  Rest(queue'[s], n, uid, size, j + 1) /\ queue'[s][1].uid = uid
  <2>1. queue'[s] = Tail(q)
    BY <1>1 DEF q
  <2>. QED
    BY <1>3, <1>5, <2>1, TailRest
<1>6. j + 1 \in Nat
  OBVIOUS
<1>7. ASSUME NEW t \in Sender, queue'[t] # <<>>
      PROVE  \E n_1 \in 1..Len(messages'), u \in GroupUid, z \in Nat, j_1 \in Nat :
                messages'[n_1] <= z /\ Rest(queue'[t], n_1, u, z, j_1)
  <2>1. CASE t = s
    <3>1. messages'[n] <= size /\ Rest(queue'[t], n, uid, size, j + 1)
      BY <1>2, <1>5, <1>7, <2>1
    <3>. QED
      BY <1>6, <3>1
  <2>2. CASE t # s
    BY <1>1, <1>7, <2>2 DEF GroupsInv
  <2>. QED
    BY <2>1, <2>2
<1>8. ASSUME NEW t \in Sender, queue'[t] # <<>>
      PROVE  queue[t] # <<>> /\ queue'[t][1].uid = queue[t][1].uid
  BY <1>1, <1>4, <1>5, <1>8 DEF q
<1>. QED
  BY <1>7, <1>8

LEMMA LoseKeepsGroups ==
  ASSUME BusInv, GroupsInv, NEW s \in Sender, Lose(s)
  PROVE  GroupsInv'
<1>1. /\ queue[s] # <<>> /\ queue' = [queue EXCEPT ![s] = Tail(@)]
      /\ messages' = messages /\ disturbed \subseteq disturbed'
  BY DEF Lose
<1>. QED
  BY <1>1, HeadTakenGroups DEF GroupsInv

LEMMA GetsThroughKeepsGroups ==
  ASSUME BusInv, GroupsInv, NEW s \in Sender, GetsThrough(s)
  PROVE  GroupsInv'
<1>1. queue[s] # <<>> /\ queue' = [queue EXCEPT ![s] = Tail(@)] /\ messages' = messages
  BY DEF GetsThrough
<1>2. ASSUME NEW t \in Sender, queue'[t] # <<>>, queue[t][1].uid \in disturbed,
             queue[t][1].uid = queue'[t][1].uid
      PROVE  queue'[t][1].uid \in disturbed'
  <2>1. queue'[t] \in Seq(Frames)
    BY <1>1, HeadTaken
  <2>2. 1 \in DOMAIN queue'[t]
    BY <1>2, <2>1, EmptySeq
  <2>3. queue'[t][1].uid \in UidsIn(queue')
    BY <2>2 DEF UidsIn
  <2>. QED
    BY <1>2, <2>3 DEF GetsThrough
<1>3. /\ \A t \in Sender : queue'[t] # <<>> =>
          \E n \in 1..Len(messages'), uid \in GroupUid, size \in Nat, j \in Nat :
             messages'[n] <= size /\ Rest(queue'[t], n, uid, size, j)
      /\ \A t \in Sender : queue'[t] # <<>> =>
          queue[t] # <<>> /\ queue'[t][1].uid = queue[t][1].uid
  BY <1>1, HeadTakenGroups
<1>4. ASSUME NEW t \in Sender, NEW r \in Sender, t # r, queue'[t] # <<>>, queue'[r] # <<>>,
             queue'[t][1].uid = queue'[r][1].uid
      PROVE  queue'[t][1].uid \in disturbed'
  <2>1. queue[t][1].uid \in disturbed /\ queue[t][1].uid = queue'[t][1].uid
    BY <1>3, <1>4 DEF GroupsInv
  <2>. QED
    BY <1>2, <1>4, <2>1
<1>. QED
  BY <1>3, <1>4 DEF GroupsInv

(* The first bytes of a message are how the message with more begins.      *)
LEMMA ShorterIsPrefix ==
  ASSUME NEW n \in 1..MaxMessages, NEW short \in Nat, NEW long \in Nat, short <= long
  PROVE  IsPrefix(Bytes(n, 1, short), Bytes(n, 1, long))
<1>. DEFINE a == Bytes(n, 1, short)
            b == Bytes(n, 1, long)
<1>1. a = [i \in 1..short |-> <<n, i>>] /\ b = [i \in 1..long |-> <<n, i>>]
  BY DEF Bytes
<1>. HIDE DEF a, b
<1>2. Len(a) = short /\ Len(b) = long
  BY <1>1
<1>3. SubSeq(a, 1, short) = [i \in 1..short |-> <<n, i>>]
  BY <1>1
<1>4. SubSeq(b, 1, short) = [i \in 1..short |-> <<n, i>>]
  BY <1>1
<1>. QED
  BY <1>2, <1>3, <1>4 DEF IsPrefix, a, b
=============================================================================
