----------------------- MODULE ModuleLongFramesProofs -----------------------
(* A module puts long frames together: the theorems about ModuleLongFrames. *)
EXTENDS ModuleLongFrames, LongFrameBusProofs, WellFoundedInduction

(* The uid of the group a buffer holds, 0 of a free one. *)
UidOf(g) == Value(m_long_frame_buffer[g][0])

(* The types, whatever was received.  A buffer that is taken for free has  *)
(* room for a byte, so that its index is out of range at most once.        *)
TypeInv ==
    /\ BusInv
    /\ parsed.message \in 0..MaxMessages
    /\ refused \subseteq GroupUid \cup {INVALID}
    /\ \A g \in GroupIndex :
        /\ DOMAIN m_long_frame_buffer[g] = Position
        /\ m_long_frame_buffer_index[g] \in 0..(MAX_BYTES_PER_LF_GROUP + 7)
        /\ UidOf(g) = 0 => m_long_frame_buffer_index[g] \in Position

(* Until a group with uid 0 comes: a buffer begins with the uid of its     *)
(* group, no two with the same, and its index is behind a first full       *)
(* frame; a free one is at its beginning.                                  *)
GroupsHeldInv ==
    0 \notin refused =>
        /\ \A g \in GroupIndex :
            /\ m_long_frame_buffer[g][0] = Plain(UidOf(g))
            /\ UidOf(g) \in ({0} \cup UidsIn(queue) \cup disturbed) \ {ACKNOWLEDGEMENT}
            /\ UidOf(g) = 0 => m_long_frame_buffer_index[g] = 0
            /\ UidOf(g) # 0 => m_long_frame_buffer_index[g] \in 8..(MAX_BYTES_PER_LF_GROUP - 1)
        /\ \A g, h \in GroupIndex : UidOf(g) = UidOf(h) /\ UidOf(g) # 0 => g = h

----------------------------------------------------------------------------
Less == {p \in Nat \X Nat : p[1] < p[2]}

LEMMA LessIsWellFounded == IsWellFoundedOn(Less, Nat)
<1>1. IsWellFoundedOn(OpToRel(<, Nat), Nat)
  BY NatLessThanWellFounded
<1>2. OpToRel(<, Nat) = Less
  BY DEF OpToRel, Less
<1>. QED
  BY <1>1, <1>2

LEMMA LeastExists ==
  ASSUME NEW S, S \subseteq Nat, S # {}
  PROVE  \E x \in S : \A y \in S : x <= y
<1>1. PICK x \in S : \A y \in S : ~(<<y, x>> \in Less)
  BY LessIsWellFounded, WFMin
<1>2. ASSUME NEW y \in S, y < x PROVE FALSE
  <2>1. <<y, x>> \in Nat \X Nat /\ <<y, x>>[1] < <<y, x>>[2]
    BY <1>2
  <2>. QED
    BY <1>1, <2>1 DEF Less
<1>3. \A y \in S : x <= y
  BY <1>2
<1>. QED
  BY <1>3

LEMMA IndexFound ==
  ASSUME NEW uid
  PROVE  \/ /\ find_index_from_uid(uid) = NOT_FOUND
            /\ \A g \in GroupIndex : UidOf(g) # uid
         \/ /\ find_index_from_uid(uid) \in GroupIndex
            /\ UidOf(find_index_from_uid(uid)) = uid
<1>. DEFINE Holding == {g \in GroupIndex : Value(m_long_frame_buffer[g][0]) = uid}
<1>1. CASE Holding = {}
  BY <1>1 DEF find_index_from_uid, UidOf
<1>2. CASE Holding # {}
  <2>1. Holding \subseteq Nat
    BY DEF GroupIndex
  <2>2. \E g \in Holding : \A h \in Holding : g <= h
    BY <1>2, <2>1, LeastExists
  <2>3. find_index_from_uid(uid) = CHOOSE g \in Holding : \A h \in Holding : g <= h
    BY <1>2 DEF find_index_from_uid
  <2>4. find_index_from_uid(uid) \in Holding
    BY <2>2, <2>3
  <2>. QED
    BY <2>4 DEF UidOf
<1>. QED
  BY <1>1, <1>2

LEMMA NotFound == NOT_FOUND \notin GroupIndex /\ 0 \in Position
BY HandlerAssumption DEF NOT_FOUND, GroupIndex, Position

(* What append does: there is no buffer for the frame, it begins a group,  *)
(* there is no room for it, or it continues its group.                     *)
NoBuffer(f, a) ==
    /\ a.group = NOT_FOUND /\ a.stored = FALSE
    /\ \A g \in GroupIndex : UidOf(g) # f.uid

BeginsGroup(f, a) ==
    /\ a.group \in GroupIndex /\ UidOf(a.group) = 0 /\ f.uid # 0 /\ a.stored = TRUE
    /\ \A g \in GroupIndex : UidOf(g) # f.uid
    /\ a.buffer = memcpy(m_long_frame_buffer[a.group], 0, DataOf(f), 0, f.dlc)
    /\ a.index = m_long_frame_buffer_index[a.group] + 8

NoRoom(f, a) ==
    /\ a.group \in GroupIndex /\ UidOf(a.group) = f.uid /\ a.stored = FALSE
    /\ a.buffer = m_long_frame_buffer[a.group]
    /\ a.index = m_long_frame_buffer_index[a.group]

Continues(f, a) ==
    /\ a.group \in GroupIndex /\ UidOf(a.group) = f.uid /\ a.stored = TRUE
    /\ Fits(f, m_long_frame_buffer_index[a.group])
    /\ a.buffer = memcpy(m_long_frame_buffer[a.group], m_long_frame_buffer_index[a.group],
                         DataOf(f), 1, f.dlc)
    /\ a.index = IndexAfter(f, m_long_frame_buffer_index[a.group])

LEMMA AppendCases ==
  ASSUME NEW f
  PROVE  \/ NoBuffer(f, append(f))
         \/ BeginsGroup(f, append(f))
         \/ NoRoom(f, append(f))
         \/ Continues(f, append(f))
<1>. DEFINE held == find_index_from_uid(f.uid)
            free == find_free_buffer
<1>1. \/ held = NOT_FOUND /\ \A g \in GroupIndex : UidOf(g) # f.uid
      \/ held \in GroupIndex /\ UidOf(held) = f.uid
  BY IndexFound
<1>2. \/ free = NOT_FOUND
      \/ free \in GroupIndex /\ UidOf(free) = 0
  BY IndexFound DEF find_free_buffer
<1>3. NOT_FOUND \notin GroupIndex
  BY NotFound
<1>4. CASE held = NOT_FOUND /\ free = NOT_FOUND
  <2>1. append(f) = [group |-> NOT_FOUND, buffer |-> Empty, index |-> 0, stored |-> FALSE]
    BY <1>4 DEF append
  <2>. QED
    BY <1>1, <1>3, <1>4, <2>1 DEF NoBuffer
<1>5. CASE held = NOT_FOUND /\ free # NOT_FOUND
  <2>1. append(f) = [group |-> free,
                     buffer |-> memcpy(m_long_frame_buffer[free], 0, DataOf(f), 0, f.dlc),
                     index |-> m_long_frame_buffer_index[free] + 8, stored |-> TRUE]
    BY <1>5 DEF append
  <2>. HIDE DEF free, held
  <2>2. f.uid # 0
    BY <1>1, <1>2, <1>3, <1>5
  <2>. QED
    BY <1>1, <1>2, <1>3, <1>5, <2>1, <2>2 DEF BeginsGroup
<1>6. CASE held # NOT_FOUND /\ ~Fits(f, m_long_frame_buffer_index[held])
  <2>1. append(f) = [group |-> held, buffer |-> m_long_frame_buffer[held],
                     index |-> m_long_frame_buffer_index[held], stored |-> FALSE]
    BY <1>6 DEF append
  <2>. HIDE DEF free, held
  <2>. QED
    BY <1>1, <1>6, <2>1 DEF NoRoom
<1>7. CASE held # NOT_FOUND /\ Fits(f, m_long_frame_buffer_index[held])
  <2>1. append(f) = [group |-> held,
                     buffer |-> memcpy(m_long_frame_buffer[held],
                                       m_long_frame_buffer_index[held], DataOf(f), 1, f.dlc),
                     index |-> IndexAfter(f, m_long_frame_buffer_index[held]), stored |-> TRUE]
    BY <1>7 DEF append
  <2>. HIDE DEF free, held
  <2>. QED
    BY <1>1, <1>7, <2>1 DEF Continues
<1>. QED
  BY <1>4, <1>5, <1>6, <1>7

----------------------------------------------------------------------------
(* What is left of a frame that is no acknowledgement.                     *)
LEMMA HandleEffect ==
  ASSUME NEW s \in Sender, NEW f, NEW a, f = Head(queue[s]), a = append(f),
         f.uid # ACKNOWLEDGEMENT, f.dlc \in 0..8, handle_frame(s)
  PROVE  /\ GetsThrough(s)
         /\ refused' = RefusedAfter(f, a.stored)
         /\ \A g \in GroupIndex \ {a.group} :
                /\ m_long_frame_buffer'[g] = m_long_frame_buffer[g]
                /\ m_long_frame_buffer_index'[g] = m_long_frame_buffer_index[g]
         /\ a.group \in GroupIndex /\ f.dlc = 8 =>
                /\ m_long_frame_buffer'[a.group] = a.buffer
                /\ m_long_frame_buffer_index'[a.group] = a.index
         /\ a.group \in GroupIndex /\ f.dlc < 8 =>
                /\ m_long_frame_buffer'[a.group] = Empty
                /\ m_long_frame_buffer_index'[a.group] = 0
                /\ parsed' = [message |-> f.message, bytes |-> BytesGiven(a)]
         /\ a.group \notin GroupIndex \/ f.dlc = 8 =>
                parsed' = nothing \/ parsed'.message = f.message
<1>1. GetsThrough(s) /\ refused' = RefusedAfter(f, a.stored)
  BY DEF handle_frame
<1>2. NOT_FOUND \notin GroupIndex
  BY NotFound
<1>3. CASE f.dlc = 8 /\ SetGroup(a.group, a.buffer, a.index) /\ parsed' = nothing
  BY <1>1, <1>3 DEF SetGroup
<1>4. CASE /\ f.dlc < 8 /\ a.group # NOT_FOUND
           /\ parsed' = [message |-> f.message, bytes |-> BytesGiven(a)]
           /\ clear_data(a.group)
  BY <1>1, <1>4 DEF SetGroup, clear_data
<1>5. CASE /\ f.dlc < 8 /\ a.group = NOT_FOUND /\ parsed' = nothing
           /\ UNCHANGED <<m_long_frame_buffer, m_long_frame_buffer_index>>
  BY <1>1, <1>2, <1>5
<1>. QED
  BY <1>3, <1>4, <1>5 DEF handle_frame

LEMMA MemcpyResult ==
  ASSUME NEW buffer, NEW position, NEW data, NEW first, NEW count
  PROVE  /\ DOMAIN memcpy(buffer, position, data, first, count) = Position
         /\ \A p \in Position :
                memcpy(buffer, position, data, first, count)[p] =
                    IF p \in position..(position + count - 1) THEN data[first + p - position]
                    ELSE buffer[p]
BY DEF memcpy

LEMMA PlainValue ==
  /\ \A v : Value(Plain(v)) = v
  /\ \A v : Plain(v)[2] = v
  /\ Empty[0] = Plain(0) /\ DOMAIN Empty = Position
BY NotFound DEF Value, Plain, Empty

(* A frame that begins a group leaves its uid in the first byte; one that  *)
(* continues a group with bytes in it leaves that byte alone.              *)
LEMMA FirstByte ==
  ASSUME TypeInv, NEW f \in Frames, NEW a
  PROVE  /\ BeginsGroup(f, a) /\ f.dlc # 0 => a.buffer[0] = Plain(f.uid)
         /\ Continues(f, a) /\ m_long_frame_buffer_index[a.group] # 0 =>
                a.buffer[0] = m_long_frame_buffer[a.group][0]
         /\ BeginsGroup(f, a) \/ Continues(f, a) \/ NoRoom(f, a) => DOMAIN a.buffer = Position
<1>1. f.dlc \in 0..8 /\ 0 \in Position
  BY NotFound DEF Frames
<1>2. ASSUME BeginsGroup(f, a), f.dlc # 0 PROVE a.buffer[0] = Plain(f.uid)
  <2>1. 0 \in 0..(0 + f.dlc - 1) /\ 0 + 0 - 0 = 0
    BY <1>1, <1>2
  <2>2. a.buffer[0] = DataOf(f)[0]
    BY <1>1, <1>2, <2>1, MemcpyResult DEF BeginsGroup
  <2>. QED
    BY <2>2 DEF DataOf
<1>3. ASSUME Continues(f, a), m_long_frame_buffer_index[a.group] # 0
      PROVE  a.buffer[0] = m_long_frame_buffer[a.group][0]
  <2>. DEFINE i == m_long_frame_buffer_index[a.group]
  <2>1. i \in Nat \ {0}
    BY <1>3, HandlerAssumption DEF TypeInv, Continues
  <2>2. 0 \notin i..(i + f.dlc - 1)
    BY <1>1, <2>1
  <2>. HIDE DEF i
  <2>3. a.buffer = memcpy(m_long_frame_buffer[a.group], i, DataOf(f), 1, f.dlc)
    BY <1>3 DEF Continues, i
  <2>. QED
    BY <1>1, <2>2, <2>3, MemcpyResult
<1>4. BeginsGroup(f, a) \/ Continues(f, a) \/ NoRoom(f, a) => DOMAIN a.buffer = Position
  BY MemcpyResult DEF BeginsGroup, Continues, NoRoom, TypeInv
<1>. QED
  BY <1>2, <1>3, <1>4

----------------------------------------------------------------------------
LEMMA TypeInvStarts == Init => TypeInv /\ GroupsHeldInv
<1>. SUFFICES ASSUME Init PROVE TypeInv /\ GroupsHeldInv
  OBVIOUS
<1>1. BusInv /\ parsed.message \in 0..MaxMessages
  BY BusStarts, BusAssumption DEF Init, BusInit, nothing
<1>2. ASSUME NEW g \in GroupIndex
      PROVE  /\ m_long_frame_buffer[g] = Empty /\ m_long_frame_buffer_index[g] = 0
             /\ UidOf(g) = 0
  BY PlainValue DEF Init, UidOf
<1>3. 0 \in 0..(MAX_BYTES_PER_LF_GROUP + 7) /\ 0 \in Position /\ 0 # ACKNOWLEDGEMENT
  BY HandlerAssumption, NotFound DEF ACKNOWLEDGEMENT
<1>. QED
  BY <1>1, <1>2, <1>3, PlainValue DEF Init, TypeInv, GroupsHeldInv

LEMMA HandleKeepsType ==
  ASSUME TypeInv, NEW s \in Sender, handle_frame(s)
  PROVE  TypeInv'
<1>f. PICK f : f = Head(queue[s])
  OBVIOUS
<1>a. PICK a : a = append(f)
  OBVIOUS
<1>. DEFINE MAX == MAX_BYTES_PER_LF_GROUP
            index(g) == m_long_frame_buffer_index[g]
<1>1. GetsThrough(s) /\ BusInv /\ BusInv'
  BY GetsThroughKeepsBusInv DEF handle_frame, TypeInv
<1>2. f \in Frames
  BY <1>1, <1>f, FrameTakenIn
<1>3. /\ f.dlc \in 0..8 /\ f.message \in 1..MaxMessages
      /\ f.uid \in GroupUid \cup {INVALID}
  BY <1>2 DEF Frames
<1>4. CASE f.uid = ACKNOWLEDGEMENT
  <2>1. UNCHANGED handlerVars /\ parsed' = nothing
    BY <1>4, <1>f DEF handle_frame
  <2>2. parsed'.message \in 0..MaxMessages
    BY <2>1, BusAssumption DEF nothing
  <2>. QED
    BY <1>1, <2>1, <2>2 DEF handlerVars, TypeInv, UidOf
<1>5. CASE f.uid # ACKNOWLEDGEMENT
  <2>1. /\ refused' = RefusedAfter(f, a.stored)
        /\ \A g \in GroupIndex \ {a.group} :
            m_long_frame_buffer'[g] = m_long_frame_buffer[g] /\ index(g)' = index(g)
        /\ a.group \in GroupIndex /\ f.dlc = 8 =>
            m_long_frame_buffer'[a.group] = a.buffer /\ index(a.group)' = a.index
        /\ a.group \in GroupIndex /\ f.dlc < 8 =>
            /\ m_long_frame_buffer'[a.group] = Empty /\ index(a.group)' = 0
            /\ parsed'.message = f.message
        /\ a.group \notin GroupIndex \/ f.dlc = 8 =>
            parsed' = nothing \/ parsed'.message = f.message
    BY <1>3, <1>5, <1>f, <1>a, HandleEffect
  <2>2. parsed'.message \in 0..MaxMessages
    BY <1>3, <2>1, BusAssumption DEF nothing
  <2>3. refused' \subseteq GroupUid \cup {INVALID}
    BY <1>3, <2>1 DEF TypeInv, RefusedAfter
  <2>4. ASSUME NEW g \in GroupIndex, m_long_frame_buffer'[g] = m_long_frame_buffer[g],
               index(g)' = index(g)
        PROVE  /\ DOMAIN m_long_frame_buffer'[g] = Position /\ index(g)' \in 0..(MAX + 7)
               /\ UidOf(g)' = 0 => index(g)' \in Position
    BY <2>4 DEF TypeInv, UidOf
  <2>5. ASSUME a.group \in GroupIndex
        PROVE  /\ DOMAIN m_long_frame_buffer'[a.group] = Position
               /\ index(a.group)' \in 0..(MAX + 7)
               /\ UidOf(a.group)' = 0 => index(a.group)' \in Position
    <3>1. CASE f.dlc < 8
      BY <2>1, <2>5, <3>1, HandlerAssumption, NotFound, PlainValue
    <3>2. CASE f.dlc = 8 /\ NoRoom(f, a)
      BY <2>1, <2>4, <2>5, <3>2 DEF NoRoom
    <3>3. CASE f.dlc = 8 /\ BeginsGroup(f, a)
      <4>1. UidOf(a.group)' = f.uid /\ f.uid # 0
        <5>1. a.buffer[0] = Plain(f.uid) /\ f.uid # 0
          <6>1. a.buffer[0] = Plain(f.uid)
            BY <1>2, <3>3, FirstByte
          <6>. QED
            BY <3>3, <6>1 DEF BeginsGroup
        <5>2. m_long_frame_buffer'[a.group][0] = Plain(f.uid)
          BY <2>1, <2>5, <3>3, <5>1
        <5>. QED
          BY <5>1, <5>2, PlainValue DEF UidOf
      <4>2. index(a.group) \in 0..(MAX - 1)
        BY <3>3 DEF TypeInv, BeginsGroup, Position
      <4>3. index(a.group)' \in 0..(MAX + 7)
        BY <2>1, <3>3, <4>2, HandlerAssumption DEF BeginsGroup
      <4>. QED
        BY <1>2, <2>1, <2>5, <3>3, <4>1, <4>3, FirstByte
    <3>4. CASE f.dlc = 8 /\ Continues(f, a)
      <4>1. index(a.group) \in 0..(MAX + 7) /\ index(a.group) + 8 <= MAX
        BY <2>5, <3>4 DEF TypeInv, Continues, Fits
      <4>2. index(a.group)' = index(a.group) + 7
        BY <2>1, <2>5, <3>4, <4>1 DEF Continues, IndexAfter
      <4>3. index(a.group)' \in 0..(MAX + 7) /\ index(a.group)' \in Position
        BY <4>1, <4>2, HandlerAssumption DEF Position
      <4>. QED
        BY <1>2, <2>1, <2>5, <3>4, <4>3, FirstByte
    <3>5. ~NoBuffer(f, a)
      BY <2>5, NotFound DEF NoBuffer
    <3>. QED
      BY <1>3, <3>1, <3>2, <3>3, <3>4, <3>5, <1>a, AppendCases
  <2>6. \A g \in GroupIndex :
            /\ DOMAIN m_long_frame_buffer'[g] = Position /\ index(g)' \in 0..(MAX + 7)
            /\ UidOf(g)' = 0 => index(g)' \in Position
    BY <2>1, <2>4, <2>5
  <2>. QED
    BY <1>1, <2>2, <2>3, <2>6 DEF TypeInv
<1>. QED
  BY <1>4, <1>5

(* How a step changes which group a buffer holds: it lets go of the group  *)
(* that ends, and takes in one that no buffer held.                        *)
LEMMA HandleKeepsGroups ==
  ASSUME TypeInv, GroupsHeldInv, NEW s \in Sender, handle_frame(s)
  PROVE  GroupsHeldInv'
<1>. SUFFICES ASSUME 0 \notin refused'
     PROVE  /\ \A g \in GroupIndex :
                /\ m_long_frame_buffer'[g][0] = Plain(UidOf(g)')
                /\ UidOf(g)' \in ({0} \cup UidsIn(queue') \cup disturbed') \ {ACKNOWLEDGEMENT}
                /\ UidOf(g)' = 0 => m_long_frame_buffer_index'[g] = 0
                /\ UidOf(g)' # 0 =>
                    m_long_frame_buffer_index'[g] \in 8..(MAX_BYTES_PER_LF_GROUP - 1)
            /\ \A g, h \in GroupIndex : UidOf(g)' = UidOf(h)' /\ UidOf(g)' # 0 => g = h
  BY DEF GroupsHeldInv
<1>f. PICK f : f = Head(queue[s])
  OBVIOUS
<1>a. PICK a : a = append(f)
  OBVIOUS
<1>. DEFINE MAX == MAX_BYTES_PER_LF_GROUP
            index(g) == m_long_frame_buffer_index[g]
<1>1. GetsThrough(s) /\ BusInv
  BY DEF handle_frame, TypeInv
<1>2. f \in Frames /\ f.dlc \in 0..8
  BY <1>1, <1>f, FrameTakenIn DEF Frames
<1>3. /\ UidsIn(queue) \subseteq UidsIn(queue') \cup {f.uid}
      /\ disturbed \subseteq disturbed' \cup {f.uid}
      /\ f.dlc = 8 => f.uid \in UidsIn(queue') /\ disturbed' = disturbed
  <2>1. UidsIn(queue) \subseteq UidsIn(queue') \cup {f.uid}
    BY <1>1, <1>f, FrameTakenIn, UidsAfterHead
  <2>2. f.dlc = 8 => f.uid \in UidsIn(queue')
    BY <1>1, <1>f, FrameTakenIn
  <2>3. disturbed \subseteq disturbed' \cup {f.uid} /\ (f.dlc = 8 => disturbed' = disturbed)
    BY <1>1, <1>f DEF GetsThrough
  <2>. QED
    BY <2>1, <2>2, <2>3
<1>4. CASE f.uid = ACKNOWLEDGEMENT
  <2>1. UNCHANGED handlerVars
    BY <1>4, <1>f DEF handle_frame
  <2>2. \A g \in GroupIndex : UidOf(g)' = UidOf(g)
    BY <2>1 DEF handlerVars, UidOf
  <2>. QED
    BY <1>3, <1>4, <2>1, <2>2 DEF handlerVars, GroupsHeldInv
<1>5. CASE f.uid # ACKNOWLEDGEMENT
  <2>1. /\ refused' = RefusedAfter(f, a.stored)
        /\ \A g \in GroupIndex \ {a.group} :
            m_long_frame_buffer'[g] = m_long_frame_buffer[g] /\ index(g)' = index(g)
        /\ a.group \in GroupIndex /\ f.dlc = 8 =>
            m_long_frame_buffer'[a.group] = a.buffer /\ index(a.group)' = a.index
        /\ a.group \in GroupIndex /\ f.dlc < 8 =>
            m_long_frame_buffer'[a.group] = Empty /\ index(a.group)' = 0
    BY <1>2, <1>5, <1>f, <1>a, HandleEffect
  <2>2. 0 \notin refused /\ f.uid # 0
    BY <2>1 DEF RefusedAfter
  <2>3. /\ \A g \in GroupIndex :
            /\ m_long_frame_buffer[g][0] = Plain(UidOf(g))
            /\ UidOf(g) \in ({0} \cup UidsIn(queue) \cup disturbed) \ {ACKNOWLEDGEMENT}
            /\ UidOf(g) = 0 => index(g) = 0
            /\ UidOf(g) # 0 => index(g) \in 8..(MAX - 1)
        /\ \A g, h \in GroupIndex : UidOf(g) = UidOf(h) /\ UidOf(g) # 0 => g = h
    BY <2>2 DEF GroupsHeldInv
  <2>4. \A g \in GroupIndex \ {a.group} : UidOf(g)' = UidOf(g)
    BY <2>1 DEF UidOf
  <2>5. \A g \in GroupIndex : UidOf(g) = f.uid => g = a.group
    BY <2>2, <2>3, <1>a, AppendCases DEF NoBuffer, BeginsGroup, NoRoom, Continues
  <2>6. ASSUME a.group \in GroupIndex, f.dlc < 8
        PROVE  /\ m_long_frame_buffer'[a.group][0] = Plain(UidOf(a.group)')
               /\ UidOf(a.group)' = 0 /\ index(a.group)' = 0
    BY <2>1, <2>6, PlainValue DEF UidOf
  <2>7. ASSUME a.group \in GroupIndex, f.dlc = 8
        PROVE  /\ m_long_frame_buffer'[a.group][0] = Plain(UidOf(a.group)')
               /\ UidOf(a.group)' = f.uid
               /\ index(a.group)' \in 8..(MAX - 1)
    <3>1. CASE BeginsGroup(f, a)
      <4>1. m_long_frame_buffer'[a.group][0] = Plain(f.uid)
        BY <1>2, <2>1, <2>7, <3>1, FirstByte
      <4>2. index(a.group)' = 8
        BY <2>1, <2>3, <2>7, <3>1 DEF BeginsGroup
      <4>3. UidOf(a.group)' = f.uid
        BY <4>1, PlainValue DEF UidOf
      <4>. QED
        BY <4>1, <4>2, <4>3, HandlerAssumption
    <3>2. CASE NoRoom(f, a)
      <4>1. /\ m_long_frame_buffer'[a.group] = m_long_frame_buffer[a.group]
            /\ index(a.group)' = index(a.group) /\ UidOf(a.group) = f.uid
        BY <2>1, <2>7, <3>2 DEF NoRoom
      <4>2. UidOf(a.group)' = f.uid
        BY <4>1 DEF UidOf
      <4>. QED
        BY <2>2, <2>3, <2>7, <4>1, <4>2
    <3>3. CASE Continues(f, a)
      <4>1. UidOf(a.group) = f.uid /\ index(a.group) \in 8..(MAX - 1) /\ index(a.group) + 8 <= MAX
        BY <2>2, <2>3, <2>7, <3>3 DEF Continues, Fits
      <4>2. m_long_frame_buffer'[a.group][0] = m_long_frame_buffer[a.group][0]
        BY <1>2, <2>1, <2>7, <3>3, <4>1, FirstByte
      <4>3. UidOf(a.group)' = f.uid
        BY <4>1, <4>2 DEF UidOf
      <4>4. index(a.group)' = index(a.group) + 7
        BY <2>1, <2>7, <3>3, <4>1 DEF Continues, IndexAfter
      <4>. QED
        BY <2>3, <2>7, <4>1, <4>2, <4>3, <4>4, HandlerAssumption
    <3>4. ~NoBuffer(f, a)
      BY <2>7, NotFound DEF NoBuffer
    <3>. QED
      BY <3>1, <3>2, <3>3, <3>4, <1>a, AppendCases
  <2>8. f.dlc = 8 \/ f.dlc < 8
    BY <1>2
  <2>9. ASSUME NEW g \in GroupIndex
        PROVE  /\ m_long_frame_buffer'[g][0] = Plain(UidOf(g)')
               /\ UidOf(g)' \in ({0} \cup UidsIn(queue') \cup disturbed') \ {ACKNOWLEDGEMENT}
               /\ UidOf(g)' = 0 => index(g)' = 0
               /\ UidOf(g)' # 0 => index(g)' \in 8..(MAX - 1)
    <3>1. CASE g # a.group
      BY <1>3, <2>1, <2>3, <2>4, <2>5, <3>1
    <3>2. CASE g = a.group /\ f.dlc < 8
      BY <2>6, <3>2 DEF ACKNOWLEDGEMENT
    <3>3. CASE g = a.group /\ f.dlc = 8
      BY <1>3, <1>5, <2>2, <2>7, <3>3
    <3>. QED
      BY <2>8, <3>1, <3>2, <3>3
  <2>10. ASSUME NEW g \in GroupIndex, NEW h \in GroupIndex, UidOf(g)' = UidOf(h)',
                UidOf(g)' # 0
         PROVE  g = h
    BY <2>3, <2>4, <2>5, <2>6, <2>7, <2>8, <2>10
  <2>. QED
    BY <2>9, <2>10
<1>. QED
  BY <1>4, <1>5

LEMMA NextKeepsType == TypeInv /\ GroupsHeldInv /\ [Next]_vars => TypeInv' /\ GroupsHeldInv'
<1>. SUFFICES ASSUME TypeInv, GroupsHeldInv, [Next]_vars PROVE TypeInv' /\ GroupsHeldInv'
  OBVIOUS
<1>1. BusInv
  BY DEF TypeInv
<1>2. ASSUME BusInv', parsed' = nothing, UNCHANGED handlerVars,
             UidsIn(queue) \cup disturbed \subseteq UidsIn(queue') \cup disturbed'
      PROVE  TypeInv' /\ GroupsHeldInv'
  <2>1. \A g \in GroupIndex : UidOf(g)' = UidOf(g)
    BY <1>2 DEF handlerVars, UidOf
  <2>2. parsed'.message \in 0..MaxMessages
    BY <1>2, BusAssumption DEF nothing
  <2>3. TypeInv'
    BY <1>2, <2>1, <2>2 DEF handlerVars, TypeInv
  <2>4. GroupsHeldInv'
    BY <1>2, <2>1 DEF handlerVars, GroupsHeldInv
  <2>. QED
    BY <2>3, <2>4
<1>3. ASSUME NEW s \in Sender, NEW m \in Message, NEW uid \in GroupUid,
             Begin(s, m, uid), UNCHANGED handlerVars
      PROVE  TypeInv' /\ GroupsHeldInv'
  <2>1. BusInv'
    BY <1>1, <1>3, BeginKeepsBusInv
  <2>2. UidsIn(queue) \subseteq UidsIn(queue')
    BY <1>1, <1>3, UidsAfterBegin
  <2>3. parsed' = nothing /\ disturbed \subseteq disturbed'
    BY <1>3 DEF Begin
  <2>. QED
    BY <1>2, <1>3, <2>1, <2>2, <2>3
<1>4. ASSUME NEW s \in Sender, Lose(s), UNCHANGED handlerVars PROVE TypeInv' /\ GroupsHeldInv'
  <2>1. BusInv'
    BY <1>1, <1>4, LoseKeepsBusInv
  <2>2. /\ queue[s] # <<>> /\ queue' = [queue EXCEPT ![s] = Tail(@)] /\ parsed' = nothing
        /\ disturbed' = disturbed \cup {Head(queue[s]).uid}
    BY <1>4 DEF Lose
  <2>3. UidsIn(queue) \subseteq UidsIn(queue') \cup {Head(queue[s]).uid}
    BY <1>1, <2>2, UidsAfterHead
  <2>. QED
    BY <1>2, <1>4, <2>1, <2>2, <2>3
<1>5. ASSUME NEW s \in Sender, handle_frame(s) PROVE TypeInv' /\ GroupsHeldInv'
  BY <1>5, HandleKeepsType, HandleKeepsGroups
<1>6. CASE UNCHANGED vars
  <2>1. /\ UNCHANGED <<queue, messages, disturbed, parsed, refused>>
        /\ UNCHANGED <<m_long_frame_buffer, m_long_frame_buffer_index>>
    BY <1>6 DEF vars
  <2>2. \A g \in GroupIndex : UidOf(g)' = UidOf(g)
    BY <2>1 DEF UidOf
  <2>. QED
    BY <1>1, <2>1, <2>2 DEF TypeInv, GroupsHeldInv, BusInv, UidsIn
<1>. QED
  BY <1>3, <1>4, <1>5, <1>6 DEF Next

(* The types hold for any senders, messages, uids and sizes of buffers:    *)
(* before a group with uid 0 comes, no index is past the end of its        *)
(* buffer; after that, none is more than 7 past it.                        *)
THEOREM TypeCorrect == Spec => []TypeOK
<1>1. TypeInv /\ GroupsHeldInv => TypeOK
  <2>. SUFFICES ASSUME TypeInv, GroupsHeldInv PROVE TypeOK
    OBVIOUS
  <2>1. BusType
    BY BusInvGivesType DEF TypeInv
  <2>2. ASSUME 0 \notin refused, NEW g \in GroupIndex
        PROVE  m_long_frame_buffer_index[g] \in Position
    BY <2>2, HandlerAssumption DEF TypeInv, GroupsHeldInv, Position
  <2>. QED
    BY <2>1, <2>2 DEF TypeInv, TypeOK
<1>. QED
  BY <1>1, TypeInvStarts, NextKeepsType, PTL DEF Spec

(* Only lost frames and mixed groups use up the buffers of a module, with  *)
(* any number of them and of senders: a group that ends gives its buffer   *)
(* back.                                                                   *)
THEOREM LeavesNothing == Spec => []NothingLeftBehind
<1>1. GroupsHeldInv => NothingLeftBehind
  BY DEF GroupsHeldInv, NothingLeftBehind, UidOf
<1>. QED
  BY <1>1, TypeInvStarts, NextKeepsType, PTL DEF Spec

----------------------------------------------------------------------------
(* A buffer holds the first k bytes of a message. *)
HoldsBytes(g, n, uid, k) ==
    /\ UidOf(g) = uid /\ m_long_frame_buffer_index[g] = k + 1
    /\ \A p \in 1..k : m_long_frame_buffer[g][p] = <<n, p>>

(* Of a group that nothing disturbs and of which no frame was refused, a   *)
(* buffer holds what was sent so far; before the first frame, none does.   *)
HeldOf(s, n, uid, size, j) ==
    /\ messages[n] <= size /\ Rest(queue[s], n, uid, size, j)
    /\ j = 0 => \A g \in GroupIndex : UidOf(g) # uid
    /\ j # 0 => \E g \in GroupIndex : HoldsBytes(g, n, uid, 7 * j)

Undisturbed(s) == queue[s][1].uid \notin disturbed \cup refused \cup {0, ACKNOWLEDGEMENT}

HeldInv ==
    0 \notin refused =>
        \A s \in Sender : queue[s] # <<>> /\ Undisturbed(s) =>
            \E n \in 1..Len(messages), uid \in GroupUid, size \in Nat, j \in Nat :
                HeldOf(s, n, uid, size, j)

FullInv == TypeInv /\ GroupsHeldInv /\ GroupsInv /\ HeldInv

(* What append leaves in the buffer of such a group: its bytes to the last *)
(* that the frame completes.                                               *)
StoresTo(a, n, last) ==
    /\ a.group \in GroupIndex /\ last < MAX_BYTES_PER_LF_GROUP
    /\ last < a.index
    /\ \A p \in 1..last : a.buffer[p] = <<n, p>>

LEMMA DataOfFrame ==
  ASSUME NEW f, NEW n \in 1..MaxMessages, NEW mid \in Nat, NEW last \in Nat, mid <= last,
         f.bytes = Bytes(n, mid + 1, last), f.dlc = last - mid + 1, f.dlc \in 0..8
  PROVE  \A i \in 1..(last - mid) : DataOf(f)[i] = <<n, mid + i>>
<1>. SUFFICES ASSUME NEW i \in 1..(last - mid) PROVE DataOf(f)[i] = <<n, mid + i>>
  OBVIOUS
<1>1. i \in 0..8 /\ i # 0 /\ i < f.dlc
  OBVIOUS
<1>2. DataOf(f)[i] = f.bytes[i]
  BY <1>1 DEF DataOf
<1>3. f.bytes[i] = <<n, mid + i>>
  <2>. DEFINE first == mid + 1
  <2>1. first \in Nat /\ first <= last + 1 /\ i \in 1..(last - first + 1) /\ first + i - 1 = mid + i
    OBVIOUS
  <2>. HIDE DEF first
  <2>2. Bytes(n, first, last)[i] = <<n, first + i - 1>>
    BY <2>1, BytesType
  <2>. QED
    BY <2>1, <2>2 DEF first
<1>. QED
  BY <1>2, <1>3

LEMMA BeginStores ==
  ASSUME TypeInv, GroupsHeldInv, 0 \notin refused, NEW f \in Frames, NEW a, BeginsGroup(f, a),
         NEW n \in 1..MaxMessages, NEW last \in Nat,
         f.bytes = Bytes(n, 1, last), f.dlc = last + 1
  PROVE  StoresTo(a, n, last) /\ a.index = 8
<1>. DEFINE buffer == m_long_frame_buffer[a.group]
<1>0. f.dlc \in 0..8
  BY DEF Frames
<1>1. f.dlc \in 0..8 /\ last \in 0..7
  BY <1>0
<1>2. /\ a.group \in GroupIndex /\ a.index = 8
      /\ a.buffer = memcpy(buffer, 0, DataOf(f), 0, f.dlc)
  BY DEF BeginsGroup, GroupsHeldInv
<1>. HIDE DEF buffer
<1>3. ASSUME NEW p \in 1..last PROVE a.buffer[p] = <<n, p>>
  <2>1. p \in Position /\ p \in 0..(0 + f.dlc - 1) /\ 0 + p - 0 = p
    BY <1>1, HandlerAssumption DEF Position
  <2>2. a.buffer[p] = DataOf(f)[p]
    BY <1>2, <2>1, MemcpyResult
  <2>3. \A i \in 1..(last - 0) : DataOf(f)[i] = <<n, 0 + i>>
    <3>1. 0 \in Nat /\ 0 <= last /\ 0 + 1 = 1 /\ last - 0 + 1 = last + 1
      OBVIOUS
    <3>. QED
      BY <1>1, <3>1, DataOfFrame
  <2>4. p \in 1..(last - 0) /\ 0 + p = p
    OBVIOUS
  <2>. QED
    BY <2>2, <2>3, <2>4
<1>4. last < MAX_BYTES_PER_LF_GROUP /\ last < a.index
  BY <1>1, <1>2, HandlerAssumption
<1>. QED
  BY <1>2, <1>3, <1>4 DEF StoresTo

LEMMA ContinueStores ==
  ASSUME TypeInv, NEW f \in Frames, NEW a, Continues(f, a),
         NEW n \in 1..MaxMessages, NEW mid \in Nat, NEW last \in Nat, mid <= last,
         HoldsBytes(a.group, n, f.uid, mid),
         f.bytes = Bytes(n, mid + 1, last), f.dlc = last - mid + 1
  PROVE  StoresTo(a, n, last) /\ a.index = last + 1
<1>. DEFINE buffer == m_long_frame_buffer[a.group]
            position == mid + 1
<1>1. f.dlc \in 0..8
  BY DEF Frames
<1>2. /\ a.group \in GroupIndex /\ a.index = position + f.dlc - 1
      /\ position + f.dlc <= MAX_BYTES_PER_LF_GROUP
      /\ a.buffer = memcpy(buffer, position, DataOf(f), 1, f.dlc)
  BY DEF Continues, HoldsBytes, Fits, IndexAfter
<1>3. \A p \in 1..mid : buffer[p] = <<n, p>>
  BY DEF HoldsBytes
<1>4. last + 2 <= MAX_BYTES_PER_LF_GROUP /\ a.index = last + 1
  BY <1>1, <1>2, HandlerAssumption
<1>. HIDE DEF buffer
<1>5. ASSUME NEW p \in 1..last PROVE a.buffer[p] = <<n, p>>
  <2>1. p \in Position
    BY <1>4, HandlerAssumption DEF Position
  <2>2. CASE p <= mid
    <3>1. p \notin position..(position + f.dlc - 1)
      BY <1>1, <2>2
    <3>2. a.buffer[p] = buffer[p]
      BY <1>2, <2>1, <3>1, MemcpyResult
    <3>. QED
      BY <1>3, <2>2, <3>2
  <2>3. CASE mid < p
    <3>1. p \in position..(position + f.dlc - 1)
      BY <1>1, <2>3
    <3>2. a.buffer[p] = DataOf(f)[1 + p - position]
      BY <1>2, <2>1, <3>1, MemcpyResult
    <3>3. PICK i \in 1..(last - mid) : 1 + p - position = i /\ mid + i = p
      <4>1. p - mid \in 1..(last - mid) /\ 1 + p - position = p - mid /\ mid + (p - mid) = p
        BY <2>3
      <4>. QED
        BY <4>1
    <3>4. DataOf(f)[i] = <<n, mid + i>>
      BY <1>1, DataOfFrame
    <3>. QED
      BY <3>2, <3>3, <3>4
  <2>. QED
    BY <2>2, <2>3
<1>. QED
  BY <1>2, <1>4, <1>5, HandlerAssumption DEF StoresTo

(* What HeadOfRest says of such a frame, and what append does with it. *)
IsStored(f, a, s, n, uid, size, j) ==
    /\ n \in 1..MaxMessages /\ f.uid = uid /\ f.message = n
    /\ f.dlc = 8 => Len(queue[s]) > 1
    /\ f.dlc # 8 => Len(queue[s]) = 1
    /\ StoresTo(a, n, LastByte(f, size, j))
    /\ f.dlc = 8 => a.index = 7 * (j + 1) + 1

(* The frame at the head of such a group is stored behind those before it. *)
LEMMA HeadStored ==
  ASSUME FullInv, 0 \notin refused, NEW s \in Sender, queue[s] # <<>>, Undisturbed(s),
         NEW f, f = Head(queue[s]), NEW a, BeginsGroup(f, a) \/ Continues(f, a),
         NEW n \in 1..Len(messages), NEW uid \in GroupUid, NEW size \in Nat, NEW j \in Nat,
         HeldOf(s, n, uid, size, j)
  PROVE  IsStored(f, a, s, n, uid, size, j)
<1>. USE DEF FullInv
<1>. DEFINE q == queue[s]
            last == LastByte(f, size, j)
            mid == 7 * j
<1>1. q \in Seq(Frames) /\ q # <<>> /\ n \in 1..MaxMessages /\ Rest(q, n, uid, size, j)
  BY BusAssumption DEF TypeInv, BusInv, HeldOf
<1>. HIDE DEF q
<1>3. f = q[1] /\ f \in Frames
  BY <1>1, TailFacts DEF q
<1>4. /\ f.uid = uid /\ f.message = n
      /\ f.dlc = 8 => Len(q) > 1
      /\ f.dlc # 8 => Len(q) = 1
      /\ last \in Nat /\ mid <= last /\ mid \in Nat
      /\ f.bytes = Bytes(n, mid + 1, last) /\ f.dlc = last - mid + 1
  <2>1. IsHead(f, q, n, uid, size, j)
    BY <1>1, <1>3, HeadOfRest
  <2>2. mid \in Nat
    OBVIOUS
  <2>. QED
    BY <2>1, <2>2 DEF IsHead
<1>5. uid # 0
  BY <1>3, <1>4 DEF Undisturbed, q
<1>6. f.dlc = 8 => last = 7 * (j + 1)
  BY DEF LastByte
<1>7. CASE j = 0
  <2>1. \A g \in GroupIndex : UidOf(g) # f.uid
    BY <1>4, <1>7 DEF HeldOf
  <2>2. BeginsGroup(f, a)
    BY <2>1 DEF Continues
  <2>3. mid = 0
    BY <1>7
  <2>. HIDE DEF last, mid
  <2>4. f.bytes = Bytes(n, 1, last) /\ f.dlc = last + 1
    BY <1>4, <2>3
  <2>5. StoresTo(a, n, last) /\ a.index = 8
    BY <1>1, <1>3, <1>4, <2>2, <2>4, BeginStores
  <2>. QED
    BY <1>1, <1>4, <1>7, <2>5 DEF q, last, IsStored
<1>8. CASE j # 0
  <2>1. PICK g \in GroupIndex : HoldsBytes(g, n, uid, mid)
    BY <1>8 DEF HeldOf
  <2>2. UidOf(g) = f.uid
    BY <1>4, <2>1 DEF HoldsBytes
  <2>3. Continues(f, a)
    BY <2>2 DEF BeginsGroup
  <2>4. a.group = g
    BY <1>4, <1>5, <2>2, <2>3 DEF Continues, GroupsHeldInv
  <2>. HIDE DEF last, mid
  <2>5. StoresTo(a, n, last) /\ a.index = last + 1
    BY <1>1, <1>3, <1>4, <2>1, <2>3, <2>4, ContinueStores
  <2>. QED
    BY <1>1, <1>4, <1>6, <2>5 DEF q, last, IsStored
<1>. QED
  BY <1>7, <1>8

LEMMA BeginKeepsHeld ==
  ASSUME FullInv, NoneByCanManager, NEW s \in Sender, NEW m \in Message, NEW uid \in GroupUid,
         Begin(s, m, uid), UNCHANGED handlerVars
  PROVE  HeldInv'
<1>. USE DEF FullInv
<1>. SUFFICES ASSUME 0 \notin refused,
                     NEW t \in Sender, queue'[t] # <<>>, Undisturbed(t)'
              PROVE  \E n \in 1..Len(messages'), u \in GroupUid, z \in Nat, j \in Nat :
                        HeldOf(t, n, u, z, j)'
  BY DEF HeldInv, handlerVars
<1>0. PICK N \in 1..MaxMessages : N = Len(messages')
  BY BusAssumption DEF TypeInv, BusInv, Begin
<1>. DEFINE q == FramesOf(m, uid, N)
<1>1. /\ Len(messages') = N /\ messages'[N] = m.size
      /\ \A n \in 1..Len(messages) : n \in 1..N /\ messages'[n] = messages[n]
  BY <1>0, BusAssumption DEF TypeInv, BusInv, Begin
<1>2. queue' = [queue EXCEPT ![s] = q] /\ queue[s] = <<>>
  BY <1>1 DEF Begin
<1>3. queue'[s] = q /\ \A r \in Sender \ {s} : queue'[r] = queue[r]
  BY <1>2 DEF TypeInv, BusInv
<1>4. PICK size \in Nat : m.size <= size /\ Rest(q, N, uid, size, 0)
  BY <1>1, FramesOfShape DEF NoneByCanManager
<1>. HIDE DEF q
<1>5. q[1].uid = uid
  <2>1. q \in Seq(Frames) /\ q # <<>>
    BY <1>1, <1>4, RestShape
  <2>2. 1 \in 1..Len(q)
    BY <2>1, EmptySeq
  <2>3. \A k \in 1..Len(q) : q[k].uid = uid
    BY <1>1, <1>4, RestShape
  <2>. QED
    BY <2>2, <2>3
<1>6. disturbed \subseteq disturbed' /\ (uid \notin disturbed' => uid \notin UidsIn(queue))
  BY DEF Begin
<1>7. \A g \in GroupIndex : UidOf(g)' = UidOf(g)
  BY DEF UidOf, handlerVars
<1>8. CASE t = s
  <2>1. uid \notin disturbed' /\ uid # 0
    BY <1>3, <1>5, <1>8 DEF Undisturbed
  <2>2. \A g \in GroupIndex : UidOf(g) # uid
    BY <1>6, <2>1 DEF GroupsHeldInv
  <2>3. HeldOf(t, N, uid, size, 0)'
    BY <1>1, <1>3, <1>4, <1>7, <1>8, <2>2 DEF HeldOf
  <2>. QED
    BY <1>1, <2>3
<1>9. CASE t # s
  <2>1. queue'[t] = queue[t] /\ Undisturbed(t)
    BY <1>3, <1>6, <1>9 DEF Undisturbed, handlerVars
  <2>2. PICK n \in 1..Len(messages), u \in GroupUid, z \in Nat, j \in Nat :
          HeldOf(t, n, u, z, j)
    BY <2>1 DEF HeldInv
  <2>3. HeldOf(t, n, u, z, j)'
    BY <1>1, <1>7, <2>1, <2>2 DEF HeldOf, HoldsBytes, handlerVars
  <2>. QED
    BY <1>1, <2>3
<1>. QED
  BY <1>8, <1>9

LEMMA LoseKeepsHeld ==
  ASSUME FullInv, NEW s \in Sender, Lose(s), UNCHANGED handlerVars
  PROVE  HeldInv'
<1>. USE DEF FullInv
<1>. SUFFICES ASSUME 0 \notin refused,
                     NEW t \in Sender, queue'[t] # <<>>, Undisturbed(t)'
              PROVE  \E n \in 1..Len(messages'), u \in GroupUid, z \in Nat, j \in Nat :
                        HeldOf(t, n, u, z, j)'
  BY DEF HeldInv, handlerVars
<1>1. /\ queue[s] # <<>> /\ queue' = [queue EXCEPT ![s] = Tail(@)] /\ messages' = messages
      /\ disturbed' = disturbed \cup {Head(queue[s]).uid}
  BY DEF Lose
<1>2. \A r \in Sender \ {s} : queue'[r] = queue[r]
  BY <1>1 DEF TypeInv, BusInv
<1>3. queue'[s] # <<>> => queue'[s][1].uid \in disturbed'
  BY <1>1, HeadTaken, HeadTakenGroups DEF TypeInv
<1>4. t # s /\ queue'[t] = queue[t] /\ Undisturbed(t)
  BY <1>1, <1>2, <1>3 DEF Undisturbed, handlerVars
<1>5. PICK n \in 1..Len(messages), u \in GroupUid, z \in Nat, j \in Nat :
        HeldOf(t, n, u, z, j)
  BY <1>4 DEF HeldInv
<1>6. \A g \in GroupIndex : UidOf(g)' = UidOf(g)
  BY DEF UidOf, handlerVars
<1>7. HeldOf(t, n, u, z, j)'
  BY <1>1, <1>4, <1>5, <1>6 DEF HeldOf, HoldsBytes, handlerVars
<1>. QED
  BY <1>1, <1>7

LEMMA HandleKeepsHeld ==
  ASSUME FullInv, GroupsHeldInv', NEW s \in Sender, handle_frame(s)
  PROVE  HeldInv'
<1>. USE DEF FullInv
<1>. SUFFICES ASSUME 0 \notin refused', NEW t \in Sender, queue'[t] # <<>>, Undisturbed(t)'
              PROVE  \E n \in 1..Len(messages'), u \in GroupUid, z \in Nat, j \in Nat :
                        HeldOf(t, n, u, z, j)'
  BY DEF HeldInv
<1>f. PICK f : f = Head(queue[s])
  OBVIOUS
<1>a. PICK a : a = append(f)
  OBVIOUS
<1>1. GetsThrough(s) /\ messages' = messages /\ BusInv
  BY DEF handle_frame, GetsThrough, TypeInv
<1>2. /\ f = queue[s][1] /\ f \in Frames /\ queue[s] # <<>> /\ f.dlc \in 0..8
      /\ queue' = [queue EXCEPT ![s] = Tail(@)] /\ queue'[s] = Tail(queue[s])
      /\ \A r \in Sender \ {s} : queue'[r] = queue[r]
  BY <1>1, <1>f, FrameTakenIn DEF Frames
<1>3. queue[t] # <<>> /\ queue'[t][1].uid = queue[t][1].uid
  BY <1>1, <1>2, HeadTakenGroups
<1>4. queue[t][1].uid \notin disturbed
  <2>1. queue'[t] \in Seq(Frames)
    BY <1>1, <1>2, HeadTaken
  <2>2. 1 \in DOMAIN queue'[t]
    BY <2>1, EmptySeq
  <2>3. queue'[t][1].uid \in UidsIn(queue')
    BY <2>2 DEF UidsIn
  <2>4. queue'[t][1].uid \notin disturbed'
    BY DEF Undisturbed
  <2>. QED
    BY <1>1, <1>3, <2>3, <2>4 DEF GetsThrough
<1>5. t # s => queue[t][1].uid # f.uid
  BY <1>2, <1>3, <1>4 DEF GroupsInv
<1>6. CASE f.uid = ACKNOWLEDGEMENT
  <2>1. UNCHANGED handlerVars
    BY <1>6, <1>f DEF handle_frame
  <2>2. t # s /\ queue'[t] = queue[t] /\ Undisturbed(t) /\ 0 \notin refused
    BY <1>2, <1>3, <1>4, <1>6, <2>1 DEF Undisturbed, handlerVars
  <2>3. PICK n \in 1..Len(messages), u \in GroupUid, z \in Nat, j \in Nat :
          HeldOf(t, n, u, z, j)
    BY <1>3, <2>2 DEF HeldInv
  <2>4. \A g \in GroupIndex : UidOf(g)' = UidOf(g)
    BY <2>1 DEF UidOf, handlerVars
  <2>5. HeldOf(t, n, u, z, j)'
    BY <1>1, <2>1, <2>2, <2>3, <2>4 DEF HeldOf, HoldsBytes, handlerVars
  <2>. QED
    BY <1>1, <2>5
<1>7. CASE f.uid # ACKNOWLEDGEMENT
  <2>1. /\ refused' = RefusedAfter(f, a.stored)
        /\ \A g \in GroupIndex \ {a.group} :
            /\ m_long_frame_buffer'[g] = m_long_frame_buffer[g]
            /\ m_long_frame_buffer_index'[g] = m_long_frame_buffer_index[g]
        /\ a.group \in GroupIndex /\ f.dlc = 8 =>
            /\ m_long_frame_buffer'[a.group] = a.buffer
            /\ m_long_frame_buffer_index'[a.group] = a.index
        /\ a.group \in GroupIndex /\ f.dlc < 8 => m_long_frame_buffer'[a.group] = Empty
    BY <1>2, <1>7, <1>f, <1>a, HandleEffect
  <2>2. 0 \notin refused /\ f.uid # 0
    BY <2>1 DEF RefusedAfter
  <2>3. \A g \in GroupIndex \ {a.group} : UidOf(g)' = UidOf(g)
    BY <2>1 DEF UidOf
  <2>4. a.group \in GroupIndex => UidOf(a.group) \in {0, f.uid}
    BY <1>a, AppendCases, NotFound DEF NoBuffer, BeginsGroup, NoRoom, Continues
  <2>5. CASE t # s
    <3>1. queue'[t] = queue[t] /\ Undisturbed(t)
      BY <1>2, <1>3, <1>4, <1>5, <2>1, <2>5 DEF Undisturbed, RefusedAfter
    <3>2. PICK n \in 1..Len(messages), u \in GroupUid, z \in Nat, j \in Nat :
            HeldOf(t, n, u, z, j)
      BY <1>3, <2>2, <3>1 DEF HeldInv
    <3>3. u = queue[t][1].uid /\ u # f.uid /\ u # 0
      <4>1. n \in 1..MaxMessages /\ Rest(queue[t], n, u, z, j)
        BY <3>2, BusAssumption DEF HeldOf, TypeInv, BusInv
      <4>. DEFINE p == queue[t]
      <4>2. Rest(p, n, u, z, j)
        BY <4>1
      <4>. HIDE DEF p
      <4>3. PICK h : h = p[1]
        OBVIOUS
      <4>4. IsHead(h, p, n, u, z, j)
        BY <4>1, <4>2, <4>3, HeadOfRest
      <4>. QED
        BY <1>5, <2>5, <3>1, <4>3, <4>4 DEF Undisturbed, p, IsHead
    <3>4. ASSUME j = 0, NEW g \in GroupIndex PROVE UidOf(g)' # u
      <4>1. CASE g # a.group
        BY <2>3, <3>2, <3>4, <4>1 DEF HeldOf
      <4>2. CASE g = a.group /\ f.dlc < 8
        BY <2>1, <3>3, <4>2, PlainValue DEF UidOf
      <4>3. CASE g = a.group /\ f.dlc = 8
        <5>1. CASE BeginsGroup(f, a)
          <6>1. m_long_frame_buffer'[g][0] = Plain(f.uid)
            BY <1>2, <2>1, <4>3, <5>1, FirstByte
          <6>. QED
            BY <3>3, <6>1, PlainValue DEF UidOf
        <5>2. CASE NoRoom(f, a)
          <6>1. UidOf(g)' = UidOf(g)
            BY <2>1, <4>3, <5>2 DEF NoRoom, UidOf
          <6>. QED
            BY <3>2, <3>4, <6>1 DEF HeldOf
        <5>3. CASE Continues(f, a)
          <6>1. m_long_frame_buffer_index[g] # 0
            BY <2>2, <4>3, <5>3 DEF Continues, GroupsHeldInv
          <6>2. m_long_frame_buffer'[g][0] = m_long_frame_buffer[g][0]
            BY <1>2, <2>1, <4>3, <5>3, <6>1, FirstByte
          <6>3. UidOf(g)' = UidOf(g)
            BY <6>2 DEF UidOf
          <6>. QED
            BY <3>2, <3>4, <6>3 DEF HeldOf
        <5>4. ~NoBuffer(f, a)
          BY <4>3, NotFound DEF NoBuffer
        <5>. QED
          BY <5>1, <5>2, <5>3, <5>4, <1>a, AppendCases
      <4>. QED
        BY <1>2, <4>1, <4>2, <4>3
    <3>5. ASSUME j # 0 PROVE \E g \in GroupIndex : HoldsBytes(g, n, u, 7 * j)'
      <4>1. PICK g \in GroupIndex : HoldsBytes(g, n, u, 7 * j)
        BY <3>2, <3>5 DEF HeldOf
      <4>2. g # a.group
        BY <2>4, <3>3, <4>1 DEF HoldsBytes
      <4>3. HoldsBytes(g, n, u, 7 * j)'
        BY <2>1, <2>3, <4>1, <4>2 DEF HoldsBytes
      <4>. QED
        BY <4>3
    <3>6. HeldOf(t, n, u, z, j)'
      BY <1>1, <3>1, <3>2, <3>4, <3>5 DEF HeldOf
    <3>. QED
      BY <1>1, <3>6
  <2>6. CASE t = s
    <3>1. f.uid \notin refused'
      BY <1>2, <1>3, <2>6 DEF Undisturbed
    <3>2. BeginsGroup(f, a) \/ Continues(f, a)
      BY <1>a, <2>1, <3>1, AppendCases DEF NoBuffer, NoRoom, RefusedAfter
    <3>. DEFINE q == queue[s]
    <3>3. q \in Seq(Frames) /\ q # <<>> /\ queue'[s] = Tail(q) /\ Tail(q) # <<>>
      BY <1>1, <1>2, <2>6 DEF BusInv
    <3>4. Len(q) > 1
      <4>. HIDE DEF q
      <4>. QED
        BY <3>3, TailFacts
    <3>5. Undisturbed(s)
      <4>1. f.uid \in refused => f.dlc < 8
        BY <2>1, <2>2, <3>1 DEF RefusedAfter
      <4>2. f.dlc = 8
        <5>1. q[1].dlc = 8
          BY <1>1, <3>3, <3>4, HeadOfGroupIsFull
        <5>. QED
          BY <1>2, <5>1
      <4>. QED
        BY <1>2, <1>3, <1>4, <2>2, <2>6, <4>1, <4>2, <1>7 DEF Undisturbed
    <3>6. PICK n \in 1..Len(messages), u \in GroupUid, z \in Nat, j \in Nat :
            HeldOf(s, n, u, z, j)
      BY <1>2, <2>2, <3>5 DEF HeldInv
    <3>7. /\ n \in 1..MaxMessages /\ f.uid = u
          /\ f.dlc # 8 => Len(queue[s]) = 1
          /\ StoresTo(a, n, LastByte(f, z, j))
          /\ f.dlc = 8 => a.index = 7 * (j + 1) + 1
      <4>. HIDE DEF FullInv, q
      <4>1. FullInv /\ 0 \notin refused /\ queue[s] # <<>> /\ f = Head(queue[s])
        BY <1>2, <1>f, <2>2
      <4>2. IsStored(f, a, s, n, u, z, j)
        BY <3>2, <3>5, <3>6, <4>1, HeadStored
      <4>. QED
        BY <4>2 DEF IsStored
    <3>a. f.dlc # 8 => Len(q) = 1
      BY <3>7
    <3>. HIDE DEF q
    <3>8. f.dlc = 8
      BY <3>3, <3>4, <3>a
    <3>9. Rest(queue'[s], n, u, z, j + 1)
      <4>1. Rest(q, n, u, z, j)
        BY <3>6 DEF HeldOf, q
      <4>. QED
        BY <3>3, <3>7, <4>1, TailRest
    <3>10. HoldsBytes(a.group, n, u, 7 * (j + 1))'
      <4>1. /\ a.group \in GroupIndex /\ a.index = 7 * (j + 1) + 1
            /\ \A p \in 1..(7 * (j + 1)) : a.buffer[p] = <<n, p>>
        BY <3>7, <3>8 DEF StoresTo, LastByte
      <4>2. a.buffer[0] = Plain(u)
        <5>1. CASE BeginsGroup(f, a)
          <6>1. a.buffer[0] = Plain(f.uid)
            BY <1>2, <3>8, <5>1, FirstByte
          <6>. QED
            BY <3>7, <6>1
        <5>2. CASE Continues(f, a)
          <6>1. m_long_frame_buffer_index[a.group] # 0 /\ UidOf(a.group) = f.uid
            BY <2>2, <5>2 DEF Continues, GroupsHeldInv
          <6>2. a.buffer[0] = m_long_frame_buffer[a.group][0]
            BY <1>2, <5>2, <6>1, FirstByte
          <6>. QED
            BY <2>2, <3>7, <4>1, <6>1, <6>2 DEF GroupsHeldInv
        <5>. QED
          BY <3>2, <5>1, <5>2
      <4>3. /\ m_long_frame_buffer'[a.group] = a.buffer
            /\ m_long_frame_buffer_index'[a.group] = a.index
        BY <2>1, <3>8, <4>1
      <4>4. UidOf(a.group)' = u
        BY <4>2, <4>3, PlainValue DEF UidOf
      <4>. QED
        BY <4>1, <4>3, <4>4 DEF HoldsBytes
    <3>11. HeldOf(s, n, u, z, j + 1)'
      <4>1. a.group \in GroupIndex /\ j + 1 # 0
        BY <3>7 DEF StoresTo
      <4>2. messages'[n] <= z
        BY <1>1, <3>6 DEF HeldOf
      <4>. QED
        BY <3>9, <3>10, <4>1, <4>2 DEF HeldOf
    <3>. QED
      BY <1>1, <2>6, <3>11
  <2>. QED
    BY <2>5, <2>6
<1>. QED
  BY <1>6, <1>7

LEMMA NextKeepsFull ==
  ASSUME NoneByCanManager, FullInv, [Next]_vars
  PROVE  FullInv'
<1>. USE DEF FullInv
<1>1. BusInv /\ TypeInv' /\ GroupsHeldInv'
  BY NextKeepsType DEF TypeInv
<1>2. ASSUME NEW s \in Sender, NEW m \in Message, NEW uid \in GroupUid,
             Begin(s, m, uid), UNCHANGED handlerVars
      PROVE  GroupsInv' /\ HeldInv'
  BY <1>1, <1>2, BeginKeepsGroups, BeginKeepsHeld DEF NoneByCanManager
<1>3. ASSUME NEW s \in Sender, Lose(s), UNCHANGED handlerVars
      PROVE  GroupsInv' /\ HeldInv'
  BY <1>1, <1>3, LoseKeepsGroups, LoseKeepsHeld
<1>4. ASSUME NEW s \in Sender, handle_frame(s)
      PROVE  GroupsInv' /\ HeldInv'
  <2>1. GetsThrough(s)
    BY <1>4 DEF handle_frame
  <2>2. GroupsInv'
    BY <1>1, <2>1, GetsThroughKeepsGroups
  <2>3. HeldInv'
    BY <1>1, <1>4, HandleKeepsHeld
  <2>. QED
    BY <2>2, <2>3
<1>5. ASSUME UNCHANGED vars PROVE GroupsInv' /\ HeldInv'
  <2>1. /\ UNCHANGED <<queue, messages, disturbed, parsed, refused>>
        /\ UNCHANGED <<m_long_frame_buffer, m_long_frame_buffer_index>>
    BY <1>5 DEF vars
  <2>2. \A g \in GroupIndex : UidOf(g)' = UidOf(g)
    BY <2>1 DEF UidOf
  <2>3. GroupsInv'
    BY <2>1 DEF GroupsInv
  <2>4. \A s, n, uid, size, j : HeldOf(s, n, uid, size, j) => HeldOf(s, n, uid, size, j)'
    BY <2>1, <2>2 DEF HeldOf, HoldsBytes
  <2>5. HeldInv'
    BY <2>1, <2>4 DEF HeldInv, Undisturbed
  <2>. QED
    BY <2>3, <2>5
<1>6. GroupsInv' /\ HeldInv'
  BY <1>2, <1>3, <1>4, <1>5 DEF Next
<1>. QED
  BY <1>1, <1>6

LEMMA EndGivesMessage ==
  ASSUME FullInv, [Next]_vars, NEW s \in Sender, EndsComplete(s)
  PROVE  IsGivenMessageOf(s)
<1>. USE DEF FullInv
<1>. DEFINE q == queue[s]
<1>1. q \in Seq(Frames) /\ q # <<>> /\ queue'[s] = Tail(q)
  BY DEF EndsComplete, EndsUndisturbed, TypeInv, BusInv
<1>f. PICK f : f = Head(q)
  OBVIOUS
<1>a. PICK a : a = append(f)
  OBVIOUS
<1>. HIDE DEF q
<1>2. Tail(q) # q /\ f = q[1] /\ f \in Frames
  BY <1>1, <1>f, EmptySeq, TailFacts
<1>3. /\ f.dlc < 8 /\ f.uid \notin disturbed \cup disturbed' \cup {ACKNOWLEDGEMENT}
      /\ f.uid \notin refused \cup refused' /\ 0 \notin refused \cup refused'
  BY <1>f DEF EndsComplete, EndsUndisturbed, q
<1>4. ASSUME NEW t \in Sender, queue[t] = <<>> \/ t # s, NEW new,
             queue' = [queue EXCEPT ![t] = new]
      PROVE  FALSE
  BY <1>1, <1>2, <1>4 DEF TypeInv, BusInv, q
<1>5. \A t \in Sender, m \in Message, uid \in GroupUid : ~Begin(t, m, uid)
  BY <1>4 DEF Begin
<1>6. \A t \in Sender : ~Lose(t)
  BY <1>3, <1>4, <1>f DEF Lose, q
<1>7. \A t \in Sender \ {s} : ~handle_frame(t)
  BY <1>4 DEF handle_frame, GetsThrough
<1>8. ~UNCHANGED vars
  BY <1>1, <1>2 DEF vars, q
<1>9. handle_frame(s)
  BY <1>5, <1>6, <1>7, <1>8 DEF Next
<1>10. /\ refused' = RefusedAfter(f, a.stored)
       /\ \/ /\ a.group # NOT_FOUND
             /\ parsed' = [message |-> f.message, bytes |-> BytesGiven(a)]
          \/ a.group = NOT_FOUND /\ parsed' = nothing
  BY <1>3, <1>9, <1>f, <1>a DEF handle_frame, q
<1>11. f.uid # 0 /\ (BeginsGroup(f, a) \/ Continues(f, a))
  BY <1>3, <1>10, <1>a, AppendCases DEF NoBuffer, NoRoom, RefusedAfter
<1>12. Undisturbed(s) /\ queue[s] # <<>> /\ f = Head(queue[s]) /\ 0 \notin refused
  BY <1>1, <1>2, <1>3, <1>11, <1>f DEF Undisturbed, q
<1>13. PICK n \in 1..Len(messages), uid \in GroupUid, size \in Nat, j \in Nat :
         HeldOf(s, n, uid, size, j)
  BY <1>12 DEF HeldInv
<1>14. IsStored(f, a, s, n, uid, size, j)
  <2>. HIDE DEF FullInv
  <2>. QED
    BY <1>11, <1>12, <1>13, HeadStored
<1>15. f.message = n /\ n \in 1..MaxMessages /\ StoresTo(a, n, size)
  <2>1. LastByte(f, size, j) = size
    BY <1>2, <1>3 DEF LastByte, Frames
  <2>. QED
    BY <1>14, <2>1 DEF IsStored
<1>16. /\ messages[n] \in Nat /\ messages[n] <= size
       /\ size < a.index /\ size < MAX_BYTES_PER_LF_GROUP
       /\ \A p \in 1..size : a.buffer[p] = <<n, p>>
  BY <1>13, <1>15 DEF HeldOf, TypeInv, BusInv, StoresTo
<1>17. parsed'.bytes = BytesGiven(a)
  BY <1>10, <1>15, NotFound DEF StoresTo
<1>18. a.index \in Nat
  <2>1. a.group \in GroupIndex
    BY <1>11 DEF BeginsGroup, Continues
  <2>2. PICK i \in Nat : i = m_long_frame_buffer_index[a.group]
    BY <2>1, HandlerAssumption DEF TypeInv
  <2>3. f.dlc \in 0..8
    BY <1>2 DEF Frames
  <2>4. a.index = i + 8 \/ a.index = i + f.dlc - 1
    BY <1>11, <2>2 DEF BeginsGroup, Continues, IndexAfter
  <2>5. a.index \in Int
    BY <2>2, <2>3, <2>4
  <2>6. size < a.index
    BY <1>16
  <2>. QED
    BY <2>5, <2>6
<1>19. IsPrefix(Bytes(n, 1, messages[n]), BytesGiven(a))
  <2>. DEFINE given == AtMost(a.index, MAX_BYTES_PER_LF_GROUP - 1)
              k == messages[n]
  <2>1. given \in Nat /\ size <= given /\ k <= given /\ k \in Nat
    BY <1>16, <1>18, HandlerAssumption DEF AtMost
  <2>2. BytesGiven(a) = [p \in 1..given |-> a.buffer[p]]
    BY DEF BytesGiven
  <2>. HIDE DEF given
  <2>3. Bytes(n, 1, k) = [p \in 1..k |-> <<n, p>>]
    BY <2>1 DEF Bytes
  <2>4. \A p \in 1..k : a.buffer[p] = <<n, p>>
    BY <1>16
  <2>. HIDE DEF k
  <2>5. SubSeq(BytesGiven(a), 1, k) = Bytes(n, 1, k)
    <3>. DEFINE b == BytesGiven(a)
    <3>1. SubSeq(b, 1, k) = [p \in 1..k |-> b[p]]
      <4>1. 1 + k - 1 = k /\ \A p \in 1..k : p + 1 - 1 = p
        BY <2>1
      <4>. HIDE DEF b
      <4>2. SubSeq(b, 1, k) = [p \in 1..(1 + k - 1) |-> b[p + 1 - 1]]
        BY <2>1
      <4>. QED
        BY <4>1, <4>2
    <3>2. \A p \in 1..k : b[p] = <<n, p>>
      BY <2>1, <2>2, <2>4
    <3>. HIDE DEF b
    <3>3. SubSeq(b, 1, k) = [p \in 1..k |-> <<n, p>>]
      BY <3>1, <3>2
    <3>. QED
      BY <2>3, <3>3 DEF b
  <2>6. Len(Bytes(n, 1, k)) = k /\ Len(BytesGiven(a)) = given
    BY <2>1, <2>2, <2>3
  <2>. QED
    BY <2>1, <2>5, <2>6 DEF IsPrefix, k
<1>. QED
  BY <1>12, <1>15, <1>17, <1>19 DEF IsGivenMessageOf

(* A group that nothing disturbed and of which nothing was dropped gives   *)
(* the parser the message that was sent, with buffers of any size and      *)
(* number, whatever groups it is mixed with and whatever was left behind   *)
(* by others; CanManager's own groups are excepted, each frame of which    *)
(* ends a group (CanManager.cpp:220).                                      *)
THEOREM CleanGroups ==
  ASSUME NoneByCanManager
  PROVE  Spec => CleanGroupsArrive
<1>1. Init => FullInv
  <2>1. Init => HeldInv
    BY DEF Init, BusInit, HeldInv
  <2>. QED
    BY <2>1, BusStarts, TypeInvStarts DEF Init, FullInv
<1>2. FullInv /\ [Next]_vars => FullInv'
  BY NextKeepsFull
<1>3. FullInv /\ [Next]_vars =>
        [\A s \in Sender : EndsComplete(s) => IsGivenMessageOf(s)]_vars
  BY EndGivesMessage
<1>. QED
  BY <1>1, <1>2, <1>3, PTL DEF Spec, CleanGroupsArrive
=============================================================================
