----------------------- MODULE CanRedLongFramesProofs -----------------------
(* CanRed puts long frames together: the theorems about CanRedLongFrames.  *)
EXTENDS CanRedLongFrames, LongFrameBusProofs

(* The types. *)
TypeInv ==
    /\ BusInv
    /\ parsed.message \in 0..MaxMessages
    /\ DOMAIN m_buffers \subseteq GroupUid \ {ACKNOWLEDGEMENT}
    /\ \A uid \in DOMAIN m_buffers : m_buffers[uid] \in Seq((1..MaxMessages) \X Nat)

----------------------------------------------------------------------------
LEMMA TypeInvStarts == Init => TypeInv
BY BusStarts, BusAssumption DEF Init, BusInit, nothing, TypeInv

LEMMA AppendType ==
  ASSUME TypeInv, NEW f \in Frames
  PROVE  /\ DOMAIN append(f) = DOMAIN m_buffers \cup {f.uid}
         /\ \A u \in DOMAIN append(f) : append(f)[u] \in Seq((1..MaxMessages) \X Nat)
         /\ append(f)[f.uid] = BytesHeld(f.uid) \o f.bytes
         /\ \A u \in DOMAIN m_buffers \ {f.uid} : append(f)[u] = m_buffers[u]
<1>1. f.bytes \in Seq((1..MaxMessages) \X Nat)
  BY DEF Frames
<1>2. BytesHeld(f.uid) \in Seq((1..MaxMessages) \X Nat)
  BY DEF BytesHeld, TypeInv
<1>3. BytesHeld(f.uid) \o f.bytes \in Seq((1..MaxMessages) \X Nat)
  BY <1>1, <1>2
<1>. QED
  BY <1>3 DEF append, TypeInv

LEMMA HandleKeepsType ==
  ASSUME TypeInv, NEW s \in Sender, handle_incoming_frame(s)
  PROVE  TypeInv'
<1>. DEFINE f == Head(queue[s])
<1>1. GetsThrough(s) /\ BusInv
  BY DEF handle_incoming_frame, TypeInv
<1>2. BusInv'
  BY <1>1, GetsThroughKeepsBusInv
<1>3. f \in Frames /\ f.message \in 1..MaxMessages
  BY <1>1, FrameTakenIn DEF Frames
<1>4. f.dlc = 8 => f.uid \in GroupUid
  BY <1>1, FrameTakenIn
<1>. HIDE DEF f
<1>5. CASE is_ack(f) /\ parsed' = nothing /\ UNCHANGED m_buffers
  BY <1>2, <1>5, BusAssumption DEF TypeInv, nothing
<1>6. CASE ~is_ack(f) /\ f.dlc = 8 /\ m_buffers' = append(f) /\ parsed' = nothing
  <2>1. /\ DOMAIN append(f) = DOMAIN m_buffers \cup {f.uid}
        /\ \A u \in DOMAIN append(f) : append(f)[u] \in Seq((1..MaxMessages) \X Nat)
    BY <1>3, AppendType
  <2>2. f.uid \in GroupUid \ {ACKNOWLEDGEMENT}
    BY <1>4, <1>6 DEF is_ack
  <2>. HIDE DEF append
  <2>3. /\ DOMAIN m_buffers' \subseteq GroupUid \ {ACKNOWLEDGEMENT}
        /\ \A u \in DOMAIN m_buffers' : m_buffers'[u] \in Seq((1..MaxMessages) \X Nat)
    BY <1>6, <2>1, <2>2 DEF TypeInv
  <2>4. parsed'.message \in 0..MaxMessages
    BY <1>6, BusAssumption DEF nothing
  <2>. QED
    BY <1>2, <2>3, <2>4 DEF TypeInv
<1>7. CASE /\ m_buffers' = steal_frame_group(f)
           /\ parsed' = [message |-> f.message, bytes |-> append(f)[f.uid]]
  <2>1. /\ DOMAIN m_buffers' \subseteq DOMAIN m_buffers
        /\ \A u \in DOMAIN m_buffers' : m_buffers'[u] = m_buffers[u]
    BY <1>7 DEF steal_frame_group
  <2>2. parsed'.message \in 0..MaxMessages
    BY <1>3, <1>7, BusAssumption
  <2>. QED
    BY <1>2, <2>1, <2>2 DEF TypeInv
<1>. QED
  BY <1>5, <1>6, <1>7 DEF handle_incoming_frame, f

LEMMA NextKeepsType == TypeInv /\ [Next]_vars => TypeInv'
<1>. SUFFICES ASSUME TypeInv, [Next]_vars PROVE TypeInv'
  OBVIOUS
<1>1. BusInv
  BY DEF TypeInv
<1>2. ASSUME NEW s \in Sender, NEW m \in Message, NEW uid \in GroupUid,
             Begin(s, m, uid), UNCHANGED m_buffers
      PROVE  TypeInv'
  <2>1. BusInv'
    BY <1>1, <1>2, BeginKeepsBusInv
  <2>2. parsed' = nothing
    BY <1>2 DEF Begin
  <2>. QED
    BY <1>2, <2>1, <2>2, BusAssumption DEF TypeInv, nothing
<1>3. ASSUME NEW s \in Sender, Lose(s), UNCHANGED m_buffers PROVE TypeInv'
  <2>1. BusInv'
    BY <1>1, <1>3, LoseKeepsBusInv
  <2>2. parsed' = nothing
    BY <1>3 DEF Lose
  <2>. QED
    BY <1>3, <2>1, <2>2, BusAssumption DEF TypeInv, nothing
<1>4. ASSUME NEW s \in Sender, handle_incoming_frame(s) PROVE TypeInv'
  BY <1>4, HandleKeepsType
<1>5. CASE UNCHANGED vars
  BY <1>5 DEF vars, TypeInv, BusInv
<1>. QED
  BY <1>2, <1>3, <1>4, <1>5 DEF Next

(* The types hold for any senders, messages and uids, and no group is kept *)
(* under the uid that handle_incoming_frame takes for an acknowledgement.  *)
THEOREM TypeCorrect == Spec => []TypeOK
<1>1. TypeInv => TypeOK
  BY BusInvGivesType DEF TypeInv, TypeOK
<1>. QED
  BY <1>1, TypeInvStarts, NextKeepsType, PTL DEF Spec

----------------------------------------------------------------------------
LEMMA LeftBehindKept == TypeInv /\ NothingLeftBehind /\ [Next]_vars => NothingLeftBehind'
<1>. SUFFICES ASSUME TypeInv, NothingLeftBehind, [Next]_vars PROVE NothingLeftBehind'
  OBVIOUS
<1>1. BusInv
  BY DEF TypeInv
<1>2. ASSUME NEW s \in Sender, NEW m \in Message, NEW uid \in GroupUid,
             Begin(s, m, uid), UNCHANGED m_buffers
      PROVE  NothingLeftBehind'
  <2>1. UidsIn(queue) \subseteq UidsIn(queue')
    BY <1>1, <1>2, UidsAfterBegin
  <2>. QED
    BY <1>2, <2>1 DEF NothingLeftBehind, Begin
<1>3. ASSUME NEW s \in Sender, Lose(s), UNCHANGED m_buffers PROVE NothingLeftBehind'
  <2>1. /\ queue[s] # <<>> /\ queue' = [queue EXCEPT ![s] = Tail(@)]
        /\ disturbed' = disturbed \cup {Head(queue[s]).uid}
    BY <1>3 DEF Lose
  <2>2. UidsIn(queue) \subseteq UidsIn(queue') \cup {Head(queue[s]).uid}
    BY <1>1, <2>1, UidsAfterHead
  <2>. QED
    BY <1>3, <2>1, <2>2 DEF NothingLeftBehind
<1>4. ASSUME NEW s \in Sender, handle_incoming_frame(s) PROVE NothingLeftBehind'
  <2>. DEFINE f == Head(queue[s])
  <2>1. GetsThrough(s)
    BY <1>4 DEF handle_incoming_frame
  <2>2. UidsIn(queue) \subseteq UidsIn(queue') \cup {f.uid}
    BY <1>1, <2>1, FrameTakenIn, UidsAfterHead
  <2>3. f.dlc = 8 => f.uid \in UidsIn(queue')
    BY <1>1, <2>1, FrameTakenIn
  <2>4. disturbed \subseteq disturbed' \cup {f.uid} /\ (f.dlc = 8 => disturbed' = disturbed)
    BY <2>1 DEF GetsThrough
  <2>5. f \in Frames
    BY <1>1, <2>1, FrameTakenIn
  <2>. HIDE DEF f
  <2>6. CASE is_ack(f) /\ UNCHANGED m_buffers
    <3>1. f.uid \notin DOMAIN m_buffers
      BY <2>6 DEF is_ack, TypeInv
    <3>. QED
      BY <2>2, <2>4, <2>6, <3>1 DEF NothingLeftBehind
  <2>7. CASE f.dlc = 8 /\ m_buffers' = append(f)
    <3>1. DOMAIN m_buffers' = DOMAIN m_buffers \cup {f.uid}
      BY <2>5, <2>7, AppendType
    <3>. QED
      BY <2>2, <2>3, <2>4, <2>7, <3>1 DEF NothingLeftBehind
  <2>8. CASE m_buffers' = steal_frame_group(f)
    <3>1. DOMAIN m_buffers' = DOMAIN m_buffers \ {f.uid}
      BY <2>8 DEF steal_frame_group
    <3>. QED
      BY <2>2, <2>4, <3>1 DEF NothingLeftBehind
  <2>. QED
    BY <1>4, <2>6, <2>7, <2>8 DEF handle_incoming_frame, f
<1>5. CASE UNCHANGED vars
  BY <1>5 DEF vars, NothingLeftBehind, UidsIn
<1>. QED
  BY <1>2, <1>3, <1>4, <1>5 DEF Next

(* A group that ends leaves nothing behind under its uid, with any number  *)
(* of modules, whatever they send and whatever is lost: a group that is    *)
(* kept is still being sent, or frames of it were lost or mixed.           *)
THEOREM LeavesNothing == Spec => []NothingLeftBehind
<1>1. Init => NothingLeftBehind
  BY DEF Init, NothingLeftBehind
<1>. QED
  BY <1>1, TypeInvStarts, NextKeepsType, LeftBehindKept, PTL DEF Spec

----------------------------------------------------------------------------
(* Of a group that nothing disturbs, CanRed holds what was sent so far: of *)
(* a message of so many bytes, those of the first j frames.                *)
HeldOf(s, n, uid, size, j) ==
    /\ messages[n] <= size /\ Rest(queue[s], n, uid, size, j)
    /\ BytesHeld(uid) = Bytes(n, 1, 7 * j)

HeldInv ==
    \A s \in Sender :
        queue[s] # <<>> /\ queue[s][1].uid \notin disturbed \cup {ACKNOWLEDGEMENT} =>
            \E n \in 1..Len(messages), uid \in GroupUid, size \in Nat, j \in Nat :
                HeldOf(s, n, uid, size, j)

FullInv == TypeInv /\ NothingLeftBehind /\ GroupsInv /\ HeldInv

LEMMA BeginKeepsHeld ==
  ASSUME FullInv, NEW s \in Sender, NEW m \in Message, NEW uid \in GroupUid,
         Begin(s, m, uid), UNCHANGED m_buffers
  PROVE  HeldInv'
<1>. USE DEF FullInv
<1>0. PICK N \in 1..MaxMessages : N = Len(messages')
  BY BusAssumption DEF TypeInv, BusInv, Begin
<1>. DEFINE q == FramesOf(m, uid, N)
<1>1. /\ N \in 1..MaxMessages /\ Len(messages') = N /\ messages'[N] = m.size
      /\ \A n \in 1..Len(messages) : n \in 1..N /\ messages'[n] = messages[n]
  BY <1>0, BusAssumption DEF TypeInv, BusInv, Begin
<1>2. queue' = [queue EXCEPT ![s] = q] /\ queue[s] = <<>>
  BY <1>1 DEF Begin
<1>3. queue'[s] = q /\ \A t \in Sender \ {s} : queue'[t] = queue[t]
  BY <1>2 DEF TypeInv, BusInv
<1>4. PICK size \in Nat : m.size <= size /\ Rest(q, N, uid, size, 0)
  BY <1>1, FramesOfShape, FromModules
<1>. HIDE DEF q
<1>5. q[1].uid = uid
  <2>1. q \in Seq(Frames) /\ q # <<>>
    BY <1>1, <1>4, RestShape
  <2>2. 1 \in 1..Len(q)
    BY <2>1, EmptySeq
  <2>3. \A k \in 1..Len(q) : q[k].uid = uid
    BY <1>1, <1>4, RestShape
  <2>. QED
    BY <2>2, <2>3
<1>6. disturbed \subseteq disturbed' /\ (uid \notin disturbed' => uid \notin UidsIn(queue))
  BY DEF Begin
<1>7. ASSUME uid \notin disturbed' PROVE HeldOf(s, N, uid, size, 0)'
  <2>1. uid \notin DOMAIN m_buffers
    BY <1>6, <1>7 DEF NothingLeftBehind
  <2>2. BytesHeld(uid)' = <<>>
    BY <2>1 DEF BytesHeld
  <2>3. Bytes(N, 1, 7 * 0) = <<>>
    BY DEF Bytes
  <2>. QED
    BY <1>1, <1>3, <1>4, <2>2, <2>3 DEF HeldOf
<1>8. ASSUME NEW t \in Sender, queue'[t] # <<>>,
             queue'[t][1].uid \notin disturbed' \cup {ACKNOWLEDGEMENT}
      PROVE  \E n \in 1..Len(messages'), u \in GroupUid, z \in Nat, j \in Nat :
                HeldOf(t, n, u, z, j)'
  <2>1. CASE t = s
    <3>1. HeldOf(t, N, uid, size, 0)'
      BY <1>3, <1>5, <1>7, <1>8, <2>1
    <3>. QED
      BY <1>1, <3>1
  <2>2. CASE t # s
    <3>1. PICK n \in 1..Len(messages), u \in GroupUid, z \in Nat, j \in Nat :
            HeldOf(t, n, u, z, j)
      BY <1>3, <1>6, <1>8, <2>2 DEF HeldInv
    <3>2. HeldOf(t, n, u, z, j)'
      BY <1>1, <1>3, <2>2, <3>1 DEF HeldOf, BytesHeld
    <3>. QED
      BY <1>1, <3>2
  <2>. QED
    BY <2>1, <2>2
<1>. QED
  BY <1>8 DEF HeldInv

LEMMA LoseKeepsHeld ==
  ASSUME FullInv, NEW s \in Sender, Lose(s), UNCHANGED m_buffers
  PROVE  HeldInv'
<1>. USE DEF FullInv
<1>1. /\ queue[s] # <<>> /\ queue' = [queue EXCEPT ![s] = Tail(@)] /\ messages' = messages
      /\ disturbed' = disturbed \cup {Head(queue[s]).uid}
  BY DEF Lose
<1>2. \A t \in Sender \ {s} : queue'[t] = queue[t]
  BY <1>1 DEF TypeInv, BusInv
<1>3. queue'[s] # <<>> => queue'[s][1].uid \in disturbed'
  BY <1>1, HeadTaken, HeadTakenGroups DEF TypeInv
<1>4. ASSUME NEW t \in Sender, queue'[t] # <<>>,
             queue'[t][1].uid \notin disturbed' \cup {ACKNOWLEDGEMENT}
      PROVE  \E n \in 1..Len(messages'), u \in GroupUid, z \in Nat, j \in Nat :
                HeldOf(t, n, u, z, j)'
  <2>1. t # s /\ queue'[t] = queue[t] /\ queue[t][1].uid \notin disturbed
    BY <1>1, <1>2, <1>3, <1>4
  <2>2. PICK n \in 1..Len(messages), u \in GroupUid, z \in Nat, j \in Nat :
          HeldOf(t, n, u, z, j)
    BY <1>4, <2>1 DEF HeldInv
  <2>3. HeldOf(t, n, u, z, j)'
    BY <1>1, <2>1, <2>2 DEF HeldOf, BytesHeld
  <2>. QED
    BY <1>1, <2>3
<1>. QED
  BY <1>4 DEF HeldInv

(* The frame at the head of an undisturbed group, and what is held then.   *)
LEMMA HeadOfGroup ==
  ASSUME FullInv, NEW s \in Sender, queue[s] # <<>>,
         queue[s][1].uid \notin disturbed \cup {ACKNOWLEDGEMENT}
  PROVE  \E n \in 1..Len(messages), uid \in GroupUid, size \in Nat, j \in Nat :
            /\ HeldOf(s, n, uid, size, j)
            /\ n \in 1..MaxMessages
            /\ queue[s][1].uid = uid /\ queue[s][1].message = n
            /\ queue[s][1].dlc = 8 =>
                    /\ Len(queue[s]) > 1
                    /\ BytesHeld(uid) \o queue[s][1].bytes = Bytes(n, 1, 7 * (j + 1))
            /\ queue[s][1].dlc # 8 =>
                    /\ Len(queue[s]) = 1
                    /\ BytesHeld(uid) \o queue[s][1].bytes = Bytes(n, 1, size)
<1>. USE DEF FullInv
<1>. DEFINE q == queue[s]
            f == q[1]
<1>1. PICK n \in 1..Len(messages), uid \in GroupUid, size \in Nat, j \in Nat :
        HeldOf(s, n, uid, size, j)
  BY DEF HeldInv
<1>2. q \in Seq(Frames) /\ q # <<>> /\ n \in 1..MaxMessages /\ Rest(q, n, uid, size, j)
  BY <1>1, BusAssumption DEF TypeInv, BusInv, HeldOf
<1>. DEFINE last == LastByte(f, size, j)
            mid == 7 * j
<1>. HIDE DEF q, f
<1>3. /\ f.uid = uid /\ f.message = n
      /\ f.dlc = 8 => Len(q) > 1
      /\ f.dlc # 8 => Len(q) = 1
      /\ last \in Nat /\ mid <= last /\ f.bytes = Bytes(n, mid + 1, last)
  <2>1. IsHead(f, q, n, uid, size, j)
    BY <1>2, HeadOfRest DEF f
  <2>. QED
    BY <2>1 DEF IsHead
<1>4. BytesHeld(uid) = Bytes(n, 1, mid) /\ mid \in Nat
  BY <1>1 DEF HeldOf
<1>. HIDE DEF last, mid
<1>5. BytesHeld(uid) \o f.bytes = Bytes(n, 1, last)
  <2>1. Bytes(n, 1, mid) \o Bytes(n, mid + 1, last) = Bytes(n, 1, last)
    BY <1>2, <1>3, <1>4, BytesJoin
  <2>. QED
    BY <1>3, <1>4, <2>1
<1>6. /\ f.dlc = 8 => BytesHeld(uid) \o f.bytes = Bytes(n, 1, 7 * (j + 1))
      /\ f.dlc # 8 => BytesHeld(uid) \o f.bytes = Bytes(n, 1, size)
  BY <1>5 DEF last, LastByte
<1>. QED
  BY <1>1, <1>2, <1>3, <1>6 DEF q, f

LEMMA HandleKeepsHeld ==
  ASSUME FullInv, NEW s \in Sender, handle_incoming_frame(s)
  PROVE  HeldInv'
<1>. USE DEF FullInv
<1>. DEFINE f == Head(queue[s])
<1>1. GetsThrough(s) /\ messages' = messages /\ BusInv
  BY DEF handle_incoming_frame, GetsThrough, TypeInv
<1>2. /\ f = queue[s][1] /\ f \in Frames /\ queue[s] # <<>>
      /\ queue' = [queue EXCEPT ![s] = Tail(@)] /\ queue'[s] = Tail(queue[s])
      /\ \A t \in Sender \ {s} : queue'[t] = queue[t]
  BY <1>1, FrameTakenIn
<1>3. ASSUME NEW u, u # f.uid PROVE BytesHeld(u)' = BytesHeld(u)
  <2>1. /\ DOMAIN append(f) \ {u} = (DOMAIN m_buffers \cup {f.uid}) \ {u}
        /\ DOMAIN append(f) = DOMAIN m_buffers \cup {f.uid}
        /\ \A v \in DOMAIN m_buffers \ {f.uid} : append(f)[v] = m_buffers[v]
    BY <1>2, AppendType
  <2>. HIDE DEF f
  <2>2. CASE m_buffers' = append(f)
    BY <1>3, <2>1, <2>2 DEF BytesHeld
  <2>3. CASE m_buffers' = steal_frame_group(f)
    BY <1>3, <2>3 DEF BytesHeld, steal_frame_group
  <2>. QED
    BY <2>2, <2>3 DEF handle_incoming_frame, BytesHeld, f
<1>4. disturbed' \subseteq disturbed
  BY <1>1 DEF GetsThrough
<1>5. ASSUME NEW t \in Sender, queue'[t] # <<>>, queue'[t][1].uid \in disturbed
      PROVE  queue'[t][1].uid \in disturbed'
  <2>1. queue'[t] \in Seq(Frames)
    BY <1>1, <1>2, HeadTaken
  <2>2. 1 \in DOMAIN queue'[t]
    BY <1>5, <2>1, EmptySeq
  <2>3. queue'[t][1].uid \in UidsIn(queue')
    BY <2>2 DEF UidsIn
  <2>. QED
    BY <1>1, <1>5, <2>3 DEF GetsThrough
<1>6. ASSUME NEW t \in Sender, t # s, queue'[t] # <<>>,
             queue'[t][1].uid \notin disturbed' \cup {ACKNOWLEDGEMENT}
      PROVE  \E n \in 1..Len(messages'), u \in GroupUid, z \in Nat, j \in Nat :
                HeldOf(t, n, u, z, j)'
  <2>1. queue'[t] = queue[t] /\ queue[t][1].uid \notin disturbed
    BY <1>2, <1>5, <1>6
  <2>2. PICK n \in 1..Len(messages), u \in GroupUid, z \in Nat, j \in Nat :
          HeldOf(t, n, u, z, j) /\ queue[t][1].uid = u
    BY <1>6, <2>1, HeadOfGroup
  <2>3. u # f.uid
    BY <1>2, <1>6, <2>1, <2>2 DEF GroupsInv
  <2>4. HeldOf(t, n, u, z, j)'
    BY <1>1, <1>3, <2>1, <2>2, <2>3 DEF HeldOf
  <2>. QED
    BY <1>1, <2>4
<1>7. ASSUME queue'[s] # <<>>, queue'[s][1].uid \notin disturbed' \cup {ACKNOWLEDGEMENT}
      PROVE  \E n \in 1..Len(messages'), u \in GroupUid, z \in Nat, j \in Nat :
                HeldOf(s, n, u, z, j)'
  <2>1. queue'[s][1].uid = f.uid
    BY <1>1, <1>2, <1>7, HeadTakenGroups
  <2>2. f.uid \notin disturbed \cup {ACKNOWLEDGEMENT}
    BY <1>5, <1>7, <2>1
  <2>3. PICK n \in 1..Len(messages), u \in GroupUid, z \in Nat, j \in Nat :
          /\ HeldOf(s, n, u, z, j) /\ n \in 1..MaxMessages
          /\ f.uid = u /\ f.message = n
          /\ f.dlc # 8 => Len(queue[s]) = 1
          /\ f.dlc = 8 => BytesHeld(u) \o f.bytes = Bytes(n, 1, 7 * (j + 1))
    BY <1>2, <2>2, HeadOfGroup
  <2>. DEFINE q == queue[s]
  <2>4. q \in Seq(Frames) /\ q # <<>> /\ queue'[s] = Tail(q) /\ Tail(q) # <<>>
    BY <1>1, <1>2, <1>7 DEF BusInv
  <2>5. f.dlc = 8
    <3>1. f.dlc # 8 => Len(q) = 1
      BY <2>3
    <3>. HIDE DEF q, f
    <3>. QED
      BY <2>4, <3>1, TailFacts
  <2>6. m_buffers' = append(f)
    BY <2>2, <2>5 DEF handle_incoming_frame, is_ack
  <2>7. BytesHeld(u)' = Bytes(n, 1, 7 * (j + 1))
    BY <1>2, <2>3, <2>5, <2>6, AppendType DEF BytesHeld
  <2>8. Rest(queue'[s], n, u, z, j + 1)
    <3>1. Rest(q, n, u, z, j)
      BY <2>3 DEF HeldOf
    <3>. HIDE DEF q
    <3>. QED
      BY <2>3, <2>4, <3>1, TailRest
  <2>9. HeldOf(s, n, u, z, j + 1)'
    BY <1>1, <2>3, <2>7, <2>8 DEF HeldOf
  <2>. QED
    BY <1>1, <2>9
<1>. QED
  BY <1>6, <1>7 DEF HeldInv

LEMMA NextKeepsHeld == FullInv /\ [Next]_vars => GroupsInv' /\ HeldInv'
<1>. SUFFICES ASSUME FullInv, [Next]_vars PROVE GroupsInv' /\ HeldInv'
  OBVIOUS
<1>1. BusInv /\ GroupsInv /\ HeldInv /\ NoneByCanManager
  BY FromModules DEF FullInv, TypeInv, NoneByCanManager
<1>2. ASSUME NEW s \in Sender, NEW m \in Message, NEW uid \in GroupUid,
             Begin(s, m, uid), UNCHANGED m_buffers
      PROVE  GroupsInv' /\ HeldInv'
  BY <1>1, <1>2, BeginKeepsGroups, BeginKeepsHeld
<1>3. ASSUME NEW s \in Sender, Lose(s), UNCHANGED m_buffers PROVE GroupsInv' /\ HeldInv'
  BY <1>1, <1>3, LoseKeepsGroups, LoseKeepsHeld
<1>4. ASSUME NEW s \in Sender, handle_incoming_frame(s) PROVE GroupsInv' /\ HeldInv'
  <2>1. GetsThrough(s)
    BY <1>4 DEF handle_incoming_frame
  <2>. QED
    BY <1>1, <1>4, <2>1, GetsThroughKeepsGroups, HandleKeepsHeld
<1>5. CASE UNCHANGED vars
  BY <1>1, <1>5 DEF vars, GroupsInv, HeldInv, HeldOf, BytesHeld
<1>. QED
  BY <1>2, <1>3, <1>4, <1>5 DEF Next

(* One step: the only one that ends an undisturbed group is the arrival of *)
(* its last frame.                                                         *)
LEMMA EndGivesMessage ==
  ASSUME FullInv, [Next]_vars, NEW s \in Sender, EndsUndisturbed(s),
         ~is_ack(Head(queue[s]))
  PROVE  IsGivenMessageOf(s)
<1>. USE DEF FullInv
<1>. DEFINE q == queue[s]
            f == Head(q)
<1>1. q \in Seq(Frames) /\ q # <<>> /\ queue'[s] = Tail(q)
  BY DEF EndsUndisturbed, TypeInv, BusInv
<1>. HIDE DEF q
<1>2. Tail(q) # q /\ f = q[1]
  BY <1>1, EmptySeq, TailFacts
<1>. HIDE DEF f
<1>3. f.dlc < 8 /\ f.uid \notin disturbed \cup disturbed' \cup {ACKNOWLEDGEMENT}
  BY DEF EndsUndisturbed, is_ack, f, q
<1>4. ASSUME NEW t \in Sender, queue[t] = <<>> \/ t # s, NEW new,
             queue' = [queue EXCEPT ![t] = new]
      PROVE  FALSE
  BY <1>1, <1>2, <1>4 DEF TypeInv, BusInv, q
<1>5. \A t \in Sender, m \in Message, uid \in GroupUid : ~Begin(t, m, uid)
  BY <1>4 DEF Begin
<1>6. \A t \in Sender : ~Lose(t)
  BY <1>3, <1>4 DEF Lose, f, q
<1>7. \A t \in Sender \ {s} : ~handle_incoming_frame(t)
  BY <1>4 DEF handle_incoming_frame, GetsThrough
<1>8. ~UNCHANGED vars
  BY <1>1, <1>2 DEF vars, q
<1>9. handle_incoming_frame(s)
  BY <1>5, <1>6, <1>7, <1>8 DEF Next
<1>10. PICK n \in 1..Len(messages), uid \in GroupUid, size \in Nat, j \in Nat :
          /\ HeldOf(s, n, uid, size, j) /\ n \in 1..MaxMessages
          /\ f.uid = uid /\ f.message = n
          /\ BytesHeld(uid) \o f.bytes = Bytes(n, 1, size)
  <2>1. /\ queue[s] # <<>> /\ queue[s][1].uid \notin disturbed \cup {ACKNOWLEDGEMENT}
        /\ queue[s][1] = f
    BY <1>1, <1>2, <1>3 DEF q
  <2>2. f.dlc # 8
    <3>1. f \in Frames
      BY <1>1, <1>2, TailFacts
    <3>. QED
      BY <1>3, <3>1 DEF Frames
  <2>. QED
    BY <2>1, <2>2, HeadOfGroup
<1>11. parsed'.bytes = Bytes(n, 1, size)
  <2>1. parsed' = [message |-> f.message, bytes |-> append(f)[f.uid]]
    BY <1>3, <1>9 DEF handle_incoming_frame, is_ack, f, q
  <2>2. f \in Frames
    BY <1>1, <1>2, TailFacts
  <2>. QED
    BY <1>10, <2>1, <2>2, AppendType
<1>12. messages[n] \in Nat /\ messages[n] <= size
  BY <1>10 DEF HeldOf, TypeInv, BusInv
<1>13. Head(queue[s]).message = n
  BY <1>10 DEF f, q
<1>. QED
  BY <1>10, <1>11, <1>12, <1>13, ShorterIsPrefix DEF IsGivenMessageOf

(* A group of frames that nothing disturbed is put together to the message *)
(* that was sent, whatever the frames of other modules it is mixed with,   *)
(* whatever was lost before, whichever uids the modules drew.              *)
THEOREM CleanGroups == Spec => CleanGroupsArrive
<1>1. Init => FullInv
  <2>1. Init => HeldInv
    BY DEF Init, BusInit, HeldInv
  <2>2. Init => NothingLeftBehind
    BY DEF Init, NothingLeftBehind
  <2>. QED
    BY <2>1, <2>2, BusStarts, TypeInvStarts DEF Init, FullInv
<1>2. FullInv /\ [Next]_vars => FullInv'
  BY NextKeepsType, LeftBehindKept, NextKeepsHeld DEF FullInv
<1>3. FullInv /\ [Next]_vars =>
        [\A s \in Sender :
            EndsUndisturbed(s) /\ ~is_ack(Head(queue[s])) => IsGivenMessageOf(s)]_vars
  BY EndGivesMessage
<1>. QED
  BY <1>1, <1>2, <1>3, PTL DEF Spec, CleanGroupsArrive
=============================================================================
