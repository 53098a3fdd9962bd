--------------------------- MODULE CanRedMainProofs -------------------------
(***************************************************************************)
(* Proofs about the threads of CanRed, for any number of interfaces and    *)
(* any bounds.                                                             *)
(***************************************************************************)
EXTENDS CanRedMain, TLAPS, FiniteSetTheorems, SequenceTheorems

(* A sorted vector of updates is a sequence of some of those updates. *)
LEMMA SortedType ==
    ASSUME NEW S, S \subseteq Update, NEW w \in Sorted(S)
    PROVE  w \in Seq(Update) /\ ToSet(w) \subseteq S
<1>1. IsFiniteSet(Update)
    <2>1. IsFiniteSet({"remove", "add"})
        <3>1. IsFiniteSet({"add"})
            BY FS_Singleton
        <3>2. IsFiniteSet({"add"} \cup {"remove"})
            BY <3>1, FS_AddElement
        <3>3. {"remove", "add"} = {"add"} \cup {"remove"}
            OBVIOUS
        <3> QED BY <3>2, <3>3
    <2>2. IsFiniteSet(1..MaxEdits)
        BY FS_Interval, BoundsAssumption
    <2> QED BY <2>1, <2>2, FS_Product DEF Update
<1>2. Cardinality(S) \in Nat
    BY <1>1, FS_Subset, FS_CardinalityType
<1>3. w \in [1..Cardinality(S) -> S]
    BY DEF Sorted, SetToSeqs
<1>4. w \in Seq(S)
    BY <1>2, <1>3
<1>5. w \in Seq(Update)
    BY <1>4, SeqMonotonic
<1> QED
    BY <1>3, <1>5 DEF ToSet

(* Every variable keeps its type, and main holds each mutex just where the *)
(* code does (main.cpp:99-146).                                            *)
THEOREM TypeCorrect == Spec => []TypeOK
<1> USE BoundsAssumption
<1>1. Init => TypeOK
    <2>1. /\ <<>> \in Seq(Frame) /\ <<>> \in Seq(Update)
          /\ <<>> \in Seq(Request) /\ <<>> \in Seq(Nat)
        BY EmptySeq
    <2>2. 0 \in 0..MaxCommands /\ 0 \in 0..MaxEdits
        OBVIOUS
    <2> QED BY <2>1, <2>2 DEF Init, TypeOK, MainPcs
<1>2. TypeOK /\ [Next]_vars => TypeOK'
    <2> SUFFICES ASSUME TypeOK, [Next]_vars PROVE TypeOK'
        OBVIOUS
    <2> USE DEF TypeOK, MainPcs, mainVars, frameVars, ackVars, eventVars,
                injectVars, socketVars
    <2>1. ASSUME NEW i \in Interface, PushFrame(i) PROVE TypeOK'
        <3> DEFINE frame == <<i, Len(PushedBy(i)) + 1>>
        <3>1. frame \in Frame /\ frame_queue' = Append(frame_queue, frame)
                             /\ pushed' = Append(pushed, frame)
            BY <2>1 DEF PushFrame
        <3> HIDE DEF frame
        <3>2. frame_queue' \in Seq(Frame) /\ pushed' \in Seq(Frame)
            BY <3>1, AppendProperties
        <3> QED BY <2>1, <3>2 DEF PushFrame, Notify
    <2>2. CASE Tick
        BY <2>2 DEF Tick
    <2>3. CASE TickNotify
        BY <2>3 DEF TickNotify, Notify
    <2>4. CASE WaitForChanges
        <3> PICK kinds \in Edit :
                /\ events_needing_update' \in
                       Sorted(ToSet(events_needing_update) \cup (kinds \X {edits + 1}))
                /\ updates_posted' = updates_posted \cup (kinds \X {edits + 1})
            BY <2>4 DEF WaitForChanges
        <3>1. edits' \in 1..MaxEdits /\ edits' = edits + 1
            BY <2>4 DEF WaitForChanges
        <3>2. kinds \X {edits + 1} \subseteq Update
            BY <3>1 DEF Update
        <3>3. ToSet(events_needing_update) \subseteq Update
            BY DEF ToSet
        <3>4. events_needing_update' \in Seq(Update)
            BY <3>2, <3>3, SortedType
        <3> QED BY <2>4, <3>1, <3>2, <3>4 DEF WaitForChanges
    <2>5. CASE FlagEvents
        BY <2>5 DEF FlagEvents
    <2>6. CASE EventsNotify
        BY <2>6 DEF EventsNotify, Notify
    <2>7. CASE InjectCommand
        BY <2>7 DEF InjectCommand
    <2>8. CASE InjectNotify
        BY <2>8 DEF InjectNotify, Notify
    <2>9. CASE PushRequest
        BY <2>9, AppendProperties DEF PushRequest
    <2>10. CASE FlagSocket
        BY <2>10 DEF FlagSocket
    <2>11. CASE SocketNotify
        BY <2>11 DEF SocketNotify, Notify
    <2>12. CASE SpuriousWakeup
        BY <2>12 DEF SpuriousWakeup, Goto
    <2>13. CASE LockFrames
        BY <2>13 DEF LockFrames, Goto
    <2>14. CASE HandleFrame
        BY <2>14, HeadTailProperties, AppendProperties DEF HandleFrame
    <2>15. CASE UnlockFrames
        BY <2>15 DEF UnlockFrames, Goto
    <2>16. CASE CheckAcks \/ ResetAcks
        BY <2>16 DEF CheckAcks, ResetAcks, Goto
    <2>17. CASE TestEvents
        BY <2>17 DEF TestEvents, Goto
    <2>18. CASE UpdateEvents
        <3>1. ToSet(events_needing_update) \subseteq Update
            BY DEF ToSet
        <3>2. events_needing_update' \in Seq(Update)
            BY <2>18, EmptySeq DEF UpdateEvents
        <3> QED BY <2>18, <3>1, <3>2 DEF UpdateEvents, Goto
    <2>19. CASE ResetEvents
        BY <2>19 DEF ResetEvents, Goto
    <2>20. CASE TestInject
        BY <2>20 DEF TestInject, Goto
    <2>21. CASE SendCommand
        <3>1. commands_sent' \in Seq(Nat)
            BY <2>21, AppendProperties DEF SendCommand
        <3> QED BY <2>21, <3>1 DEF SendCommand, Goto
    <2>22. CASE ResetInject
        BY <2>22 DEF ResetInject, Goto
    <2>23. CASE TestSocket
        BY <2>23 DEF TestSocket, Goto
    <2>24. CASE ParseSocketInput
        <3>1. ToSet(socket_requests) \subseteq Request
            BY DEF ToSet
        <3>2. socket_requests' \in Seq(Request)
            BY <2>24, EmptySeq DEF ParseSocketInput
        <3> QED BY <2>24, <3>1, <3>2 DEF ParseSocketInput, Goto
    <2>25. CASE ResetSocket
        BY <2>25 DEF ResetSocket, Goto
    <2>26. CASE UNCHANGED vars
        BY <2>26 DEF vars
    <2> QED
        BY <2>1, <2>2, <2>3, <2>4, <2>5, <2>6, <2>7, <2>8, <2>9, <2>10, <2>11,
           <2>12, <2>13, <2>14, <2>15, <2>16, <2>17, <2>18, <2>19, <2>20, <2>21,
           <2>22, <2>23, <2>24, <2>25, <2>26
        DEF Next, MainThread, TickerThread, EventsThread, SocketThread
<1> QED
    BY <1>1, <1>2, PTL DEF Spec

----------------------------------------------------------------------------
(* What the main thread knows of the vector of updates while it holds      *)
(* events_mutex: it has just emptied it, and nobody else can fill it.      *)
EventsInv ==
    /\ EventsNeverStranded
    /\ main_pc = "events_reset" => events_needing_update = <<>>

(* No edit of the flows file waits for the next one: updates that wait     *)
(* have their flag up, or are about to.  It rests on the flag being        *)
(* lowered under events_mutex (main.cpp:124-126).                          *)
THEOREM NoEventStranded == Spec => []EventsNeverStranded
<1>1. Init => EventsInv
    BY DEF Init, EventsInv, EventsNeverStranded
<1>2. TypeOK /\ EventsInv /\ [Next]_vars => EventsInv'
    <2> SUFFICES ASSUME TypeOK, EventsInv, [Next]_vars PROVE EventsInv'
        OBVIOUS
    <2> USE DEF EventsInv, EventsNeverStranded, mainVars, frameVars, ackVars,
                eventVars, injectVars, socketVars
    <2>1. events_lock = (main_pc = "events_reset")
        BY DEF TypeOK
    <2>2. CASE UNCHANGED eventVars /\ main_pc' # "events_reset"
        BY <2>2
    <2>3. CASE WaitForChanges
        BY <2>1, <2>3 DEF WaitForChanges
    <2>4. CASE FlagEvents
        BY <2>4 DEF FlagEvents
    <2>5. CASE EventsNotify
        BY <2>5 DEF EventsNotify, Notify
    <2>6. CASE UpdateEvents
        BY <2>6 DEF UpdateEvents, Goto
    <2>7. CASE ResetEvents
        BY <2>7 DEF ResetEvents, Goto
    <2>8. ASSUME UNCHANGED eventVars, Notify \/ UNCHANGED main_pc PROVE EventsInv'
        BY <2>8 DEF Notify
    <2>9. CASE (\E i \in Interface : PushFrame(i)) \/ TickerThread \/ InjectCommand
              \/ InjectNotify \/ PushRequest \/ SocketThread \/ HandleFrame
        BY <2>8, <2>9 DEF PushFrame, TickerThread, Tick, TickNotify, InjectCommand,
            InjectNotify, PushRequest, SocketThread, FlagSocket, SocketNotify,
            HandleFrame
    <2>10. CASE SpuriousWakeup \/ LockFrames \/ UnlockFrames \/ CheckAcks \/ ResetAcks
               \/ TestEvents \/ TestInject \/ SendCommand \/ ResetInject
               \/ TestSocket \/ ParseSocketInput \/ ResetSocket
        BY <2>2, <2>10 DEF SpuriousWakeup, LockFrames, UnlockFrames, CheckAcks,
            ResetAcks, TestEvents, TestInject, SendCommand, ResetInject,
            TestSocket, ParseSocketInput, ResetSocket, Goto
    <2>11. CASE UNCHANGED vars
        BY <2>11 DEF vars
    <2> QED
        BY <2>3, <2>4, <2>5, <2>6, <2>7, <2>9, <2>10, <2>11
        DEF Next, MainThread, EventsThread
<1>3. EventsInv => EventsNeverStranded
    BY DEF EventsInv
<1> QED
    BY <1>1, <1>2, <1>3, TypeCorrect, PTL DEF Spec

(* Frames are handled in the order in which the interface threads queued   *)
(* them, each once (main.cpp:90-93 and 111-115).                           *)
THEOREM FrameOrder == Spec => []FramesInOrder
<1>1. Init => FramesInOrder
    BY ConcatEmptySeq, EmptySeq DEF Init, FramesInOrder
<1>2. TypeOK /\ FramesInOrder /\ [Next]_vars => FramesInOrder'
    <2> SUFFICES ASSUME TypeOK, FramesInOrder, [Next]_vars PROVE FramesInOrder'
        OBVIOUS
    <2>1. handled \in Seq(Frame) /\ frame_queue \in Seq(Frame) /\ pushed \in Seq(Frame)
        BY DEF TypeOK
    <2>2. ASSUME NEW i \in Interface, PushFrame(i) PROVE FramesInOrder'
        <3> DEFINE frame == <<i, Len(PushedBy(i)) + 1>>
        <3>1. /\ frame \in Frame
              /\ frame_queue' = Append(frame_queue, frame)
              /\ pushed' = Append(pushed, frame)
              /\ handled' = handled
            BY <2>2 DEF PushFrame
        <3> HIDE DEF frame
        <3>2. <<frame>> \in Seq(Frame)
            BY <3>1
        <3>3. handled \o (frame_queue \o <<frame>>) = (handled \o frame_queue) \o <<frame>>
            BY <2>1, <3>2, ConcatAssociative
        <3>4. Append(frame_queue, frame) = frame_queue \o <<frame>>
            BY <2>1, <3>1, AppendIsConcat
        <3>5. Append(pushed, frame) = pushed \o <<frame>>
            BY <2>1, <3>1, AppendIsConcat
        <3> QED BY <3>1, <3>3, <3>4, <3>5 DEF FramesInOrder
    <2>3. CASE HandleFrame
        <3> DEFINE h == Head(frame_queue)
                   t == Tail(frame_queue)
        <3>1. frame_queue # <<>> /\ handled' = Append(handled, h)
              /\ frame_queue' = t /\ pushed' = pushed
            BY <2>3 DEF HandleFrame
        <3>2. h \in Frame /\ t \in Seq(Frame)
            BY <2>1, <3>1, HeadTailProperties
        <3>3. frame_queue = <<h>> \o t
            BY <2>1, <3>1
        <3> HIDE DEF h, t
        <3>4. Append(handled, h) = handled \o <<h>> /\ <<h>> \in Seq(Frame)
            BY <2>1, <3>2, AppendIsConcat
        <3>5. (handled \o <<h>>) \o t = handled \o (<<h>> \o t)
            BY <2>1, <3>2, <3>4, ConcatAssociative
        <3> QED BY <3>1, <3>3, <3>4, <3>5 DEF FramesInOrder
    <2>4. CASE UNCHANGED <<handled, frame_queue, pushed>>
        BY <2>4 DEF FramesInOrder
    <2>5. Next => \/ \E i \in Interface : PushFrame(i)
                  \/ HandleFrame
                  \/ UNCHANGED <<handled, frame_queue, pushed>>
        BY DEF Next, MainThread, TickerThread, EventsThread, SocketThread, frameVars,
            SpuriousWakeup, LockFrames, UnlockFrames, CheckAcks, ResetAcks,
            TestEvents, UpdateEvents, ResetEvents, TestInject, SendCommand,
            ResetInject, TestSocket, ParseSocketInput, ResetSocket, Tick,
            TickNotify, WaitForChanges, FlagEvents, EventsNotify, InjectCommand,
            InjectNotify, PushRequest, FlagSocket, SocketNotify
    <2> QED
        BY <2>2, <2>3, <2>4, <2>5 DEF vars, frameVars
<1> QED
    BY <1>1, <1>2, TypeCorrect, PTL DEF Spec

----------------------------------------------------------------------------
(* A command is newer than all that were sent, except between its sending  *)
(* and the reset; it does not go away between the test and the sending.    *)
CommandsInv ==
    /\ CommandsSentOnce
    /\ command_to_inject <= injected
    /\ \A k \in DOMAIN commands_sent : commands_sent[k] <= injected
    /\ main_pc # "inject_reset" /\ command_to_inject > 0 =>
           \A k \in DOMAIN commands_sent : commands_sent[k] < command_to_inject
    /\ main_pc = "inject_send" => command_to_inject > 0

(* The main thread reads the command twice and clears it without a mutex   *)
(* while the inject thread writes it (main.cpp:130-133): still no command  *)
(* goes out twice or behind a later one.                                   *)
THEOREM CommandsOnce == Spec => []CommandsSentOnce
<1>1. Init => CommandsInv
    BY DEF Init, CommandsInv, CommandsSentOnce
<1>2. TypeOK /\ CommandsInv /\ [Next]_vars => CommandsInv'
    <2> SUFFICES ASSUME TypeOK, CommandsInv, [Next]_vars PROVE CommandsInv'
        OBVIOUS
    <2> USE DEF mainVars, frameVars, ackVars, eventVars, injectVars, socketVars
    <2>1. command_to_inject \in Nat /\ injected \in Nat /\ commands_sent \in Seq(Nat)
        BY BoundsAssumption DEF TypeOK
    <2>2. \A k \in DOMAIN commands_sent : commands_sent[k] \in Nat
        BY <2>1
    <2>3. CASE InjectCommand
        BY <2>1, <2>2, <2>3 DEF InjectCommand, CommandsInv, CommandsSentOnce
    <2>4. CASE SendCommand
        <3> DEFINE n == Len(commands_sent)
        <3>1. /\ main_pc = "inject_send" /\ main_pc' = "inject_reset"
              /\ commands_sent' = Append(commands_sent, command_to_inject)
              /\ UNCHANGED <<command_to_inject, injected>>
            BY <2>4 DEF SendCommand, Goto
        <3>2. \A k \in DOMAIN commands_sent : commands_sent[k] < command_to_inject
            BY <3>1 DEF CommandsInv
        <3>3. /\ n \in Nat /\ DOMAIN commands_sent = 1..n /\ DOMAIN commands_sent' = 1..(n + 1)
              /\ commands_sent'[n + 1] = command_to_inject
              /\ \A k \in 1..n : commands_sent'[k] = commands_sent[k]
            BY <2>1, <3>1, AppendProperties, LenProperties
        <3> HIDE DEF n
        <3>4. CommandsSentOnce'
            <4> SUFFICES ASSUME NEW j \in 1..(n + 1), NEW k \in 1..(n + 1), j < k
                         PROVE  commands_sent'[j] < commands_sent'[k]
                BY <3>3 DEF CommandsSentOnce
            <4>1. j \in 1..n
                BY <3>3
            <4>2. CASE k \in 1..n
                BY <3>3, <4>1, <4>2 DEF CommandsInv, CommandsSentOnce
            <4>3. CASE k = n + 1
                BY <3>2, <3>3, <4>1, <4>3
            <4> QED BY <3>3, <4>2, <4>3
        <3>5. \A k \in 1..(n + 1) : commands_sent'[k] <= injected
            <4>1. \A k \in 1..n : commands_sent'[k] <= injected
                BY <3>3 DEF CommandsInv
            <4>2. commands_sent'[n + 1] <= injected
                BY <3>3 DEF CommandsInv
            <4> QED BY <3>3, <4>1, <4>2
        <3> QED BY <3>1, <3>3, <3>4, <3>5 DEF CommandsInv
    <2>5. CASE ResetInject
        BY <2>1, <2>5 DEF ResetInject, Goto, CommandsInv, CommandsSentOnce
    <2>6. CASE TestInject
        BY <2>1, <2>6 DEF TestInject, Goto, CommandsInv, CommandsSentOnce
    <2>7. ASSUME UNCHANGED <<command_to_inject, injected, commands_sent>>,
                 \/ main_pc' = main_pc
                 \/ main_pc # "inject_reset" /\ main_pc' # "inject_send"
          PROVE  CommandsInv'
        BY <2>7 DEF CommandsInv, CommandsSentOnce
    <2>8. CASE (\E i \in Interface : PushFrame(i)) \/ TickerThread \/ WaitForChanges
              \/ EventsThread \/ InjectNotify \/ PushRequest \/ SocketThread
              \/ HandleFrame
        BY <2>7, <2>8 DEF PushFrame, TickerThread, Tick, TickNotify, WaitForChanges,
            EventsThread, FlagEvents, EventsNotify, InjectNotify, PushRequest,
            SocketThread, FlagSocket, SocketNotify, HandleFrame, Notify
    <2>9. CASE SpuriousWakeup \/ LockFrames \/ UnlockFrames \/ CheckAcks \/ ResetAcks
               \/ TestEvents \/ UpdateEvents \/ ResetEvents
               \/ TestSocket \/ ParseSocketInput \/ ResetSocket
        BY <2>7, <2>9 DEF SpuriousWakeup, LockFrames, UnlockFrames, CheckAcks,
            ResetAcks, TestEvents, UpdateEvents, ResetEvents, TestSocket,
            ParseSocketInput, ResetSocket, Goto
    <2>10. CASE UNCHANGED vars
        BY <2>7, <2>10 DEF vars
    <2> QED
        BY <2>3, <2>4, <2>5, <2>6, <2>8, <2>9, <2>10 DEF Next, MainThread
<1>3. CommandsInv => CommandsSentOnce
    BY DEF CommandsInv
<1> QED
    BY <1>1, <1>2, <1>3, TypeCorrect, PTL DEF Spec

----------------------------------------------------------------------------
(* What is handled was pushed. *)
LEMMA HandledWerePushed ==
    ASSUME TypeOK, FramesInOrder
    PROVE  ToSet(handled) \subseteq ToSet(pushed) /\ ToSet(frame_queue) \subseteq ToSet(pushed)
<1>1. handled \in Seq(Frame) /\ frame_queue \in Seq(Frame) /\ pushed \in Seq(Frame)
    BY DEF TypeOK
<1> DEFINE m == Len(handled)
           n == Len(frame_queue)
<1>2. /\ m \in Nat /\ n \in Nat /\ DOMAIN handled = 1..m /\ DOMAIN frame_queue = 1..n
      /\ DOMAIN pushed = 1..(m + n)
      /\ \A i \in 1..(m + n) :
            pushed[i] = IF i <= m THEN handled[i] ELSE frame_queue[i - m]
    BY <1>1, ConcatProperties, LenProperties DEF FramesInOrder
<1> HIDE DEF m, n
<1>3. ASSUME NEW i \in 1..m PROVE handled[i] \in ToSet(pushed)
    <2>1. i \in 1..(m + n) /\ pushed[i] = handled[i]
        BY <1>2
    <2> QED BY <1>2, <2>1 DEF ToSet
<1>4. ASSUME NEW i \in 1..n PROVE frame_queue[i] \in ToSet(pushed)
    <2>1. i + m \in 1..(m + n) /\ ~(i + m <= m) /\ (i + m) - m = i
        BY <1>2
    <2>2. pushed[i + m] = frame_queue[i]
        BY <1>2, <2>1
    <2> QED BY <1>2, <2>1, <2>2 DEF ToSet
<1> QED BY <1>2, <1>3, <1>4 DEF ToSet

(* One element more at the end of a sequence is one element more. *)
LEMMA ToSetAppend ==
    ASSUME NEW S, NEW q \in Seq(S), NEW e \in S
    PROVE  ToSet(Append(q, e)) = ToSet(q) \cup {e} /\ ToSet(q) \in SUBSET S
<1>1. Append(q, e) \in Seq(S) /\ Len(Append(q, e)) = Len(q) + 1 /\ Len(q) \in Nat
    BY AppendProperties, LenProperties
<1>2. Append(q, e)[Len(q) + 1] = e /\ \A i \in 1..Len(q) : Append(q, e)[i] = q[i]
    BY AppendProperties
<1> QED BY <1>1, <1>2 DEF ToSet

(* Frames implement the safe half of a mailbox: whatever is passed to      *)
(* CanManager was pushed before, and a frame pushed or handled stays so.   *)
(* The other half, that all are taken in the end, is left to TLC.          *)
THEOREM FramesAreMailbox == Spec => Frames!Safe
<1>1. Init => Frames!Init
    BY DEF Init, Frames!Init, ToSet
<1>2. TypeOK /\ FramesInOrder /\ [Next]_vars => [Frames!Next]_(Frames!vars)
    <2> SUFFICES ASSUME TypeOK, FramesInOrder, [Next]_vars
                 PROVE  [Frames!Next]_(Frames!vars)
        OBVIOUS
    <2>1. /\ handled \in Seq(Frame) /\ frame_queue \in Seq(Frame) /\ pushed \in Seq(Frame)
          /\ ToSet(handled) \subseteq ToSet(pushed) /\ ToSet(frame_queue) \subseteq ToSet(pushed)
        BY HandledWerePushed DEF TypeOK
    <2>2. ASSUME NEW i \in Interface, PushFrame(i) PROVE Frames!Post
        <3> DEFINE frame == <<i, Len(PushedBy(i)) + 1>>
        <3>1. frame \in Frame /\ pushed' = Append(pushed, frame) /\ handled' = handled
            BY <2>2 DEF PushFrame
        <3> HIDE DEF frame
        <3>2. ToSet(pushed') = ToSet(pushed) \cup {frame} /\ ToSet(pushed) \in SUBSET Frame
            BY <2>1, <3>1, ToSetAppend
        <3> QED BY <3>1, <3>2 DEF Frames!Post
    <2>3. CASE HandleFrame
        <3> DEFINE h == Head(frame_queue)
        <3>1. frame_queue # <<>> /\ handled' = Append(handled, h) /\ pushed' = pushed
            BY <2>3 DEF HandleFrame
        <3>2. h \in ToSet(frame_queue) /\ h \in Frame
            BY <2>1, <3>1, HeadTailProperties, LenProperties, EmptySeq DEF ToSet
        <3> HIDE DEF h
        <3>3. ToSet(handled') = ToSet(handled) \cup {h}
            BY <2>1, <3>1, <3>2, ToSetAppend
        <3>4. Frames!Take
            BY <2>1, <3>1, <3>2, <3>3 DEF Frames!Take
        <3> QED BY <3>4 DEF Frames!Next
    <2>4. CASE UNCHANGED <<handled, pushed>>
        BY <2>4 DEF Frames!vars
    <2>5. Next => \/ \E i \in Interface : PushFrame(i)
                  \/ HandleFrame
                  \/ UNCHANGED <<handled, pushed>>
        BY DEF Next, MainThread, TickerThread, EventsThread, SocketThread, frameVars,
            SpuriousWakeup, LockFrames, UnlockFrames, CheckAcks, ResetAcks,
            TestEvents, UpdateEvents, ResetEvents, TestInject, SendCommand,
            ResetInject, TestSocket, ParseSocketInput, ResetSocket, Tick,
            TickNotify, WaitForChanges, FlagEvents, EventsNotify, InjectCommand,
            InjectNotify, PushRequest, FlagSocket, SocketNotify
    <2> QED
        BY <2>2, <2>3, <2>4, <2>5 DEF vars, frameVars, Frames!Next
<1> QED
    BY <1>1, <1>2, TypeCorrect, FrameOrder, PTL DEF Spec, Frames!Safe

(* What waits was posted, and so was what is taken.                        *)
WaitingInv ==
    /\ ToSet(events_needing_update) \cup updates_sent \subseteq updates_posted
    /\ ToSet(socket_requests) \cup requests_taken \subseteq requests_posted

(* Event updates: what is sent to the modules was called for by an edit    *)
(* before (main.cpp:117-127), through the sorting of the whole vector.     *)
(* Socket requests: what parse_socket_input takes was posted before        *)
(* (main.cpp:136-143).  Both implement the safe half of a mailbox, though  *)
(* requests do not implement the other one.                                *)
THEOREM UpdatesAndRequestsAreMailboxes == Spec => Updates!Safe /\ Requests!Safe
<1>1. Init => WaitingInv /\ Updates!Init /\ Requests!Init
    BY DEF Init, WaitingInv, Updates!Init, Requests!Init, ToSet
<1>2. TypeOK /\ TypeOK' /\ WaitingInv /\ [Next]_vars =>
          WaitingInv' /\ [Updates!Next]_(Updates!vars) /\ [Requests!Next]_(Requests!vars)
    <2> SUFFICES ASSUME TypeOK, TypeOK', WaitingInv, [Next]_vars
                 PROVE  /\ WaitingInv' /\ [Updates!Next]_(Updates!vars)
                        /\ [Requests!Next]_(Requests!vars)
        OBVIOUS
    <2> USE DEF eventVars, socketVars, Updates!vars, Requests!vars
    <2>1. CASE WaitForChanges
        <3> PICK kinds \in Edit :
                /\ events_needing_update' \in
                       Sorted(ToSet(events_needing_update) \cup (kinds \X {edits + 1}))
                /\ updates_posted' = updates_posted \cup (kinds \X {edits + 1})
            BY <2>1 DEF WaitForChanges
        <3> DEFINE new == kinds \X {edits + 1}
        <3>1. updates_posted' \subseteq Update /\ UNCHANGED socketVars /\ updates_sent' = updates_sent
            BY <2>1 DEF WaitForChanges, TypeOK
        <3>2. updates_posted' = updates_posted \cup new
            OBVIOUS
        <3>3. events_needing_update' \in Sorted(ToSet(events_needing_update) \cup new)
            OBVIOUS
        <3> HIDE DEF new
        <3>4. ToSet(events_needing_update) \cup new \subseteq Update
            <4>1. ToSet(events_needing_update) \subseteq Update
                BY DEF TypeOK, ToSet
            <4> QED BY <3>1, <3>2, <4>1
        <3>5. ToSet(events_needing_update') \subseteq ToSet(events_needing_update) \cup new
            BY <3>3, <3>4, SortedType
        <3>6. WaitingInv'
            BY <3>1, <3>2, <3>5 DEF WaitingInv
        <3>7. Updates!Post
            BY <3>1, <3>2 DEF Updates!Post
        <3> QED BY <3>1, <3>6, <3>7 DEF Updates!Next
    <2>2. CASE UpdateEvents
        <3>1. /\ updates_sent' = updates_sent \cup ToSet(events_needing_update)
              /\ events_needing_update' = <<>> /\ UNCHANGED <<updates_posted, socketVars>>
            BY <2>2 DEF UpdateEvents
        <3>2. ToSet(events_needing_update') = {}
            BY <3>1 DEF ToSet
        <3>3. WaitingInv'
            BY <3>1, <3>2 DEF WaitingInv
        <3>4. Updates!Take
            BY <3>1 DEF WaitingInv, Updates!Take
        <3> QED BY <3>1, <3>3, <3>4 DEF Updates!Next
    <2>3. CASE PushRequest
        <3>1. PICK r \in Request :
                /\ socket_requests' = Append(socket_requests, r)
                /\ requests_posted' = requests_posted \cup {r}
            BY <2>3 DEF PushRequest
        <3>2. UNCHANGED eventVars /\ requests_taken' = requests_taken
            BY <2>3 DEF PushRequest
        <3>3. ToSet(socket_requests') = ToSet(socket_requests) \cup {r}
            BY <3>1, ToSetAppend DEF TypeOK
        <3>4. WaitingInv'
            BY <3>1, <3>2, <3>3 DEF WaitingInv
        <3>5. Requests!Post
            BY <3>1, <3>2 DEF Requests!Post, TypeOK
        <3> QED BY <3>2, <3>4, <3>5 DEF Requests!Next
    <2>4. CASE ParseSocketInput
        <3>1. /\ requests_taken' = requests_taken \cup ToSet(socket_requests)
              /\ socket_requests' = <<>> /\ UNCHANGED <<requests_posted, eventVars>>
            BY <2>4 DEF ParseSocketInput
        <3>2. ToSet(socket_requests') = {}
            BY <3>1 DEF ToSet
        <3>3. WaitingInv'
            BY <3>1, <3>2 DEF WaitingInv
        <3>4. Requests!Take
            BY <3>1 DEF WaitingInv, Requests!Take
        <3> QED BY <3>1, <3>3, <3>4 DEF Requests!Next
    <2>5. CASE UNCHANGED <<events_needing_update, updates_posted, updates_sent,
                           socket_requests, requests_posted, requests_taken>>
        BY <2>5 DEF WaitingInv
    <2>6. Next => \/ WaitForChanges \/ UpdateEvents \/ PushRequest \/ ParseSocketInput
                  \/ UNCHANGED <<events_needing_update, updates_posted, updates_sent,
                                 socket_requests, requests_posted, requests_taken>>
        BY DEF Next, MainThread, TickerThread, EventsThread, SocketThread,
            SpuriousWakeup, LockFrames, HandleFrame, UnlockFrames, CheckAcks, ResetAcks,
            TestEvents, ResetEvents, TestInject, SendCommand, PushFrame,
            ResetInject, TestSocket, ResetSocket, Tick, TickNotify, FlagEvents,
            EventsNotify, InjectCommand, InjectNotify, FlagSocket, SocketNotify
    <2> QED
        BY <2>1, <2>2, <2>3, <2>4, <2>5, <2>6 DEF vars
<1> QED
    BY <1>1, <1>2, TypeCorrect, PTL DEF Spec, Updates!Safe, Requests!Safe
============================================================================
