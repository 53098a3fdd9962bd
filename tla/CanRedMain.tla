----------------------------- MODULE CanRedMain -----------------------------
(***************************************************************************)
(* The threads of CanRed (src/CanRed/src/main.cpp).  The main thread       *)
(* sleeps on a condition variable; the interface, ticker, events, inject   *)
(* and socket threads each post work in a place of their own, raise a flag *)
(* (frames have none) and notify.  main_lock is held by the main thread    *)
(* alone, cv.wait has no predicate, so a notify that finds the main thread *)
(* outside wait is lost.                                                   *)
(*                                                                         *)
(* One action per step between two accesses to shared state.  A frame, an  *)
(* event update, an injected command and a socket request are numbers in   *)
(* the order in which they came into being, so each is distinct.  What     *)
(* CanManager does with a frame or an update is in other modules: here it  *)
(* is handled once it has been passed to CanManager.                       *)
(***************************************************************************)
EXTENDS Naturals, Sequences, FiniteSets, SequencesExt

CONSTANTS
    Interface,      \* the bus interfaces, one reading thread each
    MaxFrames,      \* bound: frames an interface reads
    Edit,           \* what an edit of the flows file may call for: kinds of updates
    MaxEdits,       \* bound: times the flows file changes
    MaxCommands,    \* bound: commands written to the inject file
    MaxRequests     \* bound: requests clients send over the socket

ASSUME BoundsAssumption ==
    /\ MaxFrames \in [Interface -> Nat]
    /\ Edit \subseteq (SUBSET {"remove", "add"}) \ {{}}
    /\ {MaxEdits, MaxCommands, MaxRequests} \subseteq Nat

Frame == UNION {{i} \X (1..MaxFrames[i]) : i \in Interface}
Update == {"remove", "add"} \X (1..MaxEdits)
Request == 1..MaxRequests

VARIABLES
    main_pc,                    \* where the main thread is in its loop
    frame_queue, frame_lock,    \* the queue, and whether main holds its mutex
    should_check_acks, ticker_pc,
    events_needing_update, events_lock, do_events_need_updating, events_pc,
    command_to_inject, inject_pc,
    socket_requests, do_we_have_new_socket_data, socket_pc,
    pushed, handled,    \* history: frames pushed and frames passed to CanManager
    edits, updates_posted, updates_sent,    \* history: event updates
    injected, commands_sent,                \* history: injected commands
    requests_posted, requests_taken         \* history: socket requests

mainVars == <<main_pc>>
frameVars == <<frame_queue, frame_lock, pushed, handled>>
ackVars == <<should_check_acks, ticker_pc>>
eventVars == <<events_needing_update, events_lock, do_events_need_updating,
               events_pc, edits, updates_posted, updates_sent>>
injectVars == <<command_to_inject, inject_pc, injected, commands_sent>>
socketVars == <<socket_requests, do_we_have_new_socket_data, socket_pc,
                requests_posted, requests_taken>>
vars == <<main_pc, frameVars, ackVars, eventVars, injectVars, socketVars>>

Init ==
    /\ main_pc = "wait"
    /\ frame_queue = <<>> /\ frame_lock = FALSE
    /\ should_check_acks = FALSE /\ ticker_pc = "sleep"
    /\ events_needing_update = <<>> /\ events_lock = FALSE
    /\ do_events_need_updating = FALSE /\ events_pc = "watch"
    /\ command_to_inject = 0 /\ inject_pc = "watch"
    /\ socket_requests = <<>> /\ do_we_have_new_socket_data = FALSE
    /\ socket_pc = "watch"
    /\ pushed = <<>> /\ handled = <<>>
    /\ edits = 0 /\ updates_posted = {} /\ updates_sent = {}
    /\ injected = 0 /\ commands_sent = <<>>
    /\ requests_posted = {} /\ requests_taken = {}

(* cv.notify_one: it wakes the main thread if that sleeps, and is lost     *)
(* otherwise.                                                              *)
Notify == main_pc' = IF main_pc = "wait" THEN "frames_lock" ELSE main_pc

----------------------------------------------------------------------------
(* An interface thread blocks until it has read a frame, and then until it *)
(* has the mutex: nobody sees the frame before that.  Nobody sees the      *)
(* queue between the push and the notify either, the mutex is held until   *)
(* after both.                                                             *)

PushedBy(i) == SelectSeq(pushed, LAMBDA f : f[1] = i)

(* Mutant: one slot for the last frame, where the code has a queue. *)
PushFrameInSlot(i) ==
    LET frame == <<i, Len(PushedBy(i)) + 1>> IN
    /\ frame \in Frame
    /\ ~frame_lock
    /\ frame_queue' = <<frame>>
    /\ pushed' = Append(pushed, frame)
    /\ Notify
    /\ UNCHANGED <<frame_lock, handled, ackVars, eventVars, injectVars, socketVars>>

PushFrame(i) ==
    LET frame == <<i, Len(PushedBy(i)) + 1>> IN
    /\ frame \in Frame
    /\ ~frame_lock
    /\ frame_queue' = Append(frame_queue, frame)
    /\ pushed' = Append(pushed, frame)
    /\ Notify
    /\ UNCHANGED <<frame_lock, handled, ackVars, eventVars, injectVars, socketVars>>

----------------------------------------------------------------------------
(* The ticker: every three seconds, whatever else happens.                 *)

Tick ==
    /\ ticker_pc = "sleep"
    /\ should_check_acks' = TRUE
    /\ ticker_pc' = "notify"
    /\ UNCHANGED <<mainVars, frameVars, eventVars, injectVars, socketVars>>

(* Mutant: the ticker raises its flag and leaves the main thread asleep. *)
TickSilently ==
    /\ ticker_pc = "notify"
    /\ ticker_pc' = "sleep"
    /\ UNCHANGED <<mainVars, should_check_acks, frameVars, eventVars, injectVars,
                   socketVars>>

TickNotify ==
    /\ ticker_pc = "notify"
    /\ ticker_pc' = "sleep"
    /\ Notify
    /\ UNCHANGED <<should_check_acks, frameVars, eventVars, injectVars, socketVars>>

TickerThread == Tick \/ TickNotify

----------------------------------------------------------------------------
(* The events thread: wait_for_changes scans the flows file and appends    *)
(* the updates it calls for, all under events_mutex, and sorts what is in  *)
(* the vector by then: removals first.  A scan that finds nothing to       *)
(* update changes nothing here.                                            *)

RemovalsFirst(updates) ==
    \A j, k \in DOMAIN updates : j < k => ~(updates[j][1] = "add" /\ updates[k][1] = "remove")

(* std::sort is not stable: any order of the updates with the removals first. *)
Sorted(updates) == {s \in SetToSeqs(updates) : RemovalsFirst(s)}

(* Mutant: the scan assigns the vector where the code appends to it. *)
WaitForChangesOverwrites ==
    /\ events_pc = "watch"
    /\ edits < MaxEdits
    /\ ~events_lock
    /\ edits' = edits + 1
    /\ \E kinds \in Edit :
        LET new == kinds \X {edits + 1} IN
        /\ events_needing_update' \in Sorted(new)
        /\ updates_posted' = updates_posted \cup new
        /\ events_pc' = "flag"
    /\ UNCHANGED <<mainVars, frameVars, ackVars, events_lock,
                   do_events_need_updating, updates_sent, injectVars, socketVars>>

WaitForChanges ==
    /\ events_pc = "watch"
    /\ edits < MaxEdits
    /\ ~events_lock
    /\ edits' = edits + 1
    /\ \E kinds \in Edit :
        LET new == kinds \X {edits + 1} IN
        /\ events_needing_update' \in Sorted(ToSet(events_needing_update) \cup new)
        /\ updates_posted' = updates_posted \cup new
        /\ events_pc' = "flag"
    /\ UNCHANGED <<mainVars, frameVars, ackVars, events_lock,
                   do_events_need_updating, updates_sent, injectVars, socketVars>>

FlagEvents ==
    /\ events_pc = "flag"
    /\ do_events_need_updating' = TRUE
    /\ events_pc' = "notify"
    /\ UNCHANGED <<mainVars, frameVars, ackVars, events_needing_update, events_lock,
                   edits, updates_posted, updates_sent, injectVars, socketVars>>

EventsNotify ==
    /\ events_pc = "notify"
    /\ events_pc' = "watch"
    /\ Notify
    /\ UNCHANGED <<frameVars, ackVars, events_needing_update, events_lock,
                   do_events_need_updating, edits, updates_posted, updates_sent,
                   injectVars, socketVars>>

EventsThread == FlagEvents \/ EventsNotify

----------------------------------------------------------------------------
(* The inject thread: the last command written to the inject file.         *)

InjectCommand ==
    /\ inject_pc = "watch"
    /\ injected < MaxCommands
    /\ injected' = injected + 1
    /\ command_to_inject' = injected + 1
    /\ inject_pc' = "notify"
    /\ UNCHANGED <<mainVars, frameVars, ackVars, eventVars, commands_sent, socketVars>>

InjectNotify ==
    /\ inject_pc = "notify"
    /\ inject_pc' = "watch"
    /\ Notify
    /\ UNCHANGED <<frameVars, ackVars, eventVars, command_to_inject, injected,
                   commands_sent, socketVars>>

----------------------------------------------------------------------------
(* The socket thread: a complete client message is pushed under its mutex, *)
(* which nobody holds across two of the model's steps.                     *)

PushRequest ==
    LET request == Cardinality(requests_posted) + 1 IN
    /\ socket_pc = "watch"
    /\ request \in Request
    /\ socket_requests' = Append(socket_requests, request)
    /\ requests_posted' = requests_posted \cup {request}
    /\ socket_pc' = "flag"
    /\ UNCHANGED <<mainVars, frameVars, ackVars, eventVars, injectVars,
                   do_we_have_new_socket_data, requests_taken>>

FlagSocket ==
    /\ socket_pc = "flag"
    /\ do_we_have_new_socket_data' = TRUE
    /\ socket_pc' = "notify"
    /\ UNCHANGED <<mainVars, frameVars, ackVars, eventVars, injectVars,
                   socket_requests, requests_posted, requests_taken>>

SocketNotify ==
    /\ socket_pc = "notify"
    /\ socket_pc' = "watch"
    /\ Notify
    /\ UNCHANGED <<frameVars, ackVars, eventVars, injectVars, socket_requests,
                   do_we_have_new_socket_data, requests_posted, requests_taken>>

SocketThread == FlagSocket \/ SocketNotify

----------------------------------------------------------------------------
(* The main thread.                                                        *)

Goto(from, to) == main_pc = from /\ main_pc' = to

(* The standard lets cv.wait return without a notify. *)
SpuriousWakeup ==
    /\ Goto("wait", "frames_lock")
    /\ UNCHANGED <<frameVars, ackVars, eventVars, injectVars, socketVars>>

LockFrames ==
    /\ Goto("frames_lock", "frames")
    /\ frame_lock' = TRUE
    /\ UNCHANGED <<frame_queue, pushed, handled,
                   ackVars, eventVars, injectVars, socketVars>>

HandleFrame ==
    /\ main_pc = "frames"
    /\ frame_queue # <<>>
    /\ handled' = Append(handled, Head(frame_queue))
    /\ frame_queue' = Tail(frame_queue)
    /\ UNCHANGED <<mainVars, frame_lock, pushed,
                   ackVars, eventVars, injectVars, socketVars>>

UnlockFrames ==
    /\ Goto("frames", "acks")
    /\ frame_queue = <<>>
    /\ frame_lock' = FALSE
    /\ UNCHANGED <<frame_queue, pushed, handled,
                   ackVars, eventVars, injectVars, socketVars>>

(* check_for_old_acks changes nothing the threads share. *)
CheckAcks ==
    /\ Goto("acks", IF should_check_acks THEN "acks_reset" ELSE "events")
    /\ UNCHANGED <<frameVars, ackVars, eventVars, injectVars, socketVars>>

ResetAcks ==
    /\ Goto("acks_reset", "events")
    /\ should_check_acks' = FALSE
    /\ UNCHANGED <<ticker_pc, frameVars, eventVars, injectVars, socketVars>>

TestEvents ==
    /\ Goto("events", IF do_events_need_updating THEN "events_lock" ELSE "inject")
    /\ UNCHANGED <<frameVars, ackVars, eventVars, injectVars, socketVars>>

(* Mutant: the mutex is dropped before the flag is lowered, as             *)
(* parse_socket_input does with its own.                                   *)
UpdateEventsUnlocked ==
    /\ Goto("events_lock", "events_reset")
    /\ updates_sent' = updates_sent \cup ToSet(events_needing_update)
    /\ events_needing_update' = <<>>
    /\ UNCHANGED <<frameVars, ackVars, events_lock, do_events_need_updating,
                   events_pc, edits, updates_posted, injectVars, socketVars>>

(* update_events sends every update and clears the vector. *)
UpdateEvents ==
    /\ Goto("events_lock", "events_reset")
    /\ events_lock' = TRUE
    /\ updates_sent' = updates_sent \cup ToSet(events_needing_update)
    /\ events_needing_update' = <<>>
    /\ UNCHANGED <<frameVars, ackVars, do_events_need_updating, events_pc, edits,
                   updates_posted, injectVars, socketVars>>

(* Mutant: the mutex is never dropped. *)
ResetEventsLocked ==
    /\ Goto("events_reset", "inject")
    /\ do_events_need_updating' = FALSE
    /\ UNCHANGED <<frameVars, ackVars, events_lock, events_needing_update, events_pc,
                   edits, updates_posted, updates_sent, injectVars, socketVars>>

(* events_mutex is still held when the flag is lowered. *)
ResetEvents ==
    /\ Goto("events_reset", "inject")
    /\ do_events_need_updating' = FALSE
    /\ events_lock' = FALSE
    /\ UNCHANGED <<frameVars, ackVars, events_needing_update, events_pc, edits,
                   updates_posted, updates_sent, injectVars, socketVars>>

TestInject ==
    /\ Goto("inject", IF command_to_inject > 0 THEN "inject_send" ELSE "socket")
    /\ UNCHANGED <<frameVars, ackVars, eventVars, injectVars, socketVars>>

(* The command is read a second time, after the test. *)
SendCommand ==
    /\ Goto("inject_send", "inject_reset")
    /\ commands_sent' = Append(commands_sent, command_to_inject)
    /\ UNCHANGED <<frameVars, ackVars, eventVars, command_to_inject, inject_pc,
                   injected, socketVars>>

(* Mutant: the command is not cleared. *)
ResetInjectForgets ==
    /\ Goto("inject_reset", "socket")
    /\ UNCHANGED <<frameVars, ackVars, eventVars, injectVars, socketVars>>

ResetInject ==
    /\ Goto("inject_reset", "socket")
    /\ command_to_inject' = 0
    /\ UNCHANGED <<frameVars, ackVars, eventVars, inject_pc, injected,
                   commands_sent, socketVars>>

TestSocket ==
    /\ Goto("socket", IF do_we_have_new_socket_data THEN "socket_parse" ELSE "wait")
    /\ UNCHANGED <<frameVars, ackVars, eventVars, injectVars, socketVars>>

(* parse_socket_input moves the requests into CanManager under the mutex   *)
(* and releases it; the flag is lowered afterwards, without it.            *)
ParseSocketInput ==
    /\ Goto("socket_parse", "socket_reset")
    /\ requests_taken' = requests_taken \cup ToSet(socket_requests)
    /\ socket_requests' = <<>>
    /\ UNCHANGED <<frameVars, ackVars, eventVars, injectVars,
                   do_we_have_new_socket_data, socket_pc, requests_posted>>

ResetSocket ==
    /\ Goto("socket_reset", "wait")
    /\ do_we_have_new_socket_data' = FALSE
    /\ UNCHANGED <<frameVars, ackVars, eventVars, injectVars, socket_requests,
                   socket_pc, requests_posted, requests_taken>>

MainThread ==
    \/ LockFrames \/ HandleFrame \/ UnlockFrames
    \/ CheckAcks \/ ResetAcks
    \/ TestEvents \/ UpdateEvents \/ ResetEvents
    \/ TestInject \/ SendCommand \/ ResetInject
    \/ TestSocket \/ ParseSocketInput \/ ResetSocket

Next ==
    \/ MainThread \/ SpuriousWakeup
    \/ \E i \in Interface : PushFrame(i)
    \/ TickerThread
    \/ WaitForChanges \/ EventsThread
    \/ InjectCommand \/ InjectNotify
    \/ PushRequest \/ SocketThread

Spec == Init /\ [][Next]_vars

(* The threads are scheduled: one that can run on does so.  What comes     *)
(* from outside (a frame, an edit, a command, a request) may never come,   *)
(* and so does a spurious wakeup.                                          *)
Fairness ==
    /\ WF_vars(MainThread)
    /\ WF_vars(TickerThread)
    /\ WF_vars(EventsThread)
    /\ WF_vars(InjectNotify)
    /\ WF_vars(SocketThread)

FairSpec == Spec /\ Fairness

----------------------------------------------------------------------------
(* Properties.                                                             *)

MainPcs == {"wait", "frames_lock", "frames", "acks", "acks_reset", "events",
            "events_lock", "events_reset", "inject", "inject_send",
            "inject_reset", "socket", "socket_parse", "socket_reset"}

(* Every variable has its type, and the main thread holds a mutex exactly  *)
(* between the two places of its loop where main.cpp takes and drops it.   *)
TypeOK ==
    /\ main_pc \in MainPcs
    /\ frame_queue \in Seq(Frame)
    /\ frame_lock = (main_pc = "frames")
    /\ should_check_acks \in BOOLEAN /\ ticker_pc \in {"sleep", "notify"}
    /\ events_needing_update \in Seq(Update)
    /\ events_lock = (main_pc = "events_reset")
    /\ do_events_need_updating \in BOOLEAN
    /\ events_pc \in {"watch", "flag", "notify"}
    /\ command_to_inject \in 0..MaxCommands /\ inject_pc \in {"watch", "notify"}
    /\ socket_requests \in Seq(Request)
    /\ do_we_have_new_socket_data \in BOOLEAN
    /\ socket_pc \in {"watch", "flag", "notify"}
    /\ pushed \in Seq(Frame) /\ handled \in Seq(Frame)
    /\ edits \in 0..MaxEdits
    /\ updates_posted \subseteq Update /\ updates_sent \subseteq Update
    /\ injected \in 0..MaxCommands /\ commands_sent \in Seq(Nat)
    /\ requests_posted \subseteq Request /\ requests_taken \subseteq Request

(* Frames are handled in the order in which they were pushed, none lost    *)
(* and none handled twice: those handled so far and those queued are, in   *)
(* this order, all that were pushed.                                       *)
FramesInOrder == handled \o frame_queue = pushed

(* Updates that wait for the main thread are announced: the flag is up, or *)
(* the events thread is about to raise it.  Otherwise nothing would make   *)
(* the main thread look at the vector before the next edit.                *)
EventsNeverStranded ==
    events_needing_update # <<>> => do_events_need_updating \/ events_pc = "flag"

(* A command written once to the inject file goes out on the bus at most   *)
(* once, and later commands never go out before earlier ones.              *)
CommandsSentOnce ==
    \A j, k \in DOMAIN commands_sent : j < k => commands_sent[j] < commands_sent[k]

(* Frames and event updates reach CanManager as a mailbox promises; the    *)
(* ticker makes up for the notifies that are lost.                         *)
Frames == INSTANCE Mailbox WITH Item <- Frame, posted <- ToSet(pushed), taken <- ToSet(handled)
Updates == INSTANCE Mailbox WITH Item <- Update, posted <- updates_posted, taken <- updates_sent
Requests == INSTANCE Mailbox WITH Item <- Request, posted <- requests_posted, taken <- requests_taken

(* Every frame pushed is handled, and only those. *)
FramesDelivered == Frames!Spec

(* Every event update posted is sent to the modules, and only those. *)
UpdatesDelivered == Updates!Spec

(* Every socket request a client was answered for is taken over. *)
RequestsDelivered == Requests!Spec
============================================================================
