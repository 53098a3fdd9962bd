# AutoMato in TLA+

AutoMato connects small modules (ESP32 and ESP8266 boards, a LoRa car key) to a
computer over a CAN bus or serial lines. This directory holds TLA+ models of its
protocols and schedulers, TLC configurations that check them on small
instances, and proofs, checked by TLAPS, of what matters most. Paths in this
text are relative to `src/`.

## The system

| Component | State | Operations | Talks to |
|---|---|---|---|
| **CanRed main loop** `CanRed/src/main.cpp` | one queue or flag for each of five kinds of threads, mutexes, one condition variable | six kinds of threads | CanManager (calls), the threads (shared state, notify) |
| **CanManager** `CanRed/lib/CanManager/CanManager.cpp` | known modules, pending socket requests, two handlers below | handle a frame, send event updates, take socket requests, reply | modules (frames), clients (sockets), database |
| **LongFrameHandler of CanRed** `CanRed/lib/CanManager/LongFrameHandler.cpp` | map from a group's uid to its bytes | append, steal | CanManager |
| **ACKHandler of CanRed** `CanRed/lib/CanManager/ACKHandler.cpp` | sent messages and their times | add, remove, outdated | CanManager |
| **EventManager** `CanRed/lib/EventManager` | the flow tables in the database, updates to send | scan the flows file after it changed | Node-RED (file), main loop |
| **SocketWatcher** `CanRed/lib/SocketWatcher` | clients and what they sent so far | watch, parse a message | Node-RED (unix socket), main loop |
| **Serial and MCP2515 interfaces** | a frame read in part | read, send | bus |
| **Automato** `Modules/Common/AutoMato` | uid, loaded events, the last frame | loop, handle a frame, run events, check in | everything on a module |
| **InterfaceHandler** `Modules/Common/InterfaceHandler` | interfaces, translations, table of awaited acknowledgements | read in turn, send, acknowledge | interfaces |
| **LongFrameHandler of the modules** `Modules/Common/LongFrameHandler` | four buffers of 64 bytes | append, clear | Automato |
| **Event storage** `Modules/Common/Filesystem` | a file of events with holes | store, remove, load | Automato |
| **Key fob** `Modules/KeyFobProject` | IV and rolling code of remote and car, in flash and memory | press, send, receive, run | LoRa |
| **Node-RED side** `NodeRed/src` | flows, one promise per command | compile flows, run a command | CanRed (file, socket) |

What is hard in it: threads that share flags and lose notifies; a bus that loses
frames and interleaves groups whose uids are drawn at random; acknowledgements
matched by content; state kept from one turn of a loop to the next; files and
flash that must survive a loss of power between two writes; fixed buffers.
`PROJECT.json` lists these hazards line by line.

What makes the components correct, in short: work posted to the main loop is
handled once, in order and eventually; a message sent in several frames arrives
whole, or not at all, and leaves nothing behind; a message sent waits for its own
acknowledgement; the events stored are a list that survives restarts; the car
runs each command once and in order; an IV is never used twice; a module keeps
its uid; a request is answered with its own answer; a flow runs its sections in
the order of its wires.

## Modules

| Module | Models | Composed of |
|---|---|---|
| `Mailbox` | abstract: what is posted is taken once, and eventually | |
| `CanRedMain` | every thread of `main.cpp` | implements `Mailbox` three times |
| `CanRedMainProofs` | its theorems | |
| `PendingAcks` | abstract: a table of messages that wait for their acknowledgement | |
| `InterfaceHandler` | `InterfaceHandler.cpp` and `Automato::loop` around it | implements `PendingAcks` |
| `InterfaceHandlerProofs` | its theorems | |
| `KeyFob` | remote, car and the air between them | |
| `LongFrameBus` | senders of long frames and the bus | |
| `LongFrameBusProofs` | lemmas about senders and bus, for both receivers | |
| `CanRedLongFrames`, `CanRedLongFramesProofs` | CanRed as the receiver | extends `LongFrameBus` |
| `ModuleLongFrames`, `ModuleLongFramesProofs` | a module as the receiver | extends `LongFrameBus` |
| `EventList` | abstract: what the storage of events is meant to be, a list | |
| `EventStore` | `ESP_LittleFS` and the commands that change the file | implements `EventList` but for one removal |
| `FlowCompiler` | `NodeRed/src/flow_parsing`, as operators | |
| `EventFlow` | modules that run the compiled flows together | extends `FlowCompiler` |
| `ModulesProofs` | theorems of `KeyFob`, `EventStore`, `FlowCompiler` and `EventFlow` | |
| `SocketRequests` | a command from Node-RED through CanRed to a module and back | |
| `SocketRequestsProofs` | its theorems | |
| `SerialLink`, `SerialLinkProofs` | frames over a serial line, both ends | |

`MC*.tla` give the constants small values and `MC*.cfg` say what TLC checks.
Definitions with the comment `Mutant` are the code with one plausible mistake:
they are used by no specification (but for `CanManager_send_buffer`, which is a layout of its own), and each property is violated when one of
them takes the place of the definition that follows it. `PROJECT.json` says which.

### CanRedMain

`main_pc` is the place of the main thread in `main.cpp:107-145`; the other
variables have the names of the code. The condition variable has no variable of
its own: the main thread sleeps exactly while `main_pc = "wait"`, and `Notify`
moves it on or does nothing. One action is what lies between two accesses to
shared state. `frame_lock` and `events_lock` say that the main thread holds the
mutex; the other threads hold one only within a step. That is exact where the
step is the whole critical section: nothing else it contains is shared.
`parse_socket_input` drops its mutex before it returns, so `ParseSocketInput`
and `ResetSocket` are two steps without a lock in between, which is the gap that
run `main_loop_sockets` finds. What CanManager does with a frame is left out: a
frame counts as handled when it was passed to `handle_incoming_frame`.

*Bounds.* One interface (the program opens one) with two frames, two edits that
each call for an addition and a removal, two commands, one request: two of each
kind are enough for one to arrive during every step the main thread does for the other.

*Fairness.* Every thread that can run is scheduled (weak fairness of each
thread); for the ticker this is what `sleep_for` promises. Nothing from outside
is fair: no frame, edit, command or request has to come, and no spurious wakeup.
Deliveries rest on the ticker: every three seconds it makes up for lost notifies.

### InterfaceHandler

`m_ack_buffer` is the array of the code, word by word. `add_waiting_on_ack`
writes the time over the place of the next entry (`InterfaceHandler.cpp:174`), so
`overrun` says that a word was written past the end, and `collided` that a time
was 0 or was taken for an entry. `ReadFrame` and `ReadNothing` are the two ways
through `try_read_frame`; the second works on the frame of an earlier turn, as
the code does. A message handler's replies are sends at any time, so
`send_frame_to_every_interface` is free to come with any frame of `SentFrame`.
A group of long frames is as many sends. `check_for_old_acks` and `send_debug`
have no caller and are no actions. The array starts as zeros because an Automato
object has static storage in every sketch of the repository; the constructor's
`memset` clears only a part of it. `PendingAcks` is the table as it is meant to
work: a message is recorded where nothing waits, and only its acknowledgement, when it is what
the frame acted on says (`Acknowledged`), clears it. It does not say how many places
there are: by `InterfaceHandler.h:9` they are `MAX_ACK_BUFFERS`, and run `interface_handler_capacity` shows that
half as many are full. A frame is acted on again in
later turns that read nothing, so an old acknowledgement can clear the entry of a message sent since, although
`InterfaceHandler.cpp:42` says "We read a frame that's just an ACK": in `PendingAcks` what is acted on counts, read in this turn or not.

*Bounds.* A table of 4 (12 in the code: 6 of 24 words can be entries, here 2 of 8),
so that 4 sends fill it; two interfaces bridged both ways; one clock value that
equals an entry, so that collisions happen. The run about the capacity has the code's 12 and seven sends. *Fairness.* `loop` is called for ever.

### KeyFob

Remote and car each have a program counter, parameters in memory and in flash.
The two writes of `get_next_message_params`, and of `update_saved_message_params`,
are steps of their own and each may fail; power may be lost between any two
steps of either, and each of the two values that `get_initial_message_parameters` reads afterwards
is the one in flash or, when the read fails, the default. `button_pressed` is an interrupt and comes between any two
steps; several buttons in one interrupt give the semaphore and set no command. The air is the set of all messages ever sent: one is received at any time,
any number of times, in any order. Encryption is not modelled: a message that
does not decrypt is dropped without an effect, like one that is lost. The three
hardware calls that put the remote to sleep are left out.

*Bounds.* Counters of three bits that start near their ends so that they wrap;
three presses and one loss of power. A second press is needed to have one while
another is handled, a third to have one after a loss of power. The system may
stop when nobody presses a button (`CHECK_DEADLOCK FALSE`). *Fairness.* The
remote's `main` runs when it can; nothing else has to happen.

### LongFrameBus, CanRedLongFrames, ModuleLongFrames

A sender puts the frames of a message into its queue, under a uid drawn at
random; the bus takes the next frame of any sender, or loses it. Byte *i* of
message *n* is the pair `<<n, i>>`, so a byte in the wrong place is seen.
`FramesOf` has the three ways in which the code lays out frames:
`send_stored_events`, `send_stored_configuration` (which sends more than the
configuration) and `CanManager::send_buffer_to_every_interface`. `disturbed` is
the set of uids under which a frame was lost or two groups mixed: the properties
are about groups that were not disturbed, and about what disturbed ones leave.

`CanRedLongFrames` has `m_buffers`, CanRed's map, and the order of the tests in
`handle_incoming_frame`: a first byte equal to ACKNOWLEDGEMENT is an
acknowledgement, whether or not the frame is long, so a group with the uid 128 never arrives. `ModuleLongFrames` has the
buffers byte by byte, since a buffer is free when its first byte is 0. It
says what the code does with a group that finds no buffer, is too long, or
has the uid 0: those are the uids in `refused`, and the properties are
about the others. In this repository only CanRed sends long frames to modules, and
what it sends is not laid out as `LongFrameHandler.h:6-23` says: for more than 8 bytes
`CanManager.cpp:220` makes frames of 7 at most, each of which ends a group, and puts the uid over a
byte of the message, although line 194 says "This function automatically creates LongFrames, if needed".
The run is therefore about groups that are laid out as the header says; it is what the handler is good for
once its senders follow the format. `CanManager_send_buffer` is the layout of CanRed: no run sends it,
but a mutant gives it to the senders, and `CleanGroupsArrive` is violated. `InterfaceHandler::send_buffer_to_every_interface` leaves `can_dlc` of
long frames at 0 and has no caller that gives it more than 8 bytes but one
(a command's output with 8 bytes of value); its frames are not modelled.

*Bounds.* Two senders and three messages: two groups interleaved and a third
under a uid one of them left behind. Sizes end within a frame, at its end, and
with an empty frame; for the modules, they just fit and do not fit buffers of 18
bytes (64 in the code); two buffers (4 in the code), so that both can be taken.
Uids: 0 (modules only), the one of an acknowledgement, and two others. Senders are
interchangeable, so they are a symmetry set. Messages are bounded, so the models
stop (`CHECK_DEADLOCK FALSE`).

### EventStore

The file is a sequence of bytes, `EventsIn` what a search through it finds.
`event_type_from_byte` and `serialized_size` say what a byte means as the first of
an event, with the code's sizes. Every command reloads the events, as in `Automato::parse_frame`, and
`Restart` may come at any time. LittleFS keeps a file's old or new contents when
power fails, and an append that does not fit leaves the file as it was: a command
is one step for both reasons. `hung` is a search that never ends: the code leaves
the loop for the caller's only at an event or at the end of the file, and a byte
of no event's type is neither. While `hung`, only `Restart` is possible. `format`
empties the file like EVENT_REMOVE_ALL; the uid, which it removes too, is not
in this model.

`EventList` is a list in which EVENT_REMOVE takes out the event it is given. The code is
one only as long as no stored event starts like the one to be removed: then it takes the first such event out
(`ESP_LittleFS.cpp:221`). `IsAList` is the promise, which run `event_store_remove` refutes, and
`StoresAList` what is left of it: `RemoveAnother` may take out one event, whole, in that case alone,
and every other step is one of `EventList`.

*Bounds.* Five events with the smallest values (5 to 7 bytes; up to 14 in the code),
whose other bytes are 0, first bytes of events, and a byte of no event, so that an event
can be found inside another; a file of 25 bytes, which holds four or five events with or
without holes; room for 2 main events and 4 others (3 and 8 in the code), so that both
are exceeded.

### FlowCompiler, EventFlow

`FlowCompiler` is `parseFlows` and what it calls: which nodes are valid, the
numbers that `parseNodesImpl` gives to sections, `isFlowValid`. A graph is a
function from node ids to records. A section keeps the id of the node it was
made from, which the code keeps in effect as the name of the function: so the
properties can compare a run with the graph, not with the numbers. Beside the
code's operators there are two words for what the graph itself says: `Wired` and
`Dangles`. `parseNodesImpl` is a function of how deep its calls nest: its value for *n*
takes a `ParseCall` (the flow so far, a node, the number of its section) to the flow that is
returned, and is defined with its value for *n - 1*. Nodes that are not in a circle nest no deeper than
there are nodes (`Circular`). In a circle of wires the code calls itself until the
stack is full, and no file is written: `parseFlows` is empty.

`EventFlow` runs the sections. `running[m]` is the section that
`event_run_next_part` is about to run on module *m*, `inbox[m]` the broadcasts
that wait for it, and `at[r]` the node that run *r* left last and by which leg.
One action is one turn of the loop in `event_run_next_part`; `GoOn` is its end,
with the order of the tests in the code: a section of one's own is run, a
number above 0 is broadcast, 0 ends the flow. A broadcast is acknowledged by nobody,
so any part of the other modules gets it. `is_for_me` compares the receiver's own uid
with ANY (`CanFrame.cpp:70`): a broadcast is taken only by a module with the uid 1, and no module
has that uid. With the uids modules have, nothing happens after the first broadcast, which run
`event_flow_hand_over` shows to be against what is documented. The passing run gives two of three modules
the uid 1, because only so the rest of the code that hands a flow over is exercised: it says how flows go
on once `is_for_me` compares what it should, and where they stop as it is. `refused` records which module had
a part of a run in its hands and dropped it.
Whether a comparison holds is a free choice, made anew each time; so are the
moments at which an event matches.

Every section is stored by the module it names. In the code CanRed would bring it there
and give the flow its number, but its first flow ends CanRed
(see *Not modelled*), so a flow goes here by the id of its event, as if
numbers were unique.

*Bounds.* Five families of graphs: `Nested`, four nodes on one module with
ifs in ifs, all enabled or one of them not; `Spread`, three nodes on two modules; `Handed`, three
nodes on three modules; `Shared`, two events with nodes in common; `Odd`, circles and two wires from one output. Three
nodes are the fewest with an if in an if, and the fourth is one that both
lead to. Two runs may be under way at once. Three modules, two that take broadcasts and
one that does not: both takers read each broadcast of the first, and one of them has to leave it
to the other. *Fairness.* `loop` is called for ever on every module; no event has
to match.

### SocketRequests

A call of `runUserFunction` is a client with a connection of its own, and a
request goes by its client's name. `promise`, `socket` and `answers` are the client's side;
`peer` says which client is behind a descriptor; `m_client_buffers`,
`socket_requests` and the flag are those of the socket thread, `m_socket_requests` is
CanManager's table; `commands` and `replies` are the frames under way to and from each module.
`watch` handles one event in a call, and a request that was understood is answered
with a made up output before the next event: `to_answer` is that client.
`SocketInterface.md:29-30` promises the output of the function or, without one, the module's ACK; what is sent
first is neither (`SocketWatcher.cpp:233-241`, with a TODO), and the module's reply, sent second, is the first that comes from
the function. No property therefore calls a client answered.
`parse_socket_input` sends a COMMAND for every request in the table, old or new,
and lowers the flag a step later, as in `CanRedMain`. The query for the command's
number has its arguments swapped (`CanManager.cpp:436`), finds nothing, and every
request asks for command 0; therefore a request is told by its module alone. A name that is in
no table has the uid 0, which no module has. `send` to a client that has hung up raises
SIGPIPE, which nothing catches: `canred` is then `"dead"`.

`promise` is `"gone"` when the client's process ended (`Die`, at any time): its socket is closed then.

The table of modules is given (`Lookup`): as the code is, no row is ever put into
it. A client writes `return_output` as a Boolean, as Node-RED does, or as the string that
`SocketInterface.md:29` shows (`text` is `"sent"` or `"documented"`). Three things can become of a text that came
whole. It is parsed; or what `parse_client_message` takes out of it has the wrong type, the exception is not caught
and CanRed ends (`"thrown"`; a missing key does the same); or it is followed in the
buffer by what an earlier message left, and is not understood (`"kept"`), a free choice of
`handle_client_message`, as it depends on memory that the code does not write: its author's "Our naive method of
just checking for an end brace works fine" (`SocketWatcher.cpp:190-191`) does not hold.

CanRed therefore can end in three ways, and `SurvivesCalls` says that there are no others: a text that threw, a
client whose process had ended before an answer was sent to it, and a module's reply to a client that had hung up on the
answer made up for it.

*Bounds.* Two clients, which ask one module, two modules, or one and a name not known;
as many descriptors; at most two frames under way in each direction of a line, which is
one more than a client needs. *Fairness.* None: that a client is ever answered is not
claimed, since a text may be kept for ever and its first answer is not the one that is
documented. The system may stop (`CHECK_DEADLOCK FALSE`).

### SerialLink

`OnTheLine` is `send_frame` with `serialize_frame` and the layout of the id, byte by
byte. `read_frame` takes one byte in a call; `currently_reading` and `buffer` are kept in
between, and so is `length_byte`, the fifth byte of the buffer: a frame of fewer than five bytes
is judged by what an earlier one left there. `faulted` says that it did something without a meaning in C++ (a write behind the
end of its buffer, a copy of a negative number of bytes); from there until a
restart it does nothing. `hurt` is the set of numbers of the frames of which the
module missed a byte. CanRed's own reader is not modelled.

*Bounds.* Seven kinds of frames, with start or stop bytes as data, as length or
within the id, and one without a receiver; three frames, since a byte lost in the first
can reach into the second, and the third must be clean; two lost bytes, so that
both the stop and the next start byte can be; one restart at any byte. Nothing has to be
sent (`CHECK_DEADLOCK FALSE`).

## Runs

| Run | Shows |
|---|---|
| `main_loop` | `FramesInOrder`, `EventsNeverStranded`, `CommandsSentOnce`; frames and event updates are a `Mailbox`: each is taken, once, eventually |
| `main_loop_sockets` | finding: a socket request can be left with its flag down |
| `interface_handler` | `NoOverrun`; `EntriesKept`: the table is a `PendingAcks`; `AcksAnswerMessages`; `InterfacesServed` |
| `interface_handler_capacity` | finding: the table is full with half the entries its constant says |
| `canred_long_frames` | `CleanGroupsArrive`: undisturbed groups arrive whole; `NothingLeftBehind` |
| `module_long_frames` | the same for a module's buffers, which also are never overrun |
| `flash` | of the key fob: `RunsInOrder`, `CarNeverAhead`, `IVsFresh`, `NoPressStranded`, `RemoteSleeps`; of the event store: `StoresAList`: the file is an `EventList`, but for a removal of what looks like another event; `HangsOnlyAfterBlank` |
| `event_store_remove` | finding: another event than the one given is removed |
| `node_red` | of requests: `AnswersOwnRequest`, `RequestsKeptOnce`, `FreshWhenQuiet`, `SurvivesCalls`; of flows: `FollowsWires`: a run goes along the wires of the graph; `PartsReachTheirModule`: no section is forgotten on the way to its module; `OneModuleAtATime`: none is run twice for one broadcast; `GoodFlowsKept`; `RunsEnd` |
| `event_flow_hand_over` | finding: a flow ends at its first wire to another module |
| `event_flow_dangling` | finding: the compiler gives a number twice |
| `serial_link` | `SoundFramesArrive`: the reader always finds back to the start of a frame; `FaultsNeedCause` |

Each passing run also checks the `TypeOK` of its modules; the `FlowTypeOK` of `EventFlow` is left to its
theorem. Two runs are about two components each, which share no state (`MCFlash`, `MCNodeRed`): one takes steps
only while the other is as it began. Every behaviour of each alone is among those of the run, and no
property speaks of both, so nothing is lost by not interleaving them, and the states are a sum and not a
product. The largest run is `serial_link` with 2.4 million states, in half a minute; `flash` (1.7 million) and `node_red`
(a third of a million) take three minutes each, the second because what it checks walks through the graph in every state.

Properties with a proviso, and what it excludes:

- `NoOverrun`, `EntriesKept`: until `collided`. `millis()` is 0 only in the first
  millisecond, and a time is taken for an acknowledged entry only if the clock shows exactly the
  number the entry is packed into.
- `RunsInOrder`, `CarNeverAhead`, `IVsFresh`: while the flash of the one they are about takes what is written and
  gives it back, and, for the last two, until a counter wraps. Without the provisos they are violated: after a
  failed read the remote uses its IVs again and the car accepts old messages.
- `CleanGroupsArrive`: for groups that were not disturbed and whose uid is not 128;
  for modules, not refused, and until a group with uid 0 comes. The exception of
  128 is CanRed's own: `CAN.md:48` says that the first byte of a long frame identifies its group, and
  `handle_incoming_frame` compares it with ACKNOWLEDGEMENT first (`CanManager.cpp:46`).
- `StoresAList`, `HangsOnlyAfterBlank`: until an event is stored whose first byte
  is 0 (a main event that compares an `int8_t` with *less than*), and
  `StoresAList` until more events are stored than the buffers have room for. `IsAList` has the same
  provisos.
- `FollowsWires`, `PartsReachTheirModule`, `EndsWhereWiresEnd`, `RunsEnd`: for graphs in which no leg of an if
  leads to a node that was left out. Run `event_flow_dangling` shows what such a leg does.
  `PartsReachTheirModule` allows a run to end where a broadcast was lost, or was dropped by the module it
  was meant for; `EndsWhereWiresEnd` only where it was lost.
- `FreshWhenQuiet`: for requests that came when no frame was on their module's line.
- `AnswersOwnRequest`: an answer is told by the request in CanManager's table that it was sent for. Which of several
  clients of one module a reply was meant for, no frame says: that they get each other's
  replies is not excluded.
- `AcksAnswerMessages`: a message may be acknowledged more than once.
- `SoundFramesArrive`: for frames without a stop byte and with both uids. A BOOL's
  marker in a reply is the stop byte, so replies with a BOOL are not among them.

The five findings, each shown by a run of its own, are quoted against the code in `PROJECT.json`. The models
follow the code in other places where it does not do what its authors will have
meant, and the provisos above say what comes of it. Among them: the range of rolling codes has
no upper end (`LoraModule/src/main.cpp:175`), and a message is acknowledged again in every turn that reads nothing
(`InterfaceHandler.cpp:36-51`).

## Theorems

All but `FlowLeads`, which is about operators, are of the form `Spec => []P` (or an action property). They hold for every value
of the constants that satisfies the named assumptions of the module.

- **CanRedMain** (`BoundsAssumption`). `TypeCorrect`. `NoEventStranded`: by
  `EventsInv`, which adds to the property that the vector is empty while the main
  thread is about to lower the flag; that is inductive because nobody fills the
  vector without `events_mutex`, and `TypeOK` says the main thread holds it
  there. `FrameOrder`: inductive with `TypeOK`, for any number of interfaces.
  `CommandsOnce`: by `CommandsInv`, which orders what was sent, what waits and what was
  written: a waiting command is later than all that were sent, except between sending and
  clearing. `FramesAreMailbox` and `UpdatesAndRequestsAreMailboxes`: each of the three pairs of
  threads implements the safe half of `Mailbox`, step by step; that everything is
  taken in the end is the other half, and left to TLC.
- **InterfaceHandler** (`TableAssumption`, `NodeAssumption`). `TypeCorrect`.
  `TableInBounds` and `AcksArePending`: by `TableInv`, which says that entries lie
  at multiples of four and that the word two after an entry is not empty. The scan
  for an empty slot therefore stops at a multiple of four, and since the table has an even
  number of entries its last slot is not one: a time is never written past the end. The same facts map
  each step of the array to a step of `PendingAcks`, or a stutter: the refinement
  is proved for every size, not only checked for 4. `AcksAnswer`: by `HeardInv`, which says
  that the frame acted on, this turn's or an earlier one's, is one that was read.
- **KeyFob** (`CommandAssumption`, `CodeAssumption`). `TypeCorrect`;
  `PressesWake`; `CarRunsInOrder` by `CarInv` (all the car ran is covered by the code in its flash,
  and the message at hand is ahead of it); `CarBehindRemote` and `FreshIVs` by `RemoteInv` (while the remote's flash works, the
  flash of the remote is ahead of every message sent and of the car, and before a
  message is sent its IV is higher than all others).
- **EventStore** (`EventAssumption`), for any events whose length is what their first byte
  says, any capacity and any number of holes. `StoreTypeCorrect`, `HangsAfterBlank`, and
  `StoreIsAList`: every step is a step of `EventList` or a stutter, or takes out one event that starts like the one to
  be removed. By `StoreInv`, which says
  that the loaded events are what a search of the file finds, and that, until an event with a first byte of 0 is
  stored, the file is in order: there are `starts` such that an event begins at each, the events lie behind one
  another, each whole, and all bytes between them are 0 (`Starts`). Without it nothing
  is inductive: which bytes are taken for first bytes of events depends on all bytes before them.
  `SearchFindsAll` says that the search of such a file finds `starts`, although
  other bytes of events may look like first bytes; it and `SearchStops` (what a search does in any
  file) are by induction over the position, with a lemma that a set of numbers has a
  least one (`Least`) in the place of an induction rule, and so is the existence of the
  recursive function (`CursorsFromIs`). `AddAppends` and `RemoveRemoves` then say what becomes of
  `starts` when bytes are added at the end and when zeros are written over an event.
  The proof uses no bound on the buffers: an event too many does not change the list in
  this model, only mark it (`overrun`), and what the code does to its memory then is undefined.
- **FlowCompiler, EventFlow** (`FlowAssumption`), for any graphs, modules, uids and number of runs
  at once. The compiler first. That its recursive functions are what their definitions say is proved by
  induction over the depth (`DoneWithinIs`, `ImplIs`), again by way of `Least`. `FlowLeads`:
  the flow of an event of a graph in order is valid, and its numbers lead along the wires. By `WellParsed`, which
  says of what a call adds to the flow so far that it has the numbers from the call's own on
  without a gap, that the call's node has the first of them, and that each next number is
  that of the node its wire goes to. `CommandWell` and `IfWell` show it of a call
  when it holds of the calls within. The if is the hard case: it is pushed behind its legs, so while they are parsed its
  own number is in no section, and yet the highest number so far plus one, which its second
  leg gets, has to be the first free one. It is because the first leg, when it is wired, adds a section
  (no leg dangles), and what it adds is a block without a gap above the if's number.
  `FlowsAreKept` follows, and what running rests on: a valid flow has each number once
  (`NumbersOnce`, by counting), so a number stands for one section on one module (`OneHome`).
  `FlowInvariance` is an invariant of four parts: the types (`FlowTypeCorrect`);
  `OneModuleAtATime` (`RunsInOnePlace`), inductive with them for every graph; `OnItsWay`, that whoever is to go on with a
  run goes on with the node that its last leg is wired to; and `NotForgotten`, that somebody is to,
  unless the wires end or a broadcast was lost or dropped by the module it was for. `OnItsWay` is needed for every frame
  in every inbox, not only for what runs, and rests on `OneModuleAtATime`: with a run in two
  places a step of one would leave the other behind. `RunsFollowWires` is `OnItsWay` before a step, and
  `RunsReachModules` is `NotForgotten` of a run that nobody has.

- **SocketRequests** (`SocketAssumption`), for any number of clients, modules,
  descriptors and frames under way. `TypeCorrect`. `OwnAnswers` and `CallsAreSurvived`:
  by `TableInv`, which says that a request in either table was made by the client behind
  its descriptor, that a client is not sent anything before its request is understood,
  and that a client that hangs up on an answer while its call lasts was answered by one of the two that
  may. A cause of CanRed's end, once there, stays (`CausesStay`). A descriptor's peer never changes, since none is closed; that is why a
  request may outlive its connection without an answer going astray. `KeptOnce`: with
  lemmas on what insertion into and removal from two joined sequences do to
  a sequence that has each client once. `FreshAnswers`: by `FreshInv`, which says
  that every reply on its way to CanRed behind a quiet request knows of the request.
- **SerialLink** (`SerialAssumption`), for any frames. `TypeCorrect`: by `LineInv`, which says that
  the bytes to come are the end of the frame sent last, so that the last of them is the stop byte;
  a reader that takes it is not reading afterwards. `FaultsHaveCause`: by `CleanInv`, which says
  where a reader is that nothing happened to: between frames, or behind the start byte with as many
  bytes in its buffer as have come since. The lemmas say what a frame looks like on the line:
  7 to 15 bytes with its start and its stop byte, whatever the frame. `SoundArrive`: by
  `SoundInv`, which says of a sound frame on the line that none of what was read came with it yet,
  and that the reader is before its start byte or has exactly the bytes behind it in its
  buffer. What went wrong earlier is over by then, since the stop byte of the frame before ends
  it; a fault stays, but then the bytes of that frame are missed (`hurt`). The lemma
  `RoundTrip` says that `deserialize_frame` makes of the bytes of a frame with both uids
  that frame: the parts of the id do not overlap (`IdRead`), and the length and
  the data are behind it.
- **Long frames** (`BusAssumption`, `HandlerAssumption`; for CanRed also `FromModules`: the
  code's `CanManager` does not send to itself), for messages of any length, any senders and
  uids. What the receivers need of the bus is in `LongFrameBusProofs`: `BusInv`, that a frame of 8 bytes
  in a queue is followed by one of the same uid, and `GroupsInv`, that a queue is the
  rest (`Rest`) of one group from its frame *j* on and that two queues with the same uid are disturbed.
  `TypeCorrect` and `LeavesNothing` follow from `BusInv` and the receiver's types
  (for a module `GroupsHeldInv`: no two buffers have the same uid, and an index is
  behind a first full frame). `CleanGroups` adds `HeldInv`: of an undisturbed group the
  receiver holds bytes 1 to *7j* of its message, and before the first frame nothing. Each of the
  frame's ways through `append` then adds bytes *7j + 1* to *7j + 7*, or to the
  end; lemmas on `memcpy` say which positions change. For a module it is proved where no
  message is laid out by `CanManager` (`NoneByCanManager`); the mutant of `send_stored_events` shows that this is needed.
  The proof of `TypeCorrect` found that buffers of 8 bytes would not do: the first frame fills such a
  buffer and leaves its index past the end. `HandlerAssumption` therefore asks for 9 (the code has 64).

Only model-checked: every liveness property (`FramesDelivered`,
`UpdatesDelivered`, `InterfacesServed`, `RemoteSleeps`, `RunsEnd`),
which the provers cannot do. Every other property that a passing run checks is stated by a theorem, and of
`FramesDelivered` and `UpdatesDelivered` the theorems of `CanRedMain` prove the safe half.

## Not modelled

- CanRed's `ACKHandler`: its `remove_waiting_on_ack` erases an iterator that was never
  set whenever it runs (`ACKHandler.cpp:40`). Nothing can be said about what follows.
- The reading half of CanRed's serial interface: after every byte that does not end a
  frame it comes to `__builtin_unreachable` (`SerialInterface.cpp:92`). What it sends is in `SerialLink`.
- `EventManager`'s tables: they start empty, `get_new_flow_id` then reads the MAX of no rows,
  and `SqliteValue.cpp:83` ends CanRed for a NULL. The first flow in the file is the
  last thing CanRed does; that a scan's updates reach the modules in order is in `CanRedMain`.
- The check-in of modules and CanRed's registry of them: `generate_module_uid` asks with a query that lacks a
  bracket (`CanManager.cpp:416`), there is no statement, and printing its
  text throws. No module is ever stored either, since the type's name is put in with its quotes, which the
  table's CHECK refuses. On the module's side what is left is a first frame that is taken for the
  answer, whatever it is (`Automato.cpp:310`).
- Wires in a circle: the compiler's recursion ends in a full stack, and no file is written.
- The values of events and their comparison (`AnyType.h`): `EventFlow` lets either outcome come.
- Flows of more than 255 sections: modules keep a section's number in a byte, `EventFlow` as it is.
- The database wrapper, device initialisation, cryptography, the LoRa-E5 driver, the
  editor's forms, example sketches and vendored code: no protocol state of
  their own, or not this repository's code. The largest file, `CanRed/lib/Json/json.hpp`, is
  a vendored library of 22091 lines, two thirds of all the lines there are.

## Plan

What the first plan named and is not above was found to have no states to model: the
registry of modules and the flow tables end CanRed before they have any. What is left:

1. `EventCodec`: the values of events to bytes and back, and their comparison at the
   ends of each type's range, against the numbers themselves.
2. The socket thread of `SocketRequests` in the place of the one in `CanRedMain`, so that
   the two gaps between threads are in one model.
