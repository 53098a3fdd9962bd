--------------------------- MODULE SocketRequests ---------------------------
(***************************************************************************)
(* A command that Node-RED asks a module to run, from end to end: the      *)
(* client (NodeRed/src/nodes/common_server/runUserFunction.ts), the socket *)
(* thread (CanRed/lib/SocketWatcher), CanManager's table of requests       *)
(* (CanRed/lib/CanManager/CanManager.cpp) and the module that runs the     *)
(* command.  Each call of runUserFunction is a client with a socket of its *)
(* own and one request, so a request goes by the name of its client.  Any  *)
(* other program may be a client too, and writes its request the way       *)
(* Documentation/SocketInterface.md has it.  The process of a client may   *)
(* end at any time.                                                        *)
(*                                                                         *)
(* The names of modules are looked up in a table that is given.  The query *)
(* for the command has its two arguments in the wrong order and finds      *)
(* nothing, so that every request asks for command 0: a request is told by *)
(* its module alone.  Frames to a module arrive in order or not at all.    *)
(***************************************************************************)
EXTENDS Naturals, Sequences, FiniteSets, SequencesExt

CONSTANTS
    Client,
    WantsOutput,    \* the clients that set returnOutput
    Lookup,         \* the answers can_modules may give: a uid per client's module,
                    \* 0 if the name is not in it
    Fd,             \* bound: the descriptors that accept can give
    MaxOnLine,      \* bound: frames under way to or from one module
    Nobody

ASSUME SocketAssumption ==
    /\ WantsOutput \subseteq Client
    /\ Lookup \subseteq [Client -> Nat]
    /\ Fd \subseteq Nat /\ IsFiniteSet(Fd)
    /\ MaxOnLine \in Nat \ {0}
    /\ Nobody \notin Client

VARIABLES
    uid_of,             \* per client, the uid found for its module
    promise,            \* per client, what became of its call: gone with its process
    socket,             \* per client, its end: garbled can no longer be parsed
    text,               \* per client, the text of its request, and what became of it
    answers,            \* per client, what it was sent and has not read
    peer,               \* per descriptor, the client at the other end
    m_client_buffers,   \* the descriptors the socket thread reads
    to_answer,          \* the client parse_client_message has yet to answer
    socket_requests,    \* what the socket thread has for the main thread
    do_we_have_new_socket_data,
    main_pc,            \* the main thread: in parse_socket_input or not
    m_socket_requests,  \* CanManager's table
    canred,             \* whether the process lives
    commands,           \* per module, COMMAND frames on their way to it
    replies,            \* per module, REPLY_COMMAND frames on their way back
    answered,           \* the requests a module's reply has answered
    quiet               \* the requests that came when nothing was on their module's line

client == <<uid_of, promise, socket, text>>
watcher == <<peer, m_client_buffers, to_answer>>
manager == <<main_pc, m_socket_requests, answered>>
line == <<commands, replies>>
vars == <<client, watcher, manager, line, answers, socket_requests,
          do_we_have_new_socket_data, canred, quiet>>

ModuleUid == (UNION {{uids[c] : c \in Client} : uids \in Lookup}) \ {0}

(* A request and the descriptor it came by. *)
Request(c, f) == [client |-> c, file_descriptor |-> f]

(* What is sent to a client.  knew is the set of requests that had been made
   when a module ran the command; the socket thread asks no module.         *)
Answer(c, text_is_empty, knew) == [for |-> c, empty |-> text_is_empty, knew |-> knew]

Asked == {c \in Client : text[c] = "parsed"}

(* The requests that wait, in the order in which the table will have them. *)
Waiting == socket_requests \o m_socket_requests

ForModule(m) == Cardinality({i \in DOMAIN Waiting : uid_of[Waiting[i].client] = m})

NothingOnLine(m) == commands[m] = 0 /\ replies[m] = <<>>

AtMost(n, bound) == IF n < bound THEN n ELSE bound

Init ==
    /\ uid_of \in Lookup
    /\ promise = [c \in Client |-> "none"]
    /\ socket = [c \in Client |-> "none"]
    /\ text = [c \in Client |-> "none"]
    /\ answers = [c \in Client |-> <<>>]
    /\ peer = [f \in Fd |-> Nobody]
    /\ m_client_buffers = {}
    /\ to_answer = Nobody
    /\ socket_requests = <<>>
    /\ do_we_have_new_socket_data = FALSE
    /\ main_pc = "wait"
    /\ m_socket_requests = <<>>
    /\ canred = "lives"
    /\ commands = [m \in ModuleUid |-> 0]
    /\ replies = [m \in ModuleUid |-> <<>>]
    /\ answered = {}
    /\ quiet = {}
-----------------------------------------------------------------------------
(* send to a peer that has hung up raises SIGPIPE, which nothing handles. *)
Send(f, answer) ==
    IF socket[peer[f]] = "destroyed"
    THEN canred' = "dead" /\ UNCHANGED answers
    ELSE /\ answers' = [answers EXCEPT ![peer[f]] = Append(@, answer)]
         /\ UNCHANGED canred

(* The client.  Its text has return_output as a Boolean, or, as documented,
   as a string.                                                             *)
Call(c) ==
    /\ promise[c] = "none"
    /\ IF canred = "dead"
       THEN promise' = [promise EXCEPT ![c] = "rejected"] /\ UNCHANGED <<socket, text>>
       ELSE /\ promise' = [promise EXCEPT ![c] = "pending"]
            /\ socket' = [socket EXCEPT ![c] = "open"]
            /\ \E form \in {"sent", "documented"} : text' = [text EXCEPT ![c] = form]
    /\ UNCHANGED <<uid_of, watcher, manager, line, answers, socket_requests,
                   do_we_have_new_socket_data, canred, quiet>>

(* One chunk holds one answer, or the answers that came since: two of them
   one behind the other do not parse, nor does anything that follows them.  *)
ReadAnswer(c) ==
    /\ socket[c] = "open"
    /\ answers[c] # <<>>
    /\ \/ LET answer == Head(answers[c])
          IN  /\ socket' = [socket EXCEPT ![c] = "destroyed"]
              /\ promise' = [promise EXCEPT ![c] =
                    IF @ = "pending" /\ c \in WantsOutput /\ ~answer.empty
                    THEN "resolved" ELSE @]
       \/ /\ Len(answers[c]) > 1
          /\ socket' = [socket EXCEPT ![c] = "garbled"]
          /\ UNCHANGED promise
    /\ answers' = [answers EXCEPT ![c] = <<>>]
    /\ UNCHANGED <<uid_of, text, watcher, manager, line, socket_requests,
                   do_we_have_new_socket_data, canred, quiet>>

(* Mutant: the timer closes the socket. *)
TimeOutAndClose(c) ==
    /\ promise[c] = "pending"
    /\ promise' = [promise EXCEPT ![c] = "rejected"]
    /\ socket' = [socket EXCEPT ![c] = "destroyed"]
    /\ UNCHANGED <<uid_of, text, watcher, manager, line, answers, socket_requests,
                   do_we_have_new_socket_data, canred, quiet>>

(* Three minutes are over; the socket stays open. *)
TimeOut(c) ==
    /\ promise[c] = "pending"
    /\ promise' = [promise EXCEPT ![c] = "rejected"]
    /\ UNCHANGED <<uid_of, socket, text, watcher, manager, line, answers, socket_requests,
                   do_we_have_new_socket_data, canred, quiet>>

(* The process of the client ends, and the system hangs up for it. *)
Die(c) ==
    /\ socket[c] \in {"open", "garbled"}
    /\ socket' = [socket EXCEPT ![c] = "destroyed"]
    /\ promise' = [promise EXCEPT ![c] = "gone"]
    /\ UNCHANGED <<uid_of, text, watcher, manager, line, answers, socket_requests,
                   do_we_have_new_socket_data, canred, quiet>>
-----------------------------------------------------------------------------
(* Mutant: the descriptor of a client that was removed is closed. *)
FreeOnceRemoved == {f \in Fd : peer[f] = Nobody \/ f \notin m_client_buffers}

FreeFd == {f \in Fd : peer[f] = Nobody}

Unread == {c \in Client : text[c] \in {"sent", "documented"}}

(* The socket thread; watch deals with one event in a call. *)
add_client(c) ==
    /\ canred = "lives" /\ to_answer = Nobody
    /\ c \in Unread
    /\ \A f \in Fd : peer[f] # c
    /\ \E f \in FreeFd :
        /\ \A g \in FreeFd : f <= g
        /\ peer' = [peer EXCEPT ![f] = c]
        /\ m_client_buffers' = m_client_buffers \cup {f}
    /\ UNCHANGED <<client, to_answer, manager, line, answers, socket_requests,
                   do_we_have_new_socket_data, canred, quiet>>

(* recv does not end the text with a zero, and what is behind it in the
   buffer may be taken for more of it: then the text does not end in a brace
   and is kept for ever, or it does and does not parse.  A text that parses
   is taken apart outside of the try: a string for return_output throws, and
   the exception ends CanRed.                                               *)
handle_client_message(f) ==
    /\ canred = "lives" /\ to_answer = Nobody
    /\ f \in m_client_buffers
    /\ peer[f] \in Unread
    /\ \/ /\ text[peer[f]] = "sent"
          /\ text' = [text EXCEPT ![peer[f]] = "parsed"]
          /\ socket_requests' = Append(socket_requests, Request(peer[f], f))
          /\ to_answer' = peer[f]
          /\ quiet' = IF uid_of[peer[f]] # 0 /\ NothingOnLine(uid_of[peer[f]])
                      THEN quiet \cup {peer[f]} ELSE quiet
          /\ UNCHANGED <<do_we_have_new_socket_data, canred>>
       \/ /\ text[peer[f]] = "documented"
          /\ text' = [text EXCEPT ![peer[f]] = "thrown"]
          /\ canred' = "dead"
          /\ UNCHANGED <<socket_requests, to_answer, do_we_have_new_socket_data, quiet>>
       \/ /\ text' = [text EXCEPT ![peer[f]] = "kept"]
          /\ do_we_have_new_socket_data' \in {do_we_have_new_socket_data, TRUE}
          /\ UNCHANGED <<socket_requests, to_answer, canred, quiet>>
    /\ UNCHANGED <<uid_of, promise, socket, peer, m_client_buffers, manager, line, answers>>

(* parse_client_message answers with a made up output, and watch returns true. *)
AnswerAtOnce ==
    /\ canred = "lives"
    /\ to_answer # Nobody
    /\ \E f \in Fd : /\ peer[f] = to_answer
                     /\ Send(f, Answer(to_answer, to_answer \notin WantsOutput, Client))
    /\ to_answer' = Nobody
    /\ do_we_have_new_socket_data' = TRUE
    /\ UNCHANGED <<client, peer, m_client_buffers, manager, line, socket_requests, quiet>>

(* Mutant: the descriptor is closed, and its buffer forgotten. *)
CloseClient(f) ==
    /\ canred = "lives" /\ to_answer = Nobody
    /\ f \in m_client_buffers
    /\ socket[peer[f]] = "destroyed" /\ peer[f] \notin Unread
    /\ peer' = [peer EXCEPT ![f] = Nobody]
    /\ UNCHANGED <<client, m_client_buffers, to_answer, manager, line, answers,
                   socket_requests, do_we_have_new_socket_data, canred, quiet>>

(* No bytes were read: the client has hung up.  Its descriptor stays open. *)
RemoveClient(f) ==
    /\ canred = "lives" /\ to_answer = Nobody
    /\ f \in m_client_buffers
    /\ socket[peer[f]] = "destroyed" /\ peer[f] \notin Unread
    /\ m_client_buffers' = m_client_buffers \ {f}
    /\ UNCHANGED <<client, peer, to_answer, manager, line, answers, socket_requests,
                   do_we_have_new_socket_data, canred, quiet>>
-----------------------------------------------------------------------------
(* Mutant: the requests are copied and not cleared. *)
CopyRequests ==
    /\ m_socket_requests' = socket_requests \o m_socket_requests
    /\ UNCHANGED socket_requests

(* Under the lock: the new requests go before those that wait. *)
TakeRequests ==
    /\ m_socket_requests' = socket_requests \o m_socket_requests
    /\ socket_requests' = <<>>

(* The main thread sends a COMMAND for every request that waits, old or new. *)
parse_socket_input ==
    /\ canred = "lives"
    /\ main_pc = "wait"
    /\ do_we_have_new_socket_data
    /\ TakeRequests
    /\ commands' = [m \in ModuleUid |->
           AtMost(commands[m] + ForModule(m), MaxOnLine)]
    /\ main_pc' = "reset"
    /\ UNCHANGED <<client, watcher, answered, answers, replies,
                   do_we_have_new_socket_data, canred, quiet>>

ResetSocket ==
    /\ canred = "lives"
    /\ main_pc = "reset"
    /\ main_pc' = "wait"
    /\ do_we_have_new_socket_data' = FALSE
    /\ UNCHANGED <<client, watcher, m_socket_requests, answered, line, answers,
                   socket_requests, canred, quiet>>

(* Mutant: the reply is taken for the oldest request, whatever its module. *)
OldestRequest(m, i) == i = Len(m_socket_requests)

(* The first request in the table that asked this module. *)
RequestAnsweredBy(m, i) ==
    /\ uid_of[m_socket_requests[i].client] = m
    /\ \A j \in 1 .. i - 1 : uid_of[m_socket_requests[j].client] # m

(* The main thread handles REPLY_COMMAND.  Without a request it has no use. *)
ReplyCommand(m) ==
    /\ canred = "lives"
    /\ main_pc = "wait"
    /\ replies[m] # <<>>
    /\ replies' = [replies EXCEPT ![m] = Tail(@)]
    /\ \/ \E i \in DOMAIN m_socket_requests, empty \in BOOLEAN :
            LET req == m_socket_requests[i]
            IN  /\ RequestAnsweredBy(m, i)
                /\ Send(req.file_descriptor, Answer(req.client, empty, Head(replies[m])))
                /\ m_socket_requests' = RemoveAt(m_socket_requests, i)
                /\ answered' = answered \cup {req.client}
       \/ /\ \A i \in DOMAIN m_socket_requests : ~RequestAnsweredBy(m, i)
          /\ UNCHANGED <<m_socket_requests, answered, answers, canred>>
    /\ UNCHANGED <<client, watcher, main_pc, commands, socket_requests,
                   do_we_have_new_socket_data, quiet>>

(* The module runs the command and replies. *)
external_run_command(m) ==
    /\ commands[m] > 0
    /\ Len(replies[m]) < MaxOnLine
    /\ commands' = [commands EXCEPT ![m] = @ - 1]
    /\ replies' = [replies EXCEPT ![m] = Append(@, Asked)]
    /\ UNCHANGED <<client, watcher, manager, answers, socket_requests,
                   do_we_have_new_socket_data, canred, quiet>>

LoseFrame(m) ==
    /\ \/ /\ commands[m] > 0
          /\ commands' = [commands EXCEPT ![m] = @ - 1]
          /\ UNCHANGED replies
       \/ /\ replies[m] # <<>>
          /\ replies' = [replies EXCEPT ![m] = Tail(@)]
          /\ UNCHANGED commands
    /\ UNCHANGED <<client, watcher, manager, answers, socket_requests,
                   do_we_have_new_socket_data, canred, quiet>>
-----------------------------------------------------------------------------
Next ==
    \/ \E c \in Client : Call(c) \/ ReadAnswer(c) \/ TimeOut(c) \/ Die(c) \/ add_client(c)
    \/ \E f \in Fd : handle_client_message(f) \/ RemoveClient(f)
    \/ AnswerAtOnce
    \/ parse_socket_input \/ ResetSocket
    \/ \E m \in ModuleUid : ReplyCommand(m) \/ external_run_command(m) \/ LoseFrame(m)

Spec == Init /\ [][Next]_vars
-----------------------------------------------------------------------------
(* Types, and no descriptor is read that no client is behind.               *)
TypeOK ==
    /\ uid_of \in Lookup
    /\ promise \in [Client -> {"none", "pending", "resolved", "rejected", "gone"}]
    /\ socket \in [Client -> {"none", "open", "garbled", "destroyed"}]
    /\ text \in [Client -> {"none", "sent", "documented", "parsed", "thrown", "kept"}]
    /\ answers \in [Client -> Seq([for : Client, empty : BOOLEAN, knew : SUBSET Client])]
    /\ peer \in [Fd -> Client \cup {Nobody}]
    /\ m_client_buffers \subseteq {f \in Fd : peer[f] # Nobody}
    /\ to_answer \in Client \cup {Nobody}
    /\ socket_requests \in Seq([client : Client, file_descriptor : Fd])
    /\ do_we_have_new_socket_data \in BOOLEAN
    /\ main_pc \in {"wait", "reset"}
    /\ m_socket_requests \in Seq([client : Client, file_descriptor : Fd])
    /\ canred \in {"lives", "dead"}
    /\ commands \in [ModuleUid -> Nat]
    /\ replies \in [ModuleUid -> Seq(SUBSET Client)]
    /\ answered \subseteq Client
    /\ quiet \subseteq Client

(* What a client is sent was made for its own request in the table.  A      *)
(* request keeps its descriptor until a module replies, long after the      *)
(* client has hung up on the made up answer: no later client is given its   *)
(* descriptor, because handle_client_message never closes one.  (Which of   *)
(* the requests of one module a reply is for, no reply says: see            *)
(* FreshWhenQuiet.)                                                         *)
AnswersOwnRequest == \A c \in Client : \A k \in DOMAIN answers[c] : answers[c][k].for = c

(* Between the socket thread, the hand-over under the mutex and the table,  *)
(* no request is lost or doubled: until a module's reply answers it, it is  *)
(* in one place, once, and after that nowhere.                              *)
RequestsKeptOnce ==
    /\ \A i, j \in DOMAIN Waiting : Waiting[i].client = Waiting[j].client => i = j
    /\ {Waiting[i].client : i \in DOMAIN Waiting} = Asked \ answered

(* The answer from a module to a request that found nothing on the line to  *)
(* the module is of a run after the request was made, whatever other        *)
(* requests wait or come in between.  Others can be of an earlier run:      *)
(* parse_socket_input sends a COMMAND for old requests again, and more      *)
(* replies come than are needed.                                            *)
FreshWhenQuiet ==
    \A c \in quiet : \A k \in DOMAIN answers[c] : c \in answers[c][k].knew

(* What may have ended CanRed: a text that did not have what is asked of it *)
(* (SocketWatcher.cpp:212-214), the end of a client's process, or a         *)
(* module's reply, one of two answers to a client that hung up on the first *)
(* (SocketWatcher.cpp:241, CanManager.cpp:608).                             *)
CauseOfEnd(c) ==
    \/ text[c] = "thrown"
    \/ promise[c] = "gone"
    \/ c \in answered /\ socket[c] = "destroyed"

(* Calls of runUserFunction whose process lives do not end CanRed by        *)
(* themselves, however many they are and however long they take.            *)
SurvivesCalls == canred = "dead" => \E c \in Client : CauseOfEnd(c)
=============================================================================
