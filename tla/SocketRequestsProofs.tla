------------------------ MODULE SocketRequestsProofs ------------------------
(***************************************************************************)
(* The safety of SocketRequests, for any clients, modules, descriptors and *)
(* bounds.                                                                 *)
(***************************************************************************)
EXTENDS SocketRequests, SequenceTheorems, FiniteSetTheorems, TLAPS

(* What is left of a vector when one element was erased: everything before *)
(* it, and everything behind it one place further to the front             *)
(* (CanManager.cpp:149).                                                   *)
LEMMA RemoveAtProperties ==
    ASSUME NEW S, NEW s \in Seq(S), NEW i \in DOMAIN s
    PROVE  /\ RemoveAt(s, i) \in Seq(S)
           /\ Len(RemoveAt(s, i)) = Len(s) - 1
           /\ \A k \in 1 .. Len(s) - 1 :
                  RemoveAt(s, i)[k] = IF k < i THEN s[k] ELSE s[k + 1]
<1>. DEFINE front == SubSeq(s, 1, i - 1)
            back == SubSeq(s, i + 1, Len(s))
<1>1. i \in 1 .. Len(s) /\ Len(s) \in Nat /\ \A k \in 1 .. Len(s) : s[k] \in S
  BY LenProperties, ElementOfSeq
<1>2. /\ front \in Seq(S) /\ Len(front) = i - 1
      /\ \A k \in 1 .. i - 1 : front[k] = s[k]
  BY <1>1, SubSeqProperties
<1>3. /\ back \in Seq(S) /\ Len(back) = Len(s) - i
      /\ \A k \in 1 .. Len(s) - i : back[k] = s[i + k]
  BY <1>1, SubSeqProperties
<1>4. RemoveAt(s, i) = front \o back
  BY DEF RemoveAt
<1>. HIDE DEF front, back
<1>5. /\ front \o back \in Seq(S)
      /\ Len(front \o back) = Len(front) + Len(back)
      /\ \A k \in 1 .. Len(front) + Len(back) :
             (front \o back)[k] = IF k <= Len(front) THEN front[k] ELSE back[k - Len(front)]
  BY <1>2, <1>3, ConcatProperties
<1>6. Len(front) + Len(back) = Len(s) - 1
  BY <1>1, <1>2, <1>3
<1>7. ASSUME NEW k \in 1 .. Len(s) - 1
      PROVE  (front \o back)[k] = IF k < i THEN s[k] ELSE s[k + 1]
  <2>1. (front \o back)[k] = IF k <= i - 1 THEN front[k] ELSE back[k - (i - 1)]
    BY <1>2, <1>5, <1>6
  <2>2. CASE k < i
    BY <1>1, <1>2, <2>1, <2>2
  <2>3. CASE ~(k < i)
    <3>1. k - (i - 1) \in 1 .. Len(s) - i /\ i + (k - (i - 1)) = k + 1 /\ ~(k <= i - 1)
      BY <1>1, <2>3
    <3>2. back[k - (i - 1)] = s[i + (k - (i - 1))]
      BY <1>3, <3>1
    <3>. QED BY <2>1, <2>3, <3>1, <3>2
  <2>. QED BY <2>2, <2>3
<1>. QED BY <1>4, <1>5, <1>6, <1>7

(* How many requests wait for a module is a number.                        *)
LEMMA ForModuleType == ASSUME TypeOK, NEW m PROVE ForModule(m) \in Nat
<1>. DEFINE R == [client : Client, file_descriptor : Fd]
            I == {i \in DOMAIN Waiting : uid_of[Waiting[i].client] = m}
<1>1. Waiting \in Seq(R)
  BY ConcatProperties DEF Waiting, TypeOK
<1>2. DOMAIN Waiting = 1 .. Len(Waiting) /\ Len(Waiting) \in Nat
  BY <1>1, LenProperties
<1>3. IsFiniteSet(DOMAIN Waiting)
  BY <1>2, FS_Interval
<1>4. I \subseteq DOMAIN Waiting
  OBVIOUS
<1>. HIDE DEF I
<1>5. Cardinality(I) \in Nat
  BY <1>3, <1>4, FS_Subset, FS_CardinalityType
<1>. QED BY <1>5 DEF ForModule, I

(* Where what is sent to a client goes (SocketWatcher.cpp:241,             *)
(* CanManager.cpp:608).                                                    *)
LEMMA SendType ==
    ASSUME TypeOK, NEW f \in Fd, NEW c \in Client, NEW e \in BOOLEAN,
           NEW knew \in SUBSET Client, Send(f, Answer(c, e, knew))
    PROVE  /\ canred' \in {"lives", "dead"}
           /\ answers' \in [Client -> Seq([for : Client, empty : BOOLEAN, knew : SUBSET Client])]
<1>. DEFINE a == Answer(c, e, knew)
            A == [for : Client, empty : BOOLEAN, knew : SUBSET Client]
<1>1. a \in A
  BY DEF Answer
<1>. HIDE DEF a
<1>2. peer[f] \in Client => answers[peer[f]] \in Seq(A)
  BY DEF TypeOK
<1>3. peer[f] \in Client => Append(answers[peer[f]], a) \in Seq(A)
  BY <1>1, <1>2, AppendProperties
<1>4. CASE socket[peer[f]] = "destroyed"
  BY <1>4 DEF Send, TypeOK
<1>5. CASE socket[peer[f]] # "destroyed"
  <2>1. answers' = [answers EXCEPT ![peer[f]] = Append(@, a)] /\ canred' = canred
    BY <1>5 DEF Send, a
  <2>. QED BY <1>3, <2>1 DEF TypeOK
<1>. QED BY <1>4, <1>5

(* Every variable keeps its type, and the socket thread reads only         *)
(* descriptors that accept gave it (SocketWatcher.cpp:119-149).            *)
THEOREM TypeCorrect == Spec => []TypeOK
<1>. DEFINE R == [client : Client, file_descriptor : Fd]
            A == [for : Client, empty : BOOLEAN, knew : SUBSET Client]
<1>1. Init => TypeOK
  <2>1. <<>> \in Seq(R) /\ <<>> \in Seq(A) /\ <<>> \in Seq(SUBSET Client)
    BY EmptySeq
  <2>2. /\ [c \in Client |-> <<>>] \in [Client -> Seq(A)]
        /\ [m \in ModuleUid |-> <<>>] \in [ModuleUid -> Seq(SUBSET Client)]
        /\ [m \in ModuleUid |-> 0] \in [ModuleUid -> Nat]
    BY <2>1
  <2>. QED BY <2>1, <2>2 DEF Init, TypeOK
<1>2. TypeOK /\ [Next]_vars => TypeOK'
  <2>. SUFFICES ASSUME TypeOK, [Next]_vars PROVE TypeOK'
    OBVIOUS
  <2>. USE SocketAssumption
  <2>0. ModuleUid' = ModuleUid
    OBVIOUS
  <2>1. ASSUME NEW c \in Client, Call(c) PROVE TypeOK'
    BY <2>1 DEF Call, TypeOK, watcher, manager, line
  <2>2. ASSUME NEW c \in Client, ReadAnswer(c) PROVE TypeOK'
    <3>1. <<>> \in Seq(A)
      BY EmptySeq
    <3>2. answers' \in [Client -> Seq(A)]
      BY <2>2, <3>1 DEF ReadAnswer, TypeOK
    <3>3. /\ socket' \in [Client -> {"none", "open", "garbled", "destroyed"}]
          /\ promise' \in [Client -> {"none", "pending", "resolved", "rejected", "gone"}]
      BY <2>2 DEF ReadAnswer, TypeOK
    <3>. QED BY <2>2, <3>2, <3>3 DEF ReadAnswer, TypeOK, watcher, manager, line
  <2>3. ASSUME NEW c \in Client, TimeOut(c) PROVE TypeOK'
    BY <2>3 DEF TimeOut, TypeOK, watcher, manager, line
  <2>14. ASSUME NEW c \in Client, Die(c) PROVE TypeOK'
    BY <2>14 DEF Die, TypeOK, watcher, manager, line
  <2>4. ASSUME NEW c \in Client, add_client(c) PROVE TypeOK'
    BY <2>4 DEF add_client, FreeFd, TypeOK, client, manager, line
  <2>5. ASSUME NEW f \in Fd, handle_client_message(f) PROVE TypeOK'
    <3>1. peer[f] \in Client
      BY <2>5 DEF handle_client_message, TypeOK
    <3>2. Request(peer[f], f) \in R
      BY <3>1 DEF Request
    <3>3. socket_requests' \in Seq(R)
      <4>1. socket_requests \in Seq(R)
        BY DEF TypeOK
      <4>2. Append(socket_requests, Request(peer[f], f)) \in Seq(R)
        BY <3>2, <4>1, AppendProperties
      <4>. QED BY <2>5, <4>1, <4>2 DEF handle_client_message
    <3>4. quiet' \subseteq Client /\ to_answer' \in Client \cup {Nobody}
      BY <2>5, <3>1 DEF handle_client_message, TypeOK
    <3>5. /\ text' \in [Client -> {"none", "sent", "documented", "parsed", "thrown", "kept"}]
          /\ do_we_have_new_socket_data' \in BOOLEAN /\ canred' \in {"lives", "dead"}
      <4>1. /\ \E what \in {"parsed", "thrown", "kept"} : text' = [text EXCEPT ![peer[f]] = what]
            /\ do_we_have_new_socket_data' \in {do_we_have_new_socket_data, TRUE}
            /\ canred' \in {canred, "dead"}
        BY <2>5 DEF handle_client_message
      <4>2. /\ text \in [Client -> {"none", "sent", "documented", "parsed", "thrown", "kept"}]
            /\ do_we_have_new_socket_data \in BOOLEAN /\ canred \in {"lives", "dead"}
        BY DEF TypeOK
      <4>3. PICK what \in {"parsed", "thrown", "kept"} : text' = [text EXCEPT ![peer[f]] = what]
        BY <4>1
      <4>4. text' \in [Client -> {"none", "sent", "documented", "parsed", "thrown", "kept"}]
        BY <4>2, <4>3
      <4>. QED BY <4>1, <4>2, <4>4
    <3>. QED BY <2>5, <3>3, <3>4, <3>5 DEF handle_client_message, TypeOK, manager, line
  <2>6. ASSUME NEW f \in Fd, RemoveClient(f) PROVE TypeOK'
    BY <2>6 DEF RemoveClient, TypeOK, client, manager, line
  <2>7. CASE AnswerAtOnce
    <3>1. to_answer \in Client
      BY <2>7 DEF AnswerAtOnce, TypeOK
    <3>2. PICK f \in Fd : /\ peer[f] = to_answer
                          /\ Send(f, Answer(to_answer, to_answer \notin WantsOutput, Client))
      BY <2>7 DEF AnswerAtOnce
    <3>3. canred' \in {"lives", "dead"} /\ answers' \in [Client -> Seq(A)]
      BY <3>1, <3>2, SendType
    <3>. QED BY <2>7, <3>3 DEF AnswerAtOnce, TypeOK, client, manager, line
  <2>8. CASE parse_socket_input
    <3>1. socket_requests' \in Seq(R) /\ m_socket_requests' \in Seq(R)
      BY <2>8, EmptySeq, ConcatProperties DEF parse_socket_input, TakeRequests, TypeOK
    <3>2. ASSUME NEW m \in ModuleUid
          PROVE  AtMost(commands[m] + ForModule(m), MaxOnLine) \in Nat
      <4>1. ForModule(m) \in Nat
        BY ForModuleType
      <4>2. commands[m] \in Nat
        BY DEF TypeOK
      <4>. QED BY <4>1, <4>2 DEF AtMost
    <3>3. commands' \in [ModuleUid -> Nat]
      BY <2>8, <3>2 DEF parse_socket_input
    <3>. QED BY <2>8, <3>1, <3>3 DEF parse_socket_input, TypeOK, client, watcher
  <2>9. CASE ResetSocket
    BY <2>9 DEF ResetSocket, TypeOK, client, watcher, line
  <2>10. ASSUME NEW m \in ModuleUid, ReplyCommand(m) PROVE TypeOK'
    <3>1. Head(replies[m]) \in SUBSET Client /\ Tail(replies[m]) \in Seq(SUBSET Client)
      BY <2>10, HeadTailProperties DEF ReplyCommand, TypeOK
    <3>2. replies' \in [ModuleUid -> Seq(SUBSET Client)]
      BY <2>10, <3>1 DEF ReplyCommand, TypeOK
    <3>3. /\ m_socket_requests' \in Seq(R) /\ answered' \subseteq Client
          /\ canred' \in {"lives", "dead"} /\ answers' \in [Client -> Seq(A)]
      <4>1. CASE UNCHANGED <<m_socket_requests, answered, answers, canred>>
        BY <4>1 DEF TypeOK
      <4>2. ASSUME NEW i \in DOMAIN m_socket_requests, NEW empty \in BOOLEAN,
                   LET req == m_socket_requests[i]
                   IN  /\ Send(req.file_descriptor, Answer(req.client, empty, Head(replies[m])))
                       /\ m_socket_requests' = RemoveAt(m_socket_requests, i)
                       /\ answered' = answered \cup {req.client}
            PROVE  /\ m_socket_requests' \in Seq(R) /\ answered' \subseteq Client
                   /\ canred' \in {"lives", "dead"} /\ answers' \in [Client -> Seq(A)]
        <5>. DEFINE req == m_socket_requests[i]
        <5>1. req \in R
          <6>1. m_socket_requests \in Seq(R)
            BY DEF TypeOK
          <6>2. i \in 1 .. Len(m_socket_requests)
            BY <6>1, LenProperties
          <6>. QED BY <6>1, <6>2, ElementOfSeq
        <5>2. req.client \in Client /\ req.file_descriptor \in Fd
          BY <5>1
        <5>3. m_socket_requests' \in Seq(R)
          BY <4>2, RemoveAtProperties DEF TypeOK
        <5>. HIDE DEF req
        <5>5. canred' \in {"lives", "dead"} /\ answers' \in [Client -> Seq(A)]
          BY <3>1, <4>2, <5>2, SendType DEF req
        <5>. QED BY <4>2, <5>2, <5>3, <5>5 DEF TypeOK, req
      <4>. QED BY <2>10, <4>1, <4>2 DEF ReplyCommand
    <3>. QED BY <2>10, <3>2, <3>3 DEF ReplyCommand, TypeOK, client, watcher
  <2>11. ASSUME NEW m \in ModuleUid, external_run_command(m) PROVE TypeOK'
    <3>1. Asked \subseteq Client
      BY DEF Asked
    <3>2. Append(replies[m], Asked) \in Seq(SUBSET Client)
      BY <3>1, AppendProperties DEF TypeOK
    <3>3. replies' \in [ModuleUid -> Seq(SUBSET Client)] /\ commands' \in [ModuleUid -> Nat]
      BY <2>11, <3>2 DEF external_run_command, TypeOK
    <3>. QED BY <2>11, <3>3 DEF external_run_command, TypeOK, client, watcher, manager
  <2>12. ASSUME NEW m \in ModuleUid, LoseFrame(m) PROVE TypeOK'
    <3>1. replies[m] # <<>> => Tail(replies[m]) \in Seq(SUBSET Client)
      BY HeadTailProperties DEF TypeOK
    <3>2. replies' \in [ModuleUid -> Seq(SUBSET Client)] /\ commands' \in [ModuleUid -> Nat]
      <4>1. \/ commands[m] > 0 /\ commands' = [commands EXCEPT ![m] = @ - 1] /\ replies' = replies
            \/ replies[m] # <<>> /\ replies' = [replies EXCEPT ![m] = Tail(@)] /\ commands' = commands
        BY <2>12 DEF LoseFrame
      <4>2. replies \in [ModuleUid -> Seq(SUBSET Client)] /\ commands \in [ModuleUid -> Nat]
        BY DEF TypeOK
      <4>3. commands[m] > 0 => [commands EXCEPT ![m] = @ - 1] \in [ModuleUid -> Nat]
        BY <4>2
      <4>4. replies[m] # <<>> => [replies EXCEPT ![m] = Tail(@)] \in [ModuleUid -> Seq(SUBSET Client)]
        BY <3>1, <4>2
      <4>. QED BY <4>1, <4>2, <4>3, <4>4
    <3>. QED BY <2>12, <3>2 DEF LoseFrame, TypeOK, client, watcher, manager
  <2>13. CASE UNCHANGED vars
    BY <2>13 DEF vars, client, watcher, manager, line, TypeOK
  <2>. QED
    BY <2>1, <2>2, <2>3, <2>4, <2>5, <2>6, <2>7, <2>8, <2>9, <2>10, <2>11, <2>12, <2>13,
       <2>14
    DEF Next
<1>. QED BY <1>1, <1>2, PTL DEF Spec
-----------------------------------------------------------------------------
(* An appended sequence holds what it held, and the new element.           *)
LEMMA AppendElements ==
    ASSUME NEW S, NEW s \in Seq(S), NEW e \in S, NEW k \in DOMAIN Append(s, e)
    PROVE  Append(s, e)[k] = e \/ (k \in DOMAIN s /\ Append(s, e)[k] = s[k])
<1>1. Append(s, e) \in Seq(S) /\ Len(Append(s, e)) = Len(s) + 1
  BY AppendProperties
<1>2. k \in 1 .. Len(s) + 1 /\ DOMAIN s = 1 .. Len(s) /\ Len(s) \in Nat
  BY <1>1, LenProperties
<1>3. /\ Append(s, e)[Len(s) + 1] = e
      /\ \A j \in 1 .. Len(s) : Append(s, e)[j] = s[j]
  BY AppendProperties
<1>. QED BY <1>2, <1>3

(* What is left of a sequence was in it.                                   *)
LEMMA RemoveAtElements ==
    ASSUME NEW S, NEW s \in Seq(S), NEW i \in DOMAIN s, NEW k \in DOMAIN RemoveAt(s, i)
    PROVE  \E j \in DOMAIN s \ {i} : RemoveAt(s, i)[k] = s[j]
<1>1. /\ DOMAIN s = 1 .. Len(s) /\ Len(s) \in Nat
      /\ DOMAIN RemoveAt(s, i) = 1 .. Len(s) - 1
  BY RemoveAtProperties, LenProperties
<1>2. RemoveAt(s, i)[k] = IF k < i THEN s[k] ELSE s[k + 1]
  BY <1>1, RemoveAtProperties
<1>. QED BY <1>1, <1>2

(* An element of two joined sequences is one of theirs.                    *)
LEMMA ConcatElements ==
    ASSUME NEW S, NEW s \in Seq(S), NEW t \in Seq(S), NEW k \in DOMAIN (s \o t)
    PROVE  \/ k \in DOMAIN s /\ (s \o t)[k] = s[k]
           \/ k - Len(s) \in DOMAIN t /\ (s \o t)[k] = t[k - Len(s)]
<1>1. /\ DOMAIN s = 1 .. Len(s) /\ Len(s) \in Nat
      /\ DOMAIN t = 1 .. Len(t) /\ Len(t) \in Nat
  BY LenProperties
<1>2. k \in 1 .. Len(s) + Len(t)
  BY ConcatProperties, LenProperties
<1>3. (s \o t)[k] = IF k <= Len(s) THEN s[k] ELSE t[k - Len(s)]
  BY <1>2, ConcatProperties
<1>. QED BY <1>1, <1>2, <1>3

(* What send does to the answers: they stay, but for one more at the peer, *)
(* or the process ends.                                                    *)
LEMMA SendAdds ==
    ASSUME TypeOK, NEW f \in Fd, NEW c \in Client, peer[f] = c,
           NEW a \in [for : Client, empty : BOOLEAN, knew : SUBSET Client], Send(f, a)
    PROVE  /\ canred' \in {canred, "dead"}
           /\ canred' # canred => socket[c] = "destroyed"
           /\ \A d \in Client : \A k \in DOMAIN answers'[d] :
                  \/ d = c /\ answers'[d][k] = a
                  \/ k \in DOMAIN answers[d] /\ answers'[d][k] = answers[d][k]
           /\ \A d \in Client : d # c => answers'[d] = answers[d]
<1>. DEFINE A == [for : Client, empty : BOOLEAN, knew : SUBSET Client]
<1>1. answers \in [Client -> Seq(A)]
  BY DEF TypeOK
<1>2. CASE socket[c] = "destroyed"
  BY <1>2 DEF Send
<1>3. CASE socket[c] # "destroyed"
  <2>1. canred' = canred /\ answers' = [answers EXCEPT ![c] = Append(@, a)]
    BY <1>3 DEF Send
  <2>2. answers'[c] = Append(answers[c], a) /\ \A d \in Client : d # c => answers'[d] = answers[d]
    BY <1>1, <2>1
  <2>3. answers[c] \in Seq(A)
    BY <1>1
  <2>4. ASSUME NEW k \in DOMAIN Append(answers[c], a)
        PROVE  \/ Append(answers[c], a)[k] = a
               \/ k \in DOMAIN answers[c] /\ Append(answers[c], a)[k] = answers[c][k]
    BY <2>3, AppendElements
  <2>. QED BY <2>1, <2>2, <2>4
<1>. QED BY <1>2, <1>3

(* A request keeps the descriptor of the client that made it.              *)
Own(s) ==
    \A i \in DOMAIN s : s[i].client \in Asked /\ peer[s[i].file_descriptor] = s[i].client

(* Every request in a table was made, by the client behind its descriptor; *)
(* a client that was not yet understood has not been sent anything, nor    *)
(* hung up unless its process ended, and one that is about to be answered  *)
(* was sent only what a module replied.                                    *)
Answered(c) == answers[c] # <<>> \/ (socket[c] = "destroyed" /\ promise[c] # "gone")

TableInv ==
    /\ Own(socket_requests)
    /\ Own(m_socket_requests)
    /\ \A c \in Client : promise[c] = "none" => text[c] = "none"
    /\ to_answer # Nobody => to_answer \in Asked
    /\ answered \subseteq Asked
    /\ \A c \in Client : Answered(c) => c \in Asked /\ (c = to_answer => c \in answered)

(* TableInv holds in every state.                                          *)
LEMMA TableInvariant == Spec => []TableInv
<1>. DEFINE R == [client : Client, file_descriptor : Fd]
            A == [for : Client, empty : BOOLEAN, knew : SUBSET Client]
<1>1. Init => TableInv
  BY EmptySeq, SocketAssumption DEF Init, TableInv, Own, Answered
<1>2. TypeOK /\ TableInv /\ [Next]_vars => TableInv'
  <2>. SUFFICES ASSUME TypeOK, TableInv, [Next]_vars PROVE TableInv'
    OBVIOUS
  <2>. USE SocketAssumption
  <2>0. ASSUME UNCHANGED <<socket_requests, m_socket_requests, text, peer, promise, socket,
                           to_answer, answered, answers>>
        PROVE  TableInv'
    BY <2>0 DEF TableInv, Own, Asked, Answered
  <2>1. ASSUME NEW c \in Client, Call(c) PROVE TableInv'
    <3>1. Asked' = Asked
      BY <2>1 DEF Call, Asked, TableInv, TypeOK
    <3>2. Own(socket_requests)' /\ Own(m_socket_requests)'
      BY <2>1, <3>1 DEF Call, TableInv, Own, watcher, manager
    <3>3. \A d \in Client : promise'[d] = "none" => text'[d] = "none"
      BY <2>1 DEF Call, TableInv, TypeOK
    <3>4. \A d \in Client : Answered(d)' => Answered(d)
      BY <2>1 DEF Call, TypeOK, Answered
    <3>. QED BY <2>1, <3>1, <3>2, <3>3, <3>4 DEF Call, TableInv, watcher, manager
  <2>2. ASSUME NEW c \in Client, ReadAnswer(c) PROVE TableInv'
    <3>1. \A d \in Client : /\ promise'[d] = "none" => promise[d] = "none"
                            /\ Answered(d)' => Answered(d)
      BY <2>2 DEF ReadAnswer, TypeOK, Answered
    <3>. QED BY <2>2, <3>1 DEF ReadAnswer, TableInv, Own, Asked, watcher, manager
  <2>3. ASSUME NEW c \in Client, TimeOut(c) PROVE TableInv'
    <3>1. \A d \in Client : /\ promise'[d] = "none" => promise[d] = "none"
                            /\ Answered(d)' => Answered(d)
      BY <2>3 DEF TimeOut, TypeOK, Answered
    <3>. QED BY <2>3, <3>1 DEF TimeOut, TableInv, Own, Asked, watcher, manager
  <2>13. ASSUME NEW c \in Client, Die(c) PROVE TableInv'
    <3>1. \A d \in Client : /\ promise'[d] = "none" => promise[d] = "none"
                            /\ Answered(d)' => Answered(d)
      BY <2>13 DEF Die, TypeOK, Answered
    <3>. QED BY <2>13, <3>1 DEF Die, TableInv, Own, Asked, watcher, manager
  <2>4. ASSUME NEW c \in Client, add_client(c) PROVE TableInv'
    <3>1. \A f \in Fd : peer[f] # Nobody => peer'[f] = peer[f]
      BY <2>4 DEF add_client, FreeFd, TypeOK
    <3>2. ASSUME NEW s \in Seq(R), Own(s), NEW i \in DOMAIN s
          PROVE  peer'[s[i].file_descriptor] = s[i].client
      <4>1. s[i] \in R
        <5>1. i \in 1 .. Len(s)
          BY <3>2, LenProperties
        <5>. QED BY <3>2, <5>1, ElementOfSeq
      <4>. QED BY <3>1, <3>2, <4>1 DEF Own
    <3>3. socket_requests \in Seq(R) /\ m_socket_requests \in Seq(R)
      BY DEF TypeOK
    <3>4. UNCHANGED <<client, to_answer, manager, answers, socket_requests>> /\ Asked' = Asked
      BY <2>4 DEF add_client, client, Asked
    <3>5. Own(socket_requests)' /\ Own(m_socket_requests)'
      BY <3>2, <3>3, <3>4 DEF Own, TableInv, manager
    <3>. QED BY <3>4, <3>5 DEF TableInv, Answered, client, manager
  <2>5. ASSUME NEW f \in Fd, handle_client_message(f) PROVE TableInv'
    <3>. DEFINE c == peer[f]
    <3>1. /\ c \in Client /\ text[c] \in {"sent", "documented"} /\ c \notin Asked
          /\ UNCHANGED <<peer, m_socket_requests, answered, answers, socket, promise>>
      BY <2>5 DEF handle_client_message, TypeOK, Unread, Asked, manager
    <3>5. \E what \in {"parsed", "thrown", "kept"} : text' = [text EXCEPT ![c] = what]
      BY <2>5 DEF handle_client_message
    <3>2. \A d \in Client : promise'[d] = "none" => text'[d] = "none"
      BY <3>1, <3>5 DEF TypeOK, TableInv
    <3>3. CASE /\ text' = [text EXCEPT ![c] = "kept"] \/ text' = [text EXCEPT ![c] = "thrown"]
               /\ UNCHANGED <<socket_requests, to_answer>>
      <4>1. Asked' = Asked
        BY <3>1, <3>3 DEF Asked, TypeOK
      <4>. QED BY <3>1, <3>2, <3>3, <4>1 DEF TableInv, Own, Answered
    <3>4. CASE /\ text' = [text EXCEPT ![c] = "parsed"] /\ to_answer' = c
               /\ socket_requests' = Append(socket_requests, Request(c, f))
      <4>1. Asked' = Asked \cup {c}
        BY <3>1, <3>4 DEF Asked, TypeOK
      <4>2. Own(m_socket_requests)'
        BY <3>1, <4>1 DEF TableInv, Own
      <4>3. Request(c, f) \in R /\ socket_requests \in Seq(R)
        BY <3>1 DEF Request, TypeOK
      <4>4. ASSUME NEW k \in DOMAIN socket_requests'
            PROVE  socket_requests'[k].client \in Asked'
                   /\ peer'[socket_requests'[k].file_descriptor] = socket_requests'[k].client
        <5>1. \/ socket_requests'[k] = Request(c, f)
              \/ k \in DOMAIN socket_requests /\ socket_requests'[k] = socket_requests[k]
          BY <3>4, <4>3, AppendElements
        <5>. QED BY <3>1, <4>1, <5>1 DEF TableInv, Own, Request
      <4>5. Own(socket_requests)'
        BY <4>4 DEF Own
      <4>6. ~Answered(c) /\ \A d \in Client : Answered(d)' <=> Answered(d)
        BY <3>1 DEF TableInv, Answered
      <4>7. ASSUME NEW d \in Client, Answered(d)'
            PROVE  d \in Asked' /\ (d = to_answer' => d \in answered')
        BY <3>1, <3>4, <4>1, <4>6, <4>7 DEF TableInv
      <4>. HIDE DEF c
      <4>. QED BY <3>1, <3>2, <3>4, <4>1, <4>2, <4>5, <4>7 DEF TableInv
    <3>. QED BY <2>5, <3>3, <3>4 DEF handle_client_message
  <2>6. ASSUME NEW f \in Fd, RemoveClient(f) PROVE TableInv'
    BY <2>0, <2>6 DEF RemoveClient, client, manager
  <2>7. CASE AnswerAtOnce
    <3>. DEFINE a == Answer(to_answer, to_answer \notin WantsOutput, Client)
    <3>1. PICK f \in Fd : peer[f] = to_answer /\ Send(f, a)
      BY <2>7 DEF AnswerAtOnce
    <3>2. to_answer \in Client /\ a \in A
      BY <2>7 DEF AnswerAtOnce, TypeOK, Answer
    <3>. HIDE DEF a
    <3>3. \A d \in Client : d # to_answer => answers'[d] = answers[d]
      BY <3>1, <3>2, SendAdds
    <3>. QED BY <2>7, <3>2, <3>3
             DEF AnswerAtOnce, TableInv, Own, Asked, Answered, client, manager
  <2>8. CASE parse_socket_input
    <3>1. socket_requests \in Seq(R) /\ m_socket_requests \in Seq(R)
      BY DEF TypeOK
    <3>2. socket_requests' = <<>> /\ m_socket_requests' = socket_requests \o m_socket_requests
      BY <2>8 DEF parse_socket_input, TakeRequests
    <3>3. UNCHANGED <<text, peer>> /\ Asked' = Asked
      BY <2>8 DEF parse_socket_input, client, watcher, Asked
    <3>4. Own(socket_requests)'
      BY <3>2 DEF Own
    <3>5. ASSUME NEW k \in DOMAIN m_socket_requests'
          PROVE  m_socket_requests'[k].client \in Asked
                 /\ peer[m_socket_requests'[k].file_descriptor] = m_socket_requests'[k].client
      <4>1. \/ k \in DOMAIN socket_requests /\ m_socket_requests'[k] = socket_requests[k]
            \/ /\ k - Len(socket_requests) \in DOMAIN m_socket_requests
               /\ m_socket_requests'[k] = m_socket_requests[k - Len(socket_requests)]
        BY <3>1, <3>2, ConcatElements
      <4>. QED BY <4>1 DEF TableInv, Own
    <3>6. Own(m_socket_requests)'
      BY <3>3, <3>5 DEF Own
    <3>. QED BY <2>8, <3>3, <3>4, <3>6
             DEF parse_socket_input, TableInv, Answered, client, watcher
  <2>9. CASE ResetSocket
    BY <2>0, <2>9 DEF ResetSocket, client, watcher
  <2>10. ASSUME NEW m \in ModuleUid, ReplyCommand(m) PROVE TableInv'
    <3>1. CASE UNCHANGED <<m_socket_requests, answered, answers, canred>>
      BY <2>0, <2>10, <3>1 DEF ReplyCommand, client, watcher
    <3>2. ASSUME NEW i \in DOMAIN m_socket_requests, NEW empty \in BOOLEAN,
                 LET req == m_socket_requests[i]
                 IN  /\ Send(req.file_descriptor, Answer(req.client, empty, Head(replies[m])))
                     /\ m_socket_requests' = RemoveAt(m_socket_requests, i)
                     /\ answered' = answered \cup {req.client}
          PROVE  TableInv'
      <4>. DEFINE req == m_socket_requests[i]
                  c == req.client
                  f == req.file_descriptor
                  a == Answer(c, empty, Head(replies[m]))
      <4>1. m_socket_requests \in Seq(R) /\ c \in Client /\ f \in Fd
        <5>1. m_socket_requests \in Seq(R)
          BY DEF TypeOK
        <5>2. i \in 1 .. Len(m_socket_requests)
          BY <5>1, LenProperties
        <5>3. req \in R
          BY <5>1, <5>2, ElementOfSeq
        <5>. QED BY <5>1, <5>3
      <4>2. c \in Asked /\ peer[f] = c
        BY DEF TableInv, Own
      <4>3. Head(replies[m]) \in SUBSET Client
        BY <2>10, HeadTailProperties DEF ReplyCommand, TypeOK
      <4>4. a \in A
        BY <4>1, <4>3 DEF Answer
      <4>5. Send(f, a) /\ answered' = answered \cup {c}
        BY <3>2
      <4>. HIDE DEF c, f, a
      <4>6. \A d \in Client : d # c => answers'[d] = answers[d]
        BY <4>1, <4>2, <4>4, <4>5, SendAdds
      <4>7. ASSUME NEW k \in DOMAIN m_socket_requests'
            PROVE  m_socket_requests'[k].client \in Asked
                   /\ peer[m_socket_requests'[k].file_descriptor] = m_socket_requests'[k].client
        <5>1. \E j \in DOMAIN m_socket_requests : m_socket_requests'[k] = m_socket_requests[j]
          BY <3>2, <4>1, RemoveAtElements
        <5>. QED BY <5>1 DEF TableInv, Own
      <4>8. UNCHANGED <<text, peer, promise, socket, to_answer, socket_requests>> /\ Asked' = Asked
        BY <2>10 DEF ReplyCommand, client, watcher, Asked
      <4>9. Own(m_socket_requests)' /\ Own(socket_requests)'
        BY <4>7, <4>8 DEF Own, TableInv
      <4>10. ASSUME NEW d \in Client, Answered(d)'
             PROVE  d \in Asked' /\ (d = to_answer' => d \in answered')
        BY <4>2, <4>5, <4>6, <4>8, <4>10 DEF TableInv, Answered
      <4>. QED BY <4>2, <4>5, <4>8, <4>9, <4>10 DEF TableInv
    <3>. QED BY <2>10, <3>1, <3>2 DEF ReplyCommand
  <2>11. ASSUME NEW m \in ModuleUid, external_run_command(m) \/ LoseFrame(m) PROVE TableInv'
    BY <2>0, <2>11 DEF external_run_command, LoseFrame, client, watcher, manager
  <2>12. CASE UNCHANGED vars
    BY <2>0, <2>12 DEF vars, client, watcher, manager
  <2>. QED
    BY <2>1, <2>2, <2>3, <2>4, <2>5, <2>6, <2>7, <2>8, <2>9, <2>10, <2>11, <2>12, <2>13
    DEF Next
<1>. QED BY <1>1, <1>2, TypeCorrect, PTL DEF Spec

(* A cause for the end of CanRed after a step.                             *)
LEMMA CausesThen ==
    \A c \in Client :
        text'[c] = "thrown" \/ promise'[c] = "gone" \/ (c \in answered' /\ socket'[c] = "destroyed")
            => \E d \in Client : CauseOfEnd(d)'
BY DEF CauseOfEnd

(* Whatever a step adds for a client to read is for that client, from the  *)
(* socket thread or from a run of its own module; and a step that ends     *)
(* CanRed has its cause.                                                   *)
LEMMA AnswerStep ==
    ASSUME TypeOK, TableInv, [Next]_vars
    PROVE  /\ \A d \in Client : \A k \in DOMAIN answers'[d] :
                  \/ k \in DOMAIN answers[d] /\ answers'[d][k] = answers[d][k]
                  \/ /\ answers'[d][k].for = d
                     /\ \/ answers'[d][k].knew = Client
                        \/ /\ uid_of[d] \in ModuleUid /\ replies[uid_of[d]] # <<>>
                           /\ answers'[d][k].knew = Head(replies[uid_of[d]])
           /\ canred' # canred => canred' = "dead" /\ \E c \in Client : CauseOfEnd(c)'
<1>. DEFINE R == [client : Client, file_descriptor : Fd]
            A == [for : Client, empty : BOOLEAN, knew : SUBSET Client]
            Goal == /\ \A d \in Client : \A k \in DOMAIN answers'[d] :
                           \/ k \in DOMAIN answers[d] /\ answers'[d][k] = answers[d][k]
                           \/ /\ answers'[d][k].for = d
                              /\ \/ answers'[d][k].knew = Client
                                 \/ /\ uid_of[d] \in ModuleUid /\ replies[uid_of[d]] # <<>>
                                    /\ answers'[d][k].knew = Head(replies[uid_of[d]])
                    /\ canred' # canred => canred' = "dead" /\ \E c \in Client : CauseOfEnd(c)'
<1>0. ASSUME UNCHANGED <<answers, canred>> PROVE Goal
  BY <1>0
<1>1. ASSUME NEW c \in Client, ReadAnswer(c) PROVE Goal
  <2>1. canred' = canred /\ \A d \in Client : d # c => answers'[d] = answers[d]
    BY <1>1 DEF ReadAnswer, TypeOK
  <2>2. answers'[c] = <<>>
    BY <1>1 DEF ReadAnswer, TypeOK
  <2>3. DOMAIN answers'[c] = {}
    BY <2>2
  <2>. QED BY <2>1, <2>3
<1>2. ASSUME AnswerAtOnce PROVE Goal
  <2>. DEFINE c == to_answer
              a == Answer(c, c \notin WantsOutput, Client)
  <2>1. PICK f \in Fd : peer[f] = c /\ Send(f, a)
    BY <1>2 DEF AnswerAtOnce
  <2>2. c \in Client /\ a \in A /\ a.for = c /\ a.knew = Client
    BY <1>2 DEF AnswerAtOnce, TypeOK, Answer
  <2>3. UNCHANGED <<answered, socket, promise, text>>
    BY <1>2 DEF AnswerAtOnce, manager, client
  <2>4. socket[c] = "destroyed" => \E d \in Client : CauseOfEnd(d)'
    <3>1. socket[c] = "destroyed" => promise'[c] = "gone" \/ (c \in answered' /\ socket'[c] = "destroyed")
      BY <2>2, <2>3 DEF TableInv, Answered
    <3>. QED BY <2>2, <3>1, CausesThen
  <2>. HIDE DEF c, a
  <2>. QED BY <2>1, <2>2, <2>3, <2>4, SendAdds
<1>3. ASSUME NEW m \in ModuleUid, ReplyCommand(m) PROVE Goal
  <2>1. CASE UNCHANGED <<m_socket_requests, answered, answers, canred>>
    BY <1>0, <2>1
  <2>2. ASSUME NEW i \in DOMAIN m_socket_requests, NEW empty \in BOOLEAN,
               LET req == m_socket_requests[i]
               IN  /\ RequestAnsweredBy(m, i)
                   /\ Send(req.file_descriptor, Answer(req.client, empty, Head(replies[m])))
                   /\ answered' = answered \cup {req.client}
        PROVE  Goal
    <3>. DEFINE req == m_socket_requests[i]
                c == req.client
                f == req.file_descriptor
                a == Answer(c, empty, Head(replies[m]))
    <3>1. c \in Client /\ f \in Fd
      <4>1. m_socket_requests \in Seq(R)
        BY DEF TypeOK
      <4>2. i \in 1 .. Len(m_socket_requests)
        BY <4>1, LenProperties
      <4>3. req \in R
        BY <4>1, <4>2, ElementOfSeq
      <4>. QED BY <4>3
    <3>2. peer[f] = c /\ uid_of[c] = m
      BY <2>2 DEF TableInv, Own, RequestAnsweredBy
    <3>3. Head(replies[m]) \in SUBSET Client /\ replies[m] # <<>>
      BY <1>3, HeadTailProperties DEF ReplyCommand, TypeOK
    <3>4. a \in A /\ a.for = c /\ a.knew = Head(replies[m])
      BY <3>1, <3>3 DEF Answer
    <3>5. Send(f, a) /\ answered' = answered \cup {c}
      BY <2>2
    <3>6. socket' = socket
      BY <1>3 DEF ReplyCommand, client
    <3>. HIDE DEF c, f, a
    <3>7. /\ canred' \in {canred, "dead"}
          /\ canred' # canred => socket[c] = "destroyed"
          /\ \A d \in Client : \A k \in DOMAIN answers'[d] :
                 \/ d = c /\ answers'[d][k] = a
                 \/ k \in DOMAIN answers[d] /\ answers'[d][k] = answers[d][k]
      BY <3>1, <3>2, <3>4, <3>5, SendAdds
    <3>8. canred' # canred => \E d \in Client : CauseOfEnd(d)'
      BY <3>1, <3>5, <3>6, <3>7, CausesThen
    <3>. QED BY <3>1, <3>2, <3>3, <3>4, <3>7, <3>8
  <2>. QED BY <1>3, <2>1, <2>2 DEF ReplyCommand
<1>4. ASSUME \/ \E c \in Client : Call(c) \/ TimeOut(c) \/ Die(c) \/ add_client(c)
             \/ \E f \in Fd : RemoveClient(f)
             \/ parse_socket_input \/ ResetSocket
             \/ \E m \in ModuleUid : external_run_command(m) \/ LoseFrame(m)
             \/ UNCHANGED vars
      PROVE  Goal
  BY <1>0, <1>4 DEF Call, TimeOut, Die, add_client, RemoveClient,
     parse_socket_input, ResetSocket, external_run_command, LoseFrame, vars
<1>7. ASSUME NEW f \in Fd, handle_client_message(f) PROVE Goal
  <2>1. answers' = answers /\ canred' \in {canred, "dead"} /\ peer[f] \in Client
    BY <1>7 DEF handle_client_message, TypeOK
  <2>2. canred' # canred => text'[peer[f]] = "thrown"
    BY <1>7, <2>1 DEF handle_client_message, TypeOK
  <2>3. canred' # canred => \E d \in Client : CauseOfEnd(d)'
    BY <2>1, <2>2, CausesThen
  <2>. QED BY <2>1, <2>3
<1>. HIDE DEF Goal
<1>5. \/ \E c \in Client : ReadAnswer(c)
      \/ AnswerAtOnce
      \/ \E m \in ModuleUid : ReplyCommand(m)
      \/ \E c \in Client : Call(c) \/ TimeOut(c) \/ Die(c) \/ add_client(c)
      \/ \E f \in Fd : handle_client_message(f) \/ RemoveClient(f)
      \/ parse_socket_input \/ ResetSocket
      \/ \E m \in ModuleUid : external_run_command(m) \/ LoseFrame(m)
      \/ UNCHANGED vars
  BY DEF Next
<1>6. Goal
  BY <1>1, <1>2, <1>3, <1>4, <1>5, <1>7
<1>. QED BY <1>6 DEF Goal

(* A client is never sent the answer to a request of another, though       *)
(* requests outlive the connections they came by (CanManager.cpp:135-150,  *)
(* SocketWatcher.cpp:119-183).                                             *)
THEOREM OwnAnswers == Spec => []AnswersOwnRequest
<1>1. Init => AnswersOwnRequest
  BY EmptySeq DEF Init, AnswersOwnRequest
<1>2. TypeOK /\ TableInv /\ AnswersOwnRequest /\ [Next]_vars => AnswersOwnRequest'
  BY AnswerStep DEF AnswersOwnRequest
<1>. QED BY <1>1, <1>2, TypeCorrect, TableInvariant, PTL DEF Spec

(* A cause for the end of CanRed stays one.                                *)
LEMMA CausesStay ==
    ASSUME TypeOK, TableInv, [Next]_vars, NEW c \in Client, CauseOfEnd(c)
    PROVE  CauseOfEnd(c)'
<1>1. /\ promise[c] # "none"
      /\ ~(text[c] = "thrown" /\ c \in Unread)
  BY DEF CauseOfEnd, TableInv, TypeOK, Asked, Unread
<1>2. \A d \in Client : Call(d) => d # c
  BY <1>1 DEF Call
<1>3. answered \subseteq answered'
  BY DEF Next, vars, manager, Call, ReadAnswer, TimeOut, Die, add_client,
     handle_client_message, RemoveClient, AnswerAtOnce, parse_socket_input, ResetSocket,
     ReplyCommand, external_run_command, LoseFrame
<1>4. socket[c] = "destroyed" => socket'[c] = "destroyed"
  BY <1>2 DEF Next, vars, client, TypeOK, Call, ReadAnswer, TimeOut, Die, add_client,
     handle_client_message, RemoveClient, AnswerAtOnce, parse_socket_input, ResetSocket,
     ReplyCommand, external_run_command, LoseFrame
<1>5. promise[c] = "gone" => promise'[c] = "gone"
  <2>1. ASSUME promise[c] = "gone", NEW d \in Client,
               Call(d) \/ ReadAnswer(d) \/ TimeOut(d) \/ Die(d)
        PROVE  promise'[c] = "gone"
    <3>1. CASE d = c
      BY <2>1, <3>1 DEF Call, ReadAnswer, TimeOut, Die, TypeOK
    <3>2. CASE d # c
      BY <2>1, <3>2 DEF Call, ReadAnswer, TimeOut, Die, TypeOK
    <3>. QED BY <3>1, <3>2
  <2>2. \/ promise' = promise
        \/ \E d \in Client : Call(d) \/ ReadAnswer(d) \/ TimeOut(d) \/ Die(d)
    BY DEF Next, vars, client, add_client, handle_client_message, RemoveClient,
       AnswerAtOnce, parse_socket_input, ResetSocket, ReplyCommand, external_run_command,
       LoseFrame
  <2>. QED BY <2>1, <2>2
<1>6. text[c] = "thrown" => text'[c] = "thrown"
  <2>1. ASSUME text[c] = "thrown", NEW f \in Fd, handle_client_message(f)
        PROVE  text'[c] = "thrown"
    <3>1. peer[f] # c /\ peer[f] \in Client
      BY <1>1, <2>1 DEF handle_client_message, TypeOK
    <3>2. \E what \in {"parsed", "thrown", "kept"} : text' = [text EXCEPT ![peer[f]] = what]
      BY <2>1 DEF handle_client_message
    <3>. QED BY <2>1, <3>1, <3>2 DEF TypeOK
  <2>2. ASSUME text[c] = "thrown", NEW d \in Client, Call(d) PROVE text'[c] = "thrown"
    BY <1>2, <2>2 DEF Call, TypeOK
  <2>3. \/ text' = text
        \/ \E f \in Fd : handle_client_message(f)
        \/ \E d \in Client : Call(d)
    BY DEF Next, vars, client, ReadAnswer, TimeOut, Die, add_client, RemoveClient,
       AnswerAtOnce, parse_socket_input, ResetSocket, ReplyCommand, external_run_command,
       LoseFrame
  <2>. QED BY <2>1, <2>2, <2>3
<1>. QED BY <1>3, <1>4, <1>5, <1>6 DEF CauseOfEnd

(* Calls of runUserFunction alone do not end CanRed (runUserFunction.ts,   *)
(* SocketWatcher.cpp:201-242, CanManager.cpp:135-150 and 460-611).         *)
THEOREM CallsAreSurvived == Spec => []SurvivesCalls
<1>1. Init => SurvivesCalls
  BY DEF Init, SurvivesCalls
<1>2. TypeOK /\ TableInv /\ SurvivesCalls /\ [Next]_vars => SurvivesCalls'
  <2>. SUFFICES ASSUME TypeOK, TableInv, SurvivesCalls, [Next]_vars, canred' = "dead"
                PROVE  \E c \in Client : CauseOfEnd(c)'
    BY DEF SurvivesCalls
  <2>1. CASE canred' # canred
    BY <2>1, AnswerStep
  <2>2. CASE canred' = canred
    BY <2>2, CausesStay DEF SurvivesCalls
  <2>. QED BY <2>1, <2>2
<1>. QED BY <1>1, <1>2, TypeCorrect, TableInvariant, PTL DEF Spec

(* What is on a line to CanRed from a module, behind a quiet request, is   *)
(* of runs after that request.                                             *)
FreshInv ==
    /\ FreshWhenQuiet
    /\ \A c \in quiet : /\ c \in Asked /\ uid_of[c] \in ModuleUid
                        /\ \A k \in DOMAIN replies[uid_of[c]] : c \in replies[uid_of[c]][k]

(* A request that was made stays made.                                     *)
LEMMA AskedGrows ==
    ASSUME TypeOK, TableInv, [Next]_vars
    PROVE  Asked \subseteq Asked' /\ uid_of' = uid_of
<1>1. uid_of' = uid_of
  BY DEF Next, vars, client, Call, ReadAnswer, TimeOut, Die, add_client,
     handle_client_message, RemoveClient, AnswerAtOnce, parse_socket_input, ResetSocket,
     ReplyCommand, external_run_command, LoseFrame
<1>2. ASSUME NEW c \in Client, Call(c) PROVE Asked \subseteq Asked'
  BY <1>2 DEF Call, Asked, TableInv, TypeOK
<1>3. ASSUME NEW f \in Fd, handle_client_message(f) PROVE Asked \subseteq Asked'
  <2>1. text[peer[f]] \in {"sent", "documented"} /\ peer[f] \in Client
    BY <1>3 DEF handle_client_message, TypeOK, Unread
  <2>2. \E what \in {"parsed", "thrown", "kept"} : text' = [text EXCEPT ![peer[f]] = what]
    BY <1>3 DEF handle_client_message
  <2>3. \A c \in Client : text[c] = "parsed" => text'[c] = "parsed"
    BY <2>1, <2>2 DEF TypeOK
  <2>. QED BY <2>3 DEF Asked
<1>4. CASE \/ \E c \in Client : ReadAnswer(c) \/ TimeOut(c) \/ Die(c) \/ add_client(c)
           \/ \E f \in Fd : RemoveClient(f)
           \/ AnswerAtOnce \/ parse_socket_input \/ ResetSocket
           \/ \E m \in ModuleUid : ReplyCommand(m) \/ external_run_command(m) \/ LoseFrame(m)
           \/ UNCHANGED vars
  <2>1. text' = text
    BY <1>4 DEF vars, client, ReadAnswer, TimeOut, Die, add_client, RemoveClient, AnswerAtOnce,
       parse_socket_input, ResetSocket, ReplyCommand, external_run_command, LoseFrame
  <2>. QED BY <1>1, <2>1 DEF Asked
<1>5. \/ \E c \in Client : Call(c)
      \/ \E f \in Fd : handle_client_message(f)
      \/ \E c \in Client : ReadAnswer(c) \/ TimeOut(c) \/ Die(c) \/ add_client(c)
      \/ \E f \in Fd : RemoveClient(f)
      \/ AnswerAtOnce \/ parse_socket_input \/ ResetSocket
      \/ \E m \in ModuleUid : ReplyCommand(m) \/ external_run_command(m) \/ LoseFrame(m)
      \/ UNCHANGED vars
  BY DEF Next
<1>. QED BY <1>1, <1>2, <1>3, <1>4, <1>5

(* What is on its way back from a module was there, or is of a run now.    *)
LEMMA RepliesStep ==
    ASSUME TypeOK, [Next]_vars, NEW m \in ModuleUid, NEW k \in DOMAIN replies'[m]
    PROVE  replies'[m][k] = Asked \/ \E j \in DOMAIN replies[m] : replies'[m][k] = replies[m][j]
<1>. DEFINE Goal == \/ replies'[m][k] = Asked
                    \/ \E j \in DOMAIN replies[m] : replies'[m][k] = replies[m][j]
<1>0. replies \in [ModuleUid -> Seq(SUBSET Client)] /\ replies[m] \in Seq(SUBSET Client)
  BY DEF TypeOK
<1>1. CASE replies'[m] = replies[m]
  BY <1>1
<1>2. CASE replies[m] # <<>> /\ replies'[m] = Tail(replies[m])
  <2>1. /\ Tail(replies[m]) \in Seq(SUBSET Client) /\ Len(Tail(replies[m])) = Len(replies[m]) - 1
        /\ \A i \in 1 .. Len(Tail(replies[m])) : Tail(replies[m])[i] = replies[m][i + 1]
    BY <1>0, <1>2, HeadTailProperties
  <2>2. k \in 1 .. Len(replies[m]) - 1 /\ DOMAIN replies[m] = 1 .. Len(replies[m])
        /\ Len(replies[m]) \in Nat
    BY <1>0, <1>2, <2>1, LenProperties
  <2>3. k + 1 \in DOMAIN replies[m] /\ replies'[m][k] = replies[m][k + 1]
    BY <1>2, <2>1, <2>2
  <2>. QED BY <2>3
<1>3. CASE replies'[m] = Append(replies[m], Asked)
  <2>1. Asked \in SUBSET Client
    BY DEF Asked
  <2>. QED BY <1>0, <1>3, <2>1, AppendElements
<1>. HIDE DEF Goal
<1>4. ASSUME NEW n \in ModuleUid, ReplyCommand(n) \/ external_run_command(n) \/ LoseFrame(n)
      PROVE  Goal
  <2>1. \/ replies' = replies
        \/ replies[n] # <<>> /\ replies' = [replies EXCEPT ![n] = Tail(@)]
        \/ replies' = [replies EXCEPT ![n] = Append(@, Asked)]
    BY <1>4 DEF ReplyCommand, external_run_command, LoseFrame
  <2>2. \/ replies'[m] = replies[m]
        \/ replies[m] # <<>> /\ replies'[m] = Tail(replies[m])
        \/ replies'[m] = Append(replies[m], Asked)
    BY <1>0, <2>1
  <2>. QED BY <1>1, <1>2, <1>3, <2>2 DEF Goal
<1>5. \/ \E n \in ModuleUid : ReplyCommand(n) \/ external_run_command(n) \/ LoseFrame(n)
      \/ replies' = replies
  BY DEF Next, vars, line, Call, ReadAnswer, TimeOut, Die, add_client, handle_client_message,
     RemoveClient, AnswerAtOnce, parse_socket_input, ResetSocket
<1>. QED BY <1>1, <1>4, <1>5 DEF Goal

(* The answer to a request that found its module's line empty is of a run  *)
(* after the request was made (CanManager.cpp:135-150 and 422-450).        *)
THEOREM FreshAnswers == Spec => []FreshWhenQuiet
<1>1. Init => FreshInv
  BY DEF Init, FreshInv, FreshWhenQuiet
<1>2. TypeOK /\ TableInv /\ FreshInv /\ [Next]_vars => FreshInv'
  <2>. SUFFICES ASSUME TypeOK, TableInv, FreshInv, [Next]_vars, NEW c \in quiet'
                PROVE  /\ \A k \in DOMAIN answers'[c] : c \in answers'[c][k].knew
                       /\ c \in Asked' /\ uid_of'[c] \in ModuleUid
                       /\ \A k \in DOMAIN replies'[uid_of'[c]] : c \in replies'[uid_of'[c]][k]
    BY DEF FreshInv, FreshWhenQuiet
  <2>1. Asked \subseteq Asked' /\ uid_of' = uid_of
    BY AskedGrows
  <2>2. CASE c \in quiet
    <3>1. /\ c \in Client /\ c \in Asked /\ uid_of[c] \in ModuleUid
          /\ \A k \in DOMAIN replies[uid_of[c]] : c \in replies[uid_of[c]][k]
          /\ \A k \in DOMAIN answers[c] : c \in answers[c][k].knew
      BY <2>2 DEF FreshInv, FreshWhenQuiet, TypeOK
    <3>2. ASSUME NEW k \in DOMAIN replies'[uid_of[c]] PROVE c \in replies'[uid_of[c]][k]
      BY <3>1, RepliesStep
    <3>3. replies[uid_of[c]] # <<>> => c \in Head(replies[uid_of[c]])
      <4>1. replies[uid_of[c]] \in Seq(SUBSET Client)
        BY <3>1 DEF TypeOK
      <4>2. replies[uid_of[c]] # <<>> => 1 \in DOMAIN replies[uid_of[c]]
        BY <4>1, EmptySeq, LenProperties
      <4>. QED BY <3>1, <4>1, <4>2
    <3>4. ASSUME NEW k \in DOMAIN answers'[c] PROVE c \in answers'[c][k].knew
      BY <3>1, <3>3, AnswerStep
    <3>. QED BY <2>1, <3>1, <3>2, <3>4
  <2>3. CASE c \notin quiet
    <3>1. \E f \in Fd : handle_client_message(f)
      BY <2>3 DEF Next, vars, Call, ReadAnswer, TimeOut, Die, add_client, RemoveClient,
         AnswerAtOnce, parse_socket_input, ResetSocket, ReplyCommand, external_run_command,
         LoseFrame
    <3>2. PICK f \in Fd : handle_client_message(f)
      BY <3>1
    <3>3. /\ c = peer[f] /\ text[c] = "sent" /\ text' = [text EXCEPT ![c] = "parsed"]
          /\ uid_of[c] # 0 /\ replies[uid_of[c]] = <<>>
      BY <2>3, <3>2 DEF handle_client_message, NothingOnLine
    <3>4. c \in Client
      BY <3>2, <3>3 DEF handle_client_message, TypeOK
    <3>5. answers[c] = <<>> /\ c \in Asked'
      BY <3>3, <3>4 DEF TableInv, Answered, Asked, TypeOK
    <3>6. uid_of[c] \in ModuleUid
      <4>1. uid_of \in Lookup /\ uid_of[c] \in {uid_of[d] : d \in Client}
        BY <3>4 DEF TypeOK
      <4>. QED BY <3>3, <4>1 DEF ModuleUid
    <3>7. replies' = replies /\ answers' = answers
      BY <3>2 DEF handle_client_message, line
    <3>. QED BY <2>1, <3>3, <3>5, <3>6, <3>7
  <2>. QED BY <2>2, <2>3
<1>3. FreshInv => FreshWhenQuiet
  BY DEF FreshInv
<1>. QED BY <1>1, <1>2, <1>3, TypeCorrect, TableInvariant, PTL DEF Spec

(* The sequence s holds one request of each of the clients in set.         *)
OnceEach(s, set) ==
    /\ \A i, j \in DOMAIN s : s[i].client = s[j].client => i = j
    /\ {s[i].client : i \in DOMAIN s} = set

(* Without one of the requests, its client is the one that is missing.     *)
LEMMA RemoveOnce ==
    ASSUME NEW S, NEW s \in Seq(S), NEW set, OnceEach(s, set), NEW i \in DOMAIN s
    PROVE  OnceEach(RemoveAt(s, i), set \ {s[i].client})
<1>. DEFINE t == RemoveAt(s, i)
<1>1. /\ DOMAIN s = 1 .. Len(s) /\ Len(s) \in Nat
      /\ DOMAIN t = 1 .. Len(s) - 1
  BY RemoveAtProperties, LenProperties
<1>2. \A k \in DOMAIN t : t[k] = IF k < i THEN s[k] ELSE s[k + 1]
  BY <1>1, RemoveAtProperties
<1>. HIDE DEF t
<1>3. ASSUME NEW j \in DOMAIN t, NEW k \in DOMAIN t, t[j].client = t[k].client PROVE j = k
  <2>. DEFINE jj == IF j < i THEN j ELSE j + 1
              kk == IF k < i THEN k ELSE k + 1
  <2>1. jj \in DOMAIN s /\ kk \in DOMAIN s /\ t[j] = s[jj] /\ t[k] = s[kk]
    BY <1>1, <1>2
  <2>2. jj = kk
    BY <1>3, <2>1 DEF OnceEach
  <2>. QED BY <1>1, <2>2
<1>4. ASSUME NEW k \in DOMAIN t PROVE t[k].client \in set \ {s[i].client}
  <2>. DEFINE kk == IF k < i THEN k ELSE k + 1
  <2>1. kk \in DOMAIN s /\ kk # i /\ t[k] = s[kk]
    BY <1>1, <1>2
  <2>. QED BY <2>1 DEF OnceEach
<1>5. ASSUME NEW c \in set \ {s[i].client} PROVE \E k \in DOMAIN t : t[k].client = c
  <2>1. PICK j \in DOMAIN s : s[j].client = c
    BY DEF OnceEach
  <2>. DEFINE k == IF j < i THEN j ELSE j - 1
  <2>2. j # i
    BY <2>1
  <2>3. k \in DOMAIN t /\ t[k] = s[j]
    BY <1>1, <1>2, <2>2
  <2>. QED BY <2>1, <2>3
<1>6. {t[k].client : k \in DOMAIN t} = set \ {s[i].client}
  BY <1>4, <1>5
<1>. QED BY <1>3, <1>6 DEF OnceEach, t

(* With the request of a client that had none, at the end of the first of  *)
(* two sequences.                                                          *)
LEMMA InsertOnce ==
    ASSUME NEW S, NEW s \in Seq(S), NEW t \in Seq(S), NEW set, OnceEach(s \o t, set),
           NEW r \in S, r.client \notin set
    PROVE  OnceEach(Append(s, r) \o t, set \cup {r.client})
<1>. DEFINE u == s \o t
            v == Append(s, r) \o t
            n == Len(s) + 1
<1>1. /\ Len(s) \in Nat /\ Len(t) \in Nat
      /\ u \in Seq(S) /\ DOMAIN u = 1 .. Len(s) + Len(t)
      /\ \A k \in DOMAIN u : u[k] = IF k <= Len(s) THEN s[k] ELSE t[k - Len(s)]
  BY ConcatProperties, LenProperties
<1>2. /\ Append(s, r) \in Seq(S) /\ Len(Append(s, r)) = n
      /\ Append(s, r)[n] = r
      /\ \A k \in 1 .. Len(s) : Append(s, r)[k] = s[k]
  BY AppendProperties
<1>3. /\ DOMAIN v = 1 .. n + Len(t)
      /\ \A k \in DOMAIN v : v[k] = IF k <= n THEN Append(s, r)[k] ELSE t[k - n]
  BY <1>2, ConcatProperties, LenProperties
<1>. HIDE DEF u, v
<1>4. v[n] = r /\ n \in DOMAIN v
  BY <1>1, <1>2, <1>3
<1>5. ASSUME NEW k \in DOMAIN v, k # n
      PROVE  (IF k < n THEN k ELSE k - 1) \in DOMAIN u /\ v[k] = u[IF k < n THEN k ELSE k - 1]
  <2>1. CASE k < n
    <3>1. k \in 1 .. Len(s) /\ k \in DOMAIN u
      BY <1>1, <1>3, <2>1
    <3>. QED BY <1>1, <1>2, <1>3, <2>1, <3>1
  <2>2. CASE ~(k < n)
    <3>1. k - 1 \in DOMAIN u /\ ~(k <= n) /\ ~(k - 1 <= Len(s)) /\ (k - 1) - Len(s) = k - n
      BY <1>1, <1>3, <1>5, <2>2
    <3>. QED BY <1>1, <1>3, <2>2, <3>1
  <2>. QED BY <2>1, <2>2
<1>6. ASSUME NEW j \in DOMAIN u
      PROVE  \E k \in DOMAIN v : v[k] = u[j]
  <2>. DEFINE k == IF j < n THEN j ELSE j + 1
  <2>1. k \in DOMAIN v /\ k # n /\ (IF k < n THEN k ELSE k - 1) = j
    BY <1>1, <1>3
  <2>. QED BY <1>5, <2>1
<1>7. OnceEach(u, set)
  BY DEF u
<1>8. \A k \in DOMAIN v : k # n => v[k].client \in set
  BY <1>5, <1>7 DEF OnceEach
<1>9. ASSUME NEW j \in DOMAIN v, NEW k \in DOMAIN v, v[j].client = v[k].client PROVE j = k
  <2>1. CASE j # n /\ k # n
    <3>1. (IF j < n THEN j ELSE j - 1) = (IF k < n THEN k ELSE k - 1)
      BY <1>5, <1>7, <1>9, <2>1 DEF OnceEach
    <3>. QED BY <1>1, <1>3, <2>1, <3>1
  <2>2. CASE j = n \/ k = n
    BY <1>4, <1>8, <1>9, <2>2
  <2>. QED BY <2>1, <2>2
<1>10. {v[k].client : k \in DOMAIN v} = set \cup {r.client}
  <2>1. ASSUME NEW c \in set PROVE \E k \in DOMAIN v : v[k].client = c
    BY <1>6, <1>7 DEF OnceEach
  <2>. QED BY <1>4, <1>8, <2>1
<1>. QED BY <1>9, <1>10 DEF OnceEach, v

(* To remove from the second of two sequences is to remove from both.      *)
LEMMA RemoveBehind ==
    ASSUME NEW S, NEW s \in Seq(S), NEW t \in Seq(S), NEW i \in DOMAIN t
    PROVE  /\ Len(s) + i \in DOMAIN (s \o t)
           /\ (s \o t)[Len(s) + i] = t[i]
           /\ s \o RemoveAt(t, i) = RemoveAt(s \o t, Len(s) + i)
<1>. DEFINE u == s \o t
            n == Len(s) + i
            w == RemoveAt(t, i)
            a == s \o w
            b == RemoveAt(u, n)
<1>1. /\ Len(s) \in Nat /\ Len(t) \in Nat /\ i \in 1 .. Len(t)
      /\ u \in Seq(S) /\ Len(u) = Len(s) + Len(t) /\ DOMAIN u = 1 .. Len(s) + Len(t)
      /\ \A k \in 1 .. Len(s) + Len(t) : u[k] = IF k <= Len(s) THEN s[k] ELSE t[k - Len(s)]
  BY ConcatProperties, LenProperties
<1>2. n \in DOMAIN u /\ u[n] = t[i]
  BY <1>1
<1>3. /\ w \in Seq(S) /\ Len(w) = Len(t) - 1
      /\ \A k \in 1 .. Len(t) - 1 : w[k] = IF k < i THEN t[k] ELSE t[k + 1]
  BY RemoveAtProperties
<1>. HIDE DEF w
<1>4. /\ a \in Seq(S) /\ Len(a) = Len(s) + (Len(t) - 1)
      /\ \A k \in 1 .. Len(s) + (Len(t) - 1) :
             a[k] = IF k <= Len(s) THEN s[k] ELSE w[k - Len(s)]
  <2>1. /\ a \in Seq(S) /\ Len(a) = Len(s) + Len(w)
        /\ \A k \in 1 .. Len(s) + Len(w) :
               a[k] = IF k <= Len(s) THEN s[k] ELSE w[k - Len(s)]
    BY <1>3, ConcatProperties
  <2>. HIDE DEF a
  <2>2. Len(w) = Len(t) - 1
    BY <1>3
  <2>. QED BY <2>1, <2>2
<1>. HIDE DEF u
<1>5. /\ b \in Seq(S) /\ Len(b) = Len(u) - 1
      /\ \A k \in 1 .. Len(u) - 1 : b[k] = IF k < n THEN u[k] ELSE u[k + 1]
  BY <1>1, <1>2, RemoveAtProperties
<1>. HIDE DEF a, b
<1>6. Len(a) = Len(b)
  BY <1>1, <1>4, <1>5
<1>7. ASSUME NEW k \in 1 .. Len(a) PROVE a[k] = b[k]
  <2>0. k \in 1 .. Len(s) + (Len(t) - 1) /\ k \in 1 .. Len(u) - 1
    BY <1>1, <1>4
  <2>1. CASE k <= Len(s)
    <3>1. a[k] = s[k]
      BY <1>4, <2>0, <2>1
    <3>2. k < n /\ k \in 1 .. Len(s) + Len(t) /\ u[k] = s[k]
      BY <1>1, <2>0, <2>1
    <3>. QED BY <1>5, <2>0, <3>1, <3>2
  <2>2. CASE ~(k <= Len(s))
    <3>. DEFINE m == k - Len(s)
    <3>1. m \in 1 .. Len(t) - 1 /\ (m < i <=> k < n) /\ k + 1 - Len(s) = m + 1 /\ ~(k + 1 <= Len(s))
          /\ k \in 1 .. Len(s) + Len(t) /\ k + 1 \in 1 .. Len(s) + Len(t)
      BY <1>1, <2>0, <2>2
    <3>2. u[k] = t[m] /\ u[k + 1] = t[m + 1]
      BY <1>1, <2>2, <3>1
    <3>3. a[k] = w[m]
      BY <1>4, <2>0, <2>2
    <3>. HIDE DEF m, n
    <3>4. a[k] = IF m < i THEN t[m] ELSE t[m + 1]
      BY <1>3, <3>1, <3>3
    <3>5. b[k] = IF k < n THEN u[k] ELSE u[k + 1]
      BY <1>5, <2>0
    <3>. QED BY <3>1, <3>2, <3>4, <3>5
  <2>. QED BY <2>1, <2>2
<1>8. a = b
  BY <1>4, <1>5, <1>6, <1>7, SeqEqual
<1>. QED BY <1>2, <1>8 DEF a, b, u, w

(* A request is in one place, once, until a module's reply answers it, and *)
(* nowhere after that (SocketWatcher.cpp:223, CanManager.cpp:146-150 and   *)
(* 425-429).                                                               *)
THEOREM KeptOnce == Spec => []RequestsKeptOnce
<1>. DEFINE R == [client : Client, file_descriptor : Fd]
<1>0. RequestsKeptOnce <=> OnceEach(Waiting, Asked \ answered)
  BY DEF RequestsKeptOnce, OnceEach
<1>1. Init => RequestsKeptOnce
  <2>. SUFFICES ASSUME Init PROVE RequestsKeptOnce
    OBVIOUS
  <2>1. Waiting = <<>>
    BY ConcatEmptySeq, EmptySeq DEF Init, Waiting
  <2>2. DOMAIN Waiting = {} /\ Asked = {}
    BY <2>1 DEF Init, Asked
  <2>. QED BY <2>2 DEF RequestsKeptOnce
<1>2. TypeOK /\ TableInv /\ RequestsKeptOnce /\ [Next]_vars => RequestsKeptOnce'
  <2>. SUFFICES ASSUME TypeOK, TableInv, OnceEach(Waiting, Asked \ answered), [Next]_vars
                PROVE  OnceEach(Waiting', Asked' \ answered')
    BY <1>0 DEF RequestsKeptOnce, OnceEach
  <2>0. socket_requests \in Seq(R) /\ m_socket_requests \in Seq(R)
    BY DEF TypeOK
  <2>1. CASE UNCHANGED <<socket_requests, m_socket_requests, text, answered>>
    BY <2>1 DEF Waiting, Asked
  <2>2. ASSUME NEW c \in Client, Call(c) PROVE OnceEach(Waiting', Asked' \ answered')
    <3>1. Asked' = Asked
      BY <2>2 DEF Call, Asked, TableInv, TypeOK
    <3>2. Waiting' = Waiting /\ answered' = answered
      BY <2>2 DEF Call, manager, Waiting
    <3>. QED BY <3>1, <3>2
  <2>3. ASSUME NEW f \in Fd, handle_client_message(f) PROVE OnceEach(Waiting', Asked' \ answered')
    <3>. DEFINE c == peer[f]
    <3>1. /\ c \in Client /\ c \notin Asked /\ UNCHANGED <<m_socket_requests, answered>>
      BY <2>3 DEF handle_client_message, TypeOK, Unread, Asked, manager
    <3>2. CASE /\ text' = [text EXCEPT ![c] = "kept"] \/ text' = [text EXCEPT ![c] = "thrown"]
               /\ UNCHANGED socket_requests
      <4>1. Asked' = Asked
        BY <3>1, <3>2 DEF Asked, TypeOK
      <4>. QED BY <3>1, <3>2, <4>1 DEF Waiting
    <3>3. CASE /\ text' = [text EXCEPT ![c] = "parsed"]
               /\ socket_requests' = Append(socket_requests, Request(c, f))
      <4>1. Asked' = Asked \cup {c}
        BY <3>1, <3>3 DEF Asked, TypeOK
      <4>. DEFINE r == Request(c, f)
      <4>2. r \in R /\ r.client = c
        BY <3>1 DEF Request
      <4>3. Asked' \ answered' = (Asked \ answered) \cup {c}
        BY <3>1, <4>1 DEF TableInv
      <4>4. Waiting' = Append(socket_requests, r) \o m_socket_requests
        BY <3>1, <3>3 DEF Waiting
      <4>5. OnceEach(socket_requests \o m_socket_requests, Asked \ answered)
        BY DEF Waiting
      <4>6. r.client \notin Asked \ answered
        BY <3>1, <4>2
      <4>. HIDE DEF r
      <4>7. OnceEach(Append(socket_requests, r) \o m_socket_requests, (Asked \ answered) \cup {r.client})
        BY <2>0, <4>2, <4>5, <4>6, InsertOnce
      <4>. QED BY <4>2, <4>3, <4>4, <4>7
    <3>. QED BY <2>3, <3>2, <3>3 DEF handle_client_message
  <2>4. CASE parse_socket_input
    <3>1. Waiting' = <<>> \o Waiting
      BY <2>4 DEF parse_socket_input, TakeRequests, Waiting
    <3>2. Waiting \in Seq(R)
      BY <2>0, ConcatProperties DEF Waiting
    <3>3. Waiting' = Waiting
      BY <3>1, <3>2, ConcatEmptySeq
    <3>. QED BY <2>4, <3>3 DEF parse_socket_input, client, Asked
  <2>5. ASSUME NEW m \in ModuleUid, ReplyCommand(m) PROVE OnceEach(Waiting', Asked' \ answered')
    <3>1. Asked' = Asked /\ socket_requests' = socket_requests
      BY <2>5 DEF ReplyCommand, client, Asked
    <3>2. CASE UNCHANGED <<m_socket_requests, answered>>
      BY <3>1, <3>2 DEF Waiting
    <3>3. ASSUME NEW i \in DOMAIN m_socket_requests,
                 m_socket_requests' = RemoveAt(m_socket_requests, i),
                 answered' = answered \cup {m_socket_requests[i].client}
          PROVE  OnceEach(Waiting', Asked' \ answered')
      <4>. DEFINE n == Len(socket_requests) + i
      <4>1. n \in DOMAIN Waiting /\ Waiting[n] = m_socket_requests[i]
            /\ Waiting' = RemoveAt(Waiting, n)
        BY <2>0, <3>1, <3>3, RemoveBehind DEF Waiting
      <4>2. Waiting \in Seq(R)
        BY <2>0, ConcatProperties DEF Waiting
      <4>. HIDE DEF n
      <4>3. OnceEach(RemoveAt(Waiting, n), (Asked \ answered) \ {Waiting[n].client})
        BY <4>1, <4>2, RemoveOnce
      <4>4. (Asked \ answered) \ {Waiting[n].client} = Asked' \ answered'
        BY <3>1, <3>3, <4>1
      <4>. QED BY <4>1, <4>3, <4>4
    <3>. QED BY <2>5, <3>2, <3>3 DEF ReplyCommand
  <2>6. \/ UNCHANGED <<socket_requests, m_socket_requests, text, answered>>
        \/ \E c \in Client : Call(c)
        \/ \E f \in Fd : handle_client_message(f)
        \/ parse_socket_input
        \/ \E m \in ModuleUid : ReplyCommand(m)
    BY DEF Next, vars, client, manager, ReadAnswer, TimeOut, Die, add_client, RemoveClient,
       AnswerAtOnce, ResetSocket, external_run_command, LoseFrame
  <2>. QED BY <2>1, <2>2, <2>3, <2>4, <2>5, <2>6
<1>. QED BY <1>1, <1>2, TypeCorrect, TableInvariant, PTL DEF Spec
=============================================================================
