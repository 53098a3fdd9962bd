--------------------------- MODULE ModulesProofs ----------------------------
(***************************************************************************)
(* Theorems about what modules keep and run without CanRed.                *)
(*                                                                         *)
(* The key fob, for any buttons, any width of the counters, any number of  *)
(* presses and power losses: types, the order in which the car runs        *)
(* commands, that the car is never ahead of the remote, that IVs are       *)
(* fresh, and that no press is stranded.                                   *)
(*                                                                         *)
(* The events that a module stores, for any events and any capacity:       *)
(* types, and that, until an event is stored whose first byte is 0, they   *)
(* are a list and no search through them hangs.                            *)
(*                                                                         *)
(* The flows of events, for any graphs in Node-RED, any modules and any    *)
(* number of runs: that the compiler makes valid flows of a graph that is  *)
(* in order and keeps them, that a run is on one module at a time, goes    *)
(* along the wires, and ends where they end or a broadcast was in vain.    *)
(***************************************************************************)
EXTENDS KeyFob, EventStore, EventFlow,
        SequenceTheorems, FiniteSetTheorems, WellFoundedInduction, TLAPS

-----------------------------------------------------------------------------
(* The key fob.                                                             *)

(* Both counters wrap at Modulus. *)
LEMMA NextCodeOf ==
    ASSUME NEW n \in Code
    PROVE /\ (n + 1) % Modulus \in Code
          /\ (n + 1) % Modulus # 0 => (n + 1) % Modulus = n + 1
<1>1. CASE n + 1 = Modulus
  BY <1>1, CodeAssumption DEF Code
<1>2. CASE n + 1 # Modulus
  BY <1>2, CodeAssumption DEF Code
<1>. QED BY <1>1, <1>2

(* main starts from codes, whether or not its flash can be read. *)
LEMMA StartsFromCodes ==
    ASSUME NEW flash \in MessageParameters
    PROVE  get_initial_message_parameters(flash) \subseteq MessageParameters
BY CodeAssumption DEF get_initial_message_parameters, defaults, MessageParameters

LEMMA TypeInit == Init => TypeOK
<1>. SUFFICES ASSUME Init PROVE TypeOK
  OBVIOUS
<1>1. 0 \in Code
  BY CodeAssumption DEF Code
<1>2. defaults \in MessageParameters
  BY CodeAssumption DEF defaults, MessageParameters
<1>3. message \in Message
  BY <1>1 DEF Init, Message
<1>4. run \in Seq(Message)
  BY EmptySeq DEF Init
<1>5. presses \in 0..MaxPresses /\ power_losses \in 0..MaxPowerLosses
  BY CodeAssumption DEF Init
<1>. QED BY <1>2, <1>3, <1>4, <1>5 DEF Init, TypeOK

LEMMA TypeStep == TypeOK /\ [Next]_vars => TypeOK'
<1>. SUFFICES ASSUME TypeOK, [Next]_vars PROVE TypeOK'
  OBVIOUS
<1>. USE DEF TypeOK, remoteVars, buttonVars, carVars
<1>1. ASSUME NEW c \in Command \cup {command_to_send}, button_pressed(c) PROVE TypeOK'
  BY <1>1, CodeAssumption DEF button_pressed
<1>2. CASE TakeSemaphore
  BY <1>2 DEF TakeSemaphore
<1>3. CASE TestCommand
  BY <1>3 DEF TestCommand
<1>4. CASE NextIV
  <2>1. remote' \in MessageParameters
    BY <1>4, NextCodeOf DEF NextIV, MessageParameters
  <2>2. remote_flash' \in MessageParameters
    BY <1>4, <2>1 DEF NextIV, MessageParameters
  <2>. QED BY <1>4, <2>1, <2>2 DEF NextIV
<1>5. CASE NextCode
  BY <1>5 DEF NextCode, MessageParameters
<1>6. CASE SendMessage
  BY <1>6 DEF SendMessage, MessageParameters, Message
<1>7. CASE ResetCommand
  BY <1>7 DEF ResetCommand
<1>8. CASE RemotePowerLoss
  BY <1>8, StartsFromCodes, CodeAssumption DEF RemotePowerLoss
<1>9. ASSUME NEW m \in air, handle_lora_message(m) PROVE TypeOK'
  BY <1>9 DEF handle_lora_message, MessageParameters, Message
<1>10. CASE WriteIV
  BY <1>10 DEF WriteIV, MessageParameters
<1>11. CASE WriteCode
  BY <1>11 DEF WriteCode, MessageParameters
<1>12. CASE handle_command
  <2>1. run' \in Seq(Message)
    BY <1>12, AppendProperties DEF handle_command
  <2>. QED BY <1>12, <2>1 DEF handle_command
<1>13. CASE CarPowerLoss
  BY <1>13, StartsFromCodes, CodeAssumption DEF CarPowerLoss
<1>14. CASE UNCHANGED vars
  BY <1>14 DEF vars
<1>. QED BY <1>1, <1>2, <1>3, <1>4, <1>5, <1>6, <1>7, <1>8, <1>9, <1>10, <1>11, <1>12,
            <1>13, <1>14 DEF Next, RemoteLoop

(* Every variable keeps its type, whatever fails and whenever power goes. *)
THEOREM TypeCorrect == Spec => []TypeOK
BY TypeInit, TypeStep, PTL DEF Spec

----------------------------------------------------------------------------
(* No press is stranded (LoraRemote/src/main.cpp:76-95 and 291-316): the   *)
(* property is inductive by itself.                                        *)
THEOREM PressesWake == Spec => []NoPressStranded
<1>1. Init => NoPressStranded
  BY DEF Init, NoPressStranded
<1>2. NoPressStranded /\ [Next]_vars => NoPressStranded'
  BY DEF NoPressStranded, Next, RemoteLoop, vars, remoteVars, buttonVars, button_pressed,
         TakeSemaphore, TestCommand, NextIV, NextCode, SendMessage, ResetCommand,
         RemotePowerLoss, handle_lora_message, WriteIV, WriteCode, handle_command, CarPowerLoss
<1>. QED BY <1>1, <1>2, PTL DEF Spec

----------------------------------------------------------------------------
(* The order of the commands the car runs.  What the car ran is covered by *)
(* the code in its flash, and while it handles a message that message has  *)
(* the code in memory, higher than all it ran.                             *)
CarInv ==
    ~car_write_failed /\ ~car_read_failed =>
        /\ car_pc \in {"receive", "run"} => car_flash.rolling_code = car.rolling_code
        /\ car_pc # "receive" =>
            /\ message.rolling_code = car.rolling_code
            /\ \A j \in DOMAIN run : run[j].rolling_code < car.rolling_code
        /\ \A j \in DOMAIN run : run[j].rolling_code <= car_flash.rolling_code
        /\ \A j, k \in DOMAIN run : j < k => run[j].rolling_code < run[k].rolling_code

LEMMA RunCodes == ASSUME TypeOK PROVE \A j \in DOMAIN run : run[j].rolling_code \in Nat
<1>. SUFFICES ASSUME NEW j \in DOMAIN run PROVE run[j].rolling_code \in Nat
  OBVIOUS
<1>1. run \in Seq(Message) /\ j \in 1..Len(run)
  BY LenProperties DEF TypeOK
<1>2. run[j] \in Message
  BY <1>1, ElementOfSeq
<1>. QED BY <1>2, CodeAssumption DEF Message, Code

LEMMA CarStep == TypeOK /\ CarInv /\ [Next]_vars => CarInv'
<1>. SUFFICES ASSUME TypeOK, CarInv, [Next]_vars, ~car_write_failed', ~car_read_failed'
              PROVE CarInv'
  BY DEF CarInv
<1>1. CASE UNCHANGED carVars
  BY <1>1 DEF CarInv, carVars
<1>2. ASSUME NEW m \in air, handle_lora_message(m) PROVE CarInv'
  <2>1. m.rolling_code \in Nat /\ car.rolling_code \in Nat
    BY CodeAssumption DEF TypeOK, Message, MessageParameters, Code
  <2>2. \A j \in DOMAIN run : run[j].rolling_code \in Nat
    BY RunCodes
  <2>3. \A j \in DOMAIN run : run[j].rolling_code < m.rolling_code
    BY <1>2, <2>1, <2>2 DEF CarInv, handle_lora_message, IsAcceptable
  <2>. QED BY <1>2, <2>3 DEF CarInv, handle_lora_message
<1>3. CASE WriteIV
  <2>1. car_flash'.rolling_code = car_flash.rolling_code
    BY <1>3 DEF WriteIV, TypeOK, MessageParameters
  <2>. QED BY <1>3, <2>1 DEF CarInv, WriteIV
<1>4. CASE WriteCode
  <2>1. ~car_write_failed /\ ~car_read_failed /\ car_flash'.rolling_code = car.rolling_code
    BY <1>4 DEF WriteCode, TypeOK, MessageParameters
  <2>2. \A j \in DOMAIN run : run[j].rolling_code < car.rolling_code
    BY <1>4, <2>1 DEF CarInv, WriteCode
  <2>3. \A j \in DOMAIN run : run[j].rolling_code \in Nat
    BY RunCodes
  <2>4. car.rolling_code \in Nat
    BY CodeAssumption DEF TypeOK, MessageParameters, Code
  <2>5. \A j \in DOMAIN run : run[j].rolling_code <= car.rolling_code
    BY <2>2, <2>3, <2>4
  <2>. QED BY <1>4, <2>1, <2>2, <2>5 DEF CarInv, WriteCode
<1>5. CASE handle_command
  <2>1. /\ ~car_write_failed /\ ~car_read_failed
        /\ car_flash.rolling_code = car.rolling_code
        /\ message.rolling_code = car.rolling_code
        /\ \A j \in DOMAIN run : run[j].rolling_code < message.rolling_code
    BY <1>5 DEF CarInv, handle_command
  <2>2. /\ DOMAIN run' = 1..(Len(run) + 1) /\ DOMAIN run = 1..Len(run) /\ Len(run) \in Nat
        /\ \A j \in DOMAIN run : run'[j] = run[j]
        /\ run'[Len(run) + 1] = message
    BY <1>5, AppendProperties, LenProperties DEF handle_command, TypeOK
  <2>3. \A j \in DOMAIN run' : j \in DOMAIN run \/ j = Len(run) + 1
    BY <2>2
  <2>4. car.rolling_code \in Nat
    BY CodeAssumption DEF TypeOK, MessageParameters, Code
  <2>5. \A j \in DOMAIN run' : run'[j].rolling_code <= car_flash'.rolling_code
    BY <1>5, <2>1, <2>2, <2>3, <2>4 DEF CarInv, handle_command
  <2>6. ASSUME NEW j \in DOMAIN run', NEW k \in DOMAIN run', j < k
        PROVE run'[j].rolling_code < run'[k].rolling_code
    <3>1. j \in DOMAIN run
      BY <2>2, <2>6
    <3>2. CASE k \in DOMAIN run
      BY <2>1, <2>2, <2>6, <3>1, <3>2 DEF CarInv
    <3>3. CASE k = Len(run) + 1
      BY <2>1, <2>2, <3>1, <3>3
    <3>. QED BY <2>3, <3>2, <3>3
  <2>. QED BY <1>5, <2>1, <2>5, <2>6 DEF CarInv, handle_command
<1>6. CASE CarPowerLoss
  <2>1. ~car_read_failed /\ car' = car_flash
    <3>1. car_read_failed' = (car_read_failed \/ car' # car_flash)
      BY <1>6 DEF CarPowerLoss
    <3>. QED BY <3>1, Zenon
  <2>. QED BY <1>6, <2>1 DEF CarInv, CarPowerLoss
<1>. QED BY <1>1, <1>2, <1>3, <1>4, <1>5, <1>6
         DEF Next, RemoteLoop, vars, button_pressed, TakeSemaphore, TestCommand, NextIV, NextCode,
             SendMessage, ResetCommand, RemotePowerLoss

(* The car runs commands in the order of their codes, each at most once.   *)
THEOREM CarRunsInOrder == Spec => []RunsInOrder
<1>1. Init => CarInv
  BY DEF Init, CarInv, defaults
<1>2. CarInv => RunsInOrder
  BY DEF CarInv, RunsInOrder
<1>. QED BY <1>1, <1>2, CarStep, TypeCorrect, PTL DEF Spec

----------------------------------------------------------------------------
(* The remote's flash is ahead of all it sent, and the car behind it.      *)
RemoteInv ==
    RemoteCounts =>
        /\ remote_flash.iv = remote.iv
        /\ remote.rolling_code =
            IF remote_pc = "next_code" THEN remote_flash.rolling_code + 1
            ELSE remote_flash.rolling_code
        /\ \A m \in air :
            /\ m.rolling_code <= remote_flash.rolling_code
            /\ m.iv <= remote.iv
            /\ remote_pc \in {"next_code", "send"} => m.iv < remote.iv
        /\ IVsFresh
        /\ car.rolling_code <= remote_flash.rolling_code
        /\ car_flash.rolling_code <= remote_flash.rolling_code
        /\ ROLLING_CODE_DEFAULT_VALUE <= remote_flash.rolling_code

(* The remote's counter cannot come to go on from all it reached before:   *)
(* it does so from the start.                                              *)
LEMMA CountsLater == ASSUME [Next]_vars, RemoteCounts' PROVE RemoteCounts
<1>1. CASE NextIV
  <2>1. wrapped' = (wrapped \/ remote'.iv = 0 \/ remote'.rolling_code = 0)
    BY <1>1 DEF NextIV
  <2>2. ~wrapped' /\ ~remote_read_failed' /\ ~remote_write_failed'
    BY DEF RemoteCounts
  <2>3. ~wrapped
    BY <2>1, <2>2, Zenon
  <2>4. ~remote_write_failed /\ ~remote_read_failed
    BY <1>1, <2>2 DEF NextIV
  <2>. QED BY <2>3, <2>4 DEF RemoteCounts
<1>2. CASE RemotePowerLoss
  <2>1. remote_read_failed' = (remote_read_failed \/ remote' # remote_flash)
    BY <1>2 DEF RemotePowerLoss
  <2>2. ~wrapped' /\ ~remote_read_failed' /\ ~remote_write_failed'
    BY DEF RemoteCounts
  <2>3. ~remote_read_failed
    BY <2>1, <2>2, Zenon
  <2>4. ~remote_write_failed /\ ~wrapped
    BY <1>2, <2>2 DEF RemotePowerLoss
  <2>. QED BY <2>3, <2>4 DEF RemoteCounts
<1>3. CASE NextCode
  BY <1>3 DEF NextCode, RemoteCounts
<1>4. CASE UNCHANGED <<remote_write_failed, remote_read_failed, wrapped>>
  BY <1>4 DEF RemoteCounts
<1>. QED BY <1>1, <1>2, <1>3, <1>4
         DEF Next, RemoteLoop, vars, remoteVars, button_pressed, TakeSemaphore, TestCommand,
             SendMessage, ResetCommand, handle_lora_message, WriteIV, WriteCode,
             handle_command, CarPowerLoss

LEMMA RemoteStep == TypeOK /\ RemoteInv /\ [Next]_vars => RemoteInv'
<1>. SUFFICES ASSUME TypeOK, RemoteInv, [Next]_vars, RemoteCounts'
              PROVE RemoteInv'
  BY DEF RemoteInv
<1>1. /\ remote.iv \in Code /\ remote.rolling_code \in Code
      /\ remote_flash.iv \in Code /\ remote_flash.rolling_code \in Code
      /\ car.rolling_code \in Code /\ car_flash.rolling_code \in Code
      /\ \A m \in air : m.iv \in Code /\ m.rolling_code \in Code
      /\ Code \subseteq Nat /\ ROLLING_CODE_DEFAULT_VALUE \in Code
  BY CodeAssumption, SMTT(40) DEF TypeOK, MessageParameters, Message, Code
<1>0. /\ remote.iv \in Nat /\ remote_flash.rolling_code \in Nat
      /\ \A m \in air : m.iv \in Nat
  BY <1>1
<1>c. RemoteCounts
  BY CountsLater
<1>2. CASE NextIV
  <2>1. RemoteCounts /\ ~remote_write_failed'
    BY <1>c DEF RemoteCounts
  <2>2. remote'.iv = remote.iv + 1 /\ remote'.rolling_code = remote.rolling_code + 1
    BY <1>1, <1>2, NextCodeOf DEF NextIV, RemoteCounts
  <2>3. remote_flash'.iv = remote'.iv /\ remote_flash'.rolling_code = remote_flash.rolling_code
    BY <1>2, <2>1 DEF NextIV, TypeOK, MessageParameters
  <2>4. remote_pc = "next_iv" /\ remote_pc' = "next_code"
    BY <1>2 DEF NextIV
  <2>5. remote'.rolling_code = remote_flash'.rolling_code + 1
    BY <2>1, <2>2, <2>3, <2>4 DEF RemoteInv
  <2>6. \A m \in air' : m.rolling_code <= remote_flash'.rolling_code /\ m.iv < remote'.iv
    BY <1>1, <1>2, <2>1, <2>2, <2>3 DEF RemoteInv, NextIV
  <2>7. \A m \in air' : m.iv <= remote'.iv
    BY <1>1, <1>2, <2>2, <2>6 DEF NextIV
  <2>8. /\ car'.rolling_code <= remote_flash'.rolling_code
        /\ car_flash'.rolling_code <= remote_flash'.rolling_code
        /\ ROLLING_CODE_DEFAULT_VALUE <= remote_flash'.rolling_code
    BY <1>2, <2>1, <2>3 DEF RemoteInv, NextIV, carVars
  <2>9. IVsFresh'
    BY <1>2, <2>1 DEF RemoteInv, IVsFresh, NextIV
  <2>. QED BY <2>3, <2>4, <2>5, <2>6, <2>7, <2>8, <2>9 DEF RemoteInv
<1>3. CASE NextCode
  <2>1. RemoteCounts /\ ~remote_write_failed'
    BY <1>c DEF RemoteCounts
  <2>2. remote_flash'.rolling_code = remote.rolling_code /\ remote_flash'.iv = remote_flash.iv
    BY <1>3, <2>1 DEF NextCode, TypeOK, MessageParameters
  <2>3. remote.rolling_code = remote_flash.rolling_code + 1
    BY <1>3, <2>1 DEF RemoteInv, NextCode
  <2>4. \A m \in air' : /\ m.rolling_code <= remote_flash'.rolling_code
                        /\ m.iv < remote'.iv /\ m.iv <= remote'.iv
    BY <1>1, <1>3, <2>1, <2>2, <2>3 DEF RemoteInv, NextCode
  <2>5. /\ car'.rolling_code <= remote_flash'.rolling_code
        /\ car_flash'.rolling_code <= remote_flash'.rolling_code
        /\ ROLLING_CODE_DEFAULT_VALUE <= remote_flash'.rolling_code
    BY <1>1, <1>3, <2>1, <2>2, <2>3 DEF RemoteInv, NextCode, carVars
  <2>6. IVsFresh'
    BY <1>3, <2>1 DEF RemoteInv, IVsFresh, NextCode
  <2>. QED BY <1>3, <2>1, <2>2, <2>4, <2>5, <2>6 DEF RemoteInv, NextCode
<1>4. CASE SendMessage
  <2>. DEFINE sent == [iv |-> remote.iv, rolling_code |-> remote.rolling_code,
                       command |-> command_to_send]
  <2>1. /\ RemoteCounts
        /\ remote_pc = "send" /\ remote_pc' = "reset"
        /\ UNCHANGED <<remote, remote_flash, car, car_flash>>
        /\ air' = air \cup {sent} \/ air' = air
    BY <1>c, <1>4 DEF SendMessage, carVars
  <2>2. \A m \in air : m.iv < remote.iv
    BY <2>1 DEF RemoteInv
  <2>3. sent.iv = remote.iv /\ sent.rolling_code = remote_flash.rolling_code
    BY <2>1 DEF RemoteInv
  <2>. HIDE DEF sent
  <2>4. \A m \in air' : m.rolling_code <= remote_flash'.rolling_code /\ m.iv <= remote'.iv
    <3>1. \A m \in air : m.rolling_code <= remote_flash.rolling_code /\ m.iv <= remote.iv
      BY <2>1 DEF RemoteInv
    <3>2. sent.rolling_code <= remote_flash.rolling_code /\ sent.iv <= remote.iv
      BY <1>0, <2>3
    <3>3. \A m \in air' : m \in air \/ m = sent
      BY <2>1, Zenon
    <3>. QED BY <2>1, <3>1, <3>2, <3>3, Zenon
  <2>5. \A m, n \in air : m.iv = n.iv => m = n
    BY <2>1 DEF RemoteInv, IVsFresh
  <2>6. \A m, n \in air' : m.iv = n.iv => m = n
    <3>1. \A m \in air : m.iv # sent.iv
      BY <1>0, <2>2, <2>3
    <3>2. \A m \in air' : m \in air \/ m = sent
      BY <2>1, Zenon
    <3>. QED BY <2>5, <3>1, <3>2, Zenon
  <2>. QED BY <2>1, <2>4, <2>6 DEF RemoteInv, IVsFresh
<1>5. CASE RemotePowerLoss
  <2>0. UNCHANGED <<air, remote_flash, car, car_flash>>
    BY <1>5 DEF RemotePowerLoss, carVars
  <2>1. RemoteCounts /\ remote' = remote_flash
    <3>1. remote_read_failed' = (remote_read_failed \/ remote' # remote_flash)
      BY <1>5 DEF RemotePowerLoss
    <3>2. ~remote_read_failed'
      BY DEF RemoteCounts
    <3>. QED BY <1>c, <3>1, <3>2, Zenon
  <2>2. IVsFresh'
    BY <2>0, <2>1 DEF RemoteInv, IVsFresh
  <2>. QED BY <1>5, <2>0, <2>1, <2>2 DEF RemoteInv, RemotePowerLoss
<1>6. CASE TestCommand \/ TakeSemaphore \/ ResetCommand
  <2>1. /\ RemoteCounts
        /\ UNCHANGED <<air, remote, remote_flash, car, car_flash>>
        /\ remote_pc # "next_code" /\ remote_pc' \notin {"next_code", "send"}
    BY <1>c, <1>6 DEF TestCommand, TakeSemaphore, ResetCommand, carVars
  <2>2. IVsFresh'
    BY <2>1 DEF RemoteInv, IVsFresh
  <2>. QED BY <2>1, <2>2 DEF RemoteInv
<1>7. ASSUME UNCHANGED <<remoteVars, air>>,
             \/ car'.rolling_code <= remote_flash.rolling_code
             \/ car'.rolling_code \in {car.rolling_code, car_flash.rolling_code,
                                      ROLLING_CODE_DEFAULT_VALUE},
             car_flash'.rolling_code \in {car_flash.rolling_code, car.rolling_code}
      PROVE RemoteInv'
  BY <1>c, <1>7 DEF RemoteInv, IVsFresh, RemoteCounts, remoteVars
<1>8. ASSUME NEW m \in air, handle_lora_message(m) PROVE RemoteInv'
  <2>1. RemoteCounts /\ UNCHANGED <<remoteVars, air, car_flash>>
    BY <1>c, <1>8 DEF handle_lora_message, remoteVars
  <2>2. car'.rolling_code = m.rolling_code
    BY <1>8 DEF handle_lora_message
  <2>3. car'.rolling_code <= remote_flash.rolling_code
    BY <2>1, <2>2 DEF RemoteInv
  <2>. QED BY <1>7, <2>1, <2>3
<1>9. CASE WriteIV
  BY <1>7, <1>9 DEF WriteIV, TypeOK, MessageParameters
<1>10. CASE WriteCode
  BY <1>7, <1>10 DEF WriteCode, TypeOK, MessageParameters
<1>11. CASE CarPowerLoss
  BY <1>7, <1>11 DEF CarPowerLoss, get_initial_message_parameters, defaults
<1>12. CASE handle_command
  BY <1>7, <1>12 DEF handle_command
<1>13. ASSUME NEW c \in Command \cup {command_to_send}, button_pressed(c) PROVE RemoteInv'
  BY <1>7, <1>13 DEF button_pressed, carVars
<1>14. CASE UNCHANGED vars
  BY <1>7, <1>14 DEF vars, carVars
<1>. QED BY <1>2, <1>3, <1>4, <1>5, <1>6, <1>8, <1>9, <1>10, <1>11, <1>12, <1>13, <1>14
         DEF Next, RemoteLoop

LEMMA RemoteInvariant == Spec => []RemoteInv
<1>1. Init => RemoteInv
  BY CodeAssumption DEF Init, RemoteInv, RemoteCounts, IVsFresh, defaults, Code
<1>. QED BY <1>1, RemoteStep, TypeCorrect, PTL DEF Spec

(* The car is not ahead of the remote: it takes no next message for an old one. *)
THEOREM CarBehindRemote == Spec => []CarNeverAhead
<1>1. RemoteInv => CarNeverAhead
  BY DEF RemoteInv, CarNeverAhead
<1>. QED BY <1>1, RemoteInvariant, PTL

(* No IV is used twice. *)
THEOREM FreshIVs == Spec => []IVsFresh
<1>1. RemoteInv => IVsFresh
  BY DEF RemoteInv, IVsFresh
<1>. QED BY <1>1, RemoteInvariant, PTL
-----------------------------------------------------------------------------
(* The events that a module stores.                                         *)

(* A set of numbers has a least one: induction, where it is needed.         *)
LEMMA Least ==
    ASSUME NEW T, T \subseteq Nat, T # {}
    PROVE  \E x \in T : \A y \in T : x <= y
<1>. DEFINE R == {ss \in Nat \X Nat : ss[1] < ss[2]}
<1>1. IsWellFoundedOn(R, Nat)
  BY NatLessThanWellFounded DEF OpToRel
<1>. HIDE DEF R
<1>2. PICK x \in T : \A y \in T : ~(<<y, x>> \in R)
  BY <1>1, WFMin
<1>3. \A y \in T : ~(y < x)
  BY <1>2 DEF R
<1>. QED BY <1>3

(* A byte is the first of no event or of one of 5 to 14 bytes.              *)
LEMMA Sizes ==
    ASSUME NEW b \in Byte
    PROVE  /\ event_type_from_byte(b) # "NOT_SET" => serialized_size(b) \in 5 .. 14
           /\ event_type_from_byte(b) = "NOT_SET" => serialized_size(b) = 0
<1>1. b \div 64 \in 0 .. 3 /\ b % 8 \in 0 .. 7
  BY DEF Byte
<1>2. type_used_size(b) \in 0 .. 8
  <2>. DEFINE i == b % 8
  <2>1. i = 0 \/ i = 1 \/ i = 2 \/ i = 3 \/ i = 4 \/ i = 5 \/ i = 6 \/ i = 7
    BY <1>1
  <2>. HIDE DEF i
  <2>2. <<1, 2, 4, 8, 4, 8, 1, 0>>[i + 1] \in 0 .. 8
    BY <2>1
  <2>. QED BY <2>2 DEF type_used_size, i
<1>3. event_type_from_byte(b) \in {"Main", "Command", "If", "NOT_SET"}
  <2>. DEFINE i == b \div 64
  <2>1. i = 0 \/ i = 1 \/ i = 2 \/ i = 3
    BY <1>1
  <2>. HIDE DEF i
  <2>2. <<"Main", "Command", "If", "NOT_SET">>[i + 1] \in {"Main", "Command", "If", "NOT_SET"}
    BY <2>1
  <2>. QED BY <2>2 DEF event_type_from_byte, i
<1>. QED BY <1>2, <1>3 DEF serialized_size

(* Where a search from a position over zeros ends.                          *)
LEMMA SeekFinds ==
    ASSUME NEW f \in Seq(Byte), NEW position \in Nat \ {0}
    PROVE  LET c == SeekNonZero(f, position)
           IN  \/ c = Len(f) + 1
               \/ c \in position .. Len(f) /\ f[c] # 0
<1>. DEFINE Found == {p \in position .. Len(f) : f[p] # 0}
<1>1. CASE Found = {}
  BY <1>1 DEF SeekNonZero
<1>2. CASE Found # {}
  <2>1. \E c \in Found : \A q \in Found : c <= q
    <3>1. Found \subseteq Nat
      OBVIOUS
    <3>. HIDE DEF Found
    <3>. QED BY <1>2, <3>1, Least
  <2>2. SeekNonZero(f, position) \in Found
    BY <1>2, <2>1 DEF SeekNonZero
  <2>. QED BY <2>2
<1>. QED BY <1>1, <1>2

LEMMA SeekIs ==
    ASSUME NEW f \in Seq(Byte), NEW position \in Nat, NEW c \in position .. Len(f), f[c] # 0,
           \A q \in position .. Len(f) : f[q] # 0 => c <= q
    PROVE  SeekNonZero(f, position) = c
<1>. DEFINE Found == {p \in position .. Len(f) : f[p] # 0}
<1>1. c \in Found /\ \A q \in Found : c <= q
  OBVIOUS
<1>2. Len(f) \in Nat
  OBVIOUS
<1>3. \A d \in Found : (\A q \in Found : d <= q) => d = c
  BY <1>1
<1>4. SeekNonZero(f, position) = CHOOSE d \in Found : \A q \in Found : d <= q
  BY <1>1 DEF SeekNonZero
<1>. HIDE DEF Found
<1>. QED BY <1>1, <1>3, <1>4

LEMMA SeekNothing ==
    ASSUME NEW f, NEW position, \A q \in position .. Len(f) : f[q] = 0
    PROVE  SeekNonZero(f, position) = Len(f) + 1
BY DEF SeekNonZero

-----------------------------------------------------------------------------
(* One turn of CursorsFrom, if rest is what it finds further on.            *)
Cursors(f, rest, position) ==
    LET c == SeekNonZero(f, position)
    IN IF position > Len(f) \/ c > Len(f) THEN <<>>
       ELSE IF event_type_from_byte(f[c]) = "NOT_SET" THEN <<c>>
       ELSE <<c>> \o rest[c + serialized_size(f[c])]

(* It looks only further on, and not beyond its last position.              *)
LEMMA CursorsLookAhead ==
    ASSUME NEW f \in Seq(Byte), NEW p \in 1 .. Len(f) + 14, NEW g, NEW h,
           \A q \in p + 1 .. Len(f) + 14 : g[q] = h[q]
    PROVE  Cursors(f, g, p) = Cursors(f, h, p)
<1>. DEFINE c == SeekNonZero(f, p)
<1>1. CASE p <= Len(f) /\ c <= Len(f) /\ event_type_from_byte(f[c]) # "NOT_SET"
  <2>1. c \in p .. Len(f)
    BY <1>1, SeekFinds
  <2>2. f[c] \in Byte
    BY <2>1
  <2>. DEFINE size == serialized_size(f[c])
  <2>3. size \in 5 .. 14
    BY <1>1, <2>2, Sizes
  <2>. HIDE DEF c, size
  <2>4. g[c + size] = h[c + size]
    <3>1. c + size \in p + 1 .. Len(f) + 14
      BY <2>1, <2>3
    <3>. QED BY <3>1
  <2>. QED BY <1>1, <2>4 DEF Cursors, c, size
<1>2. CASE ~(p <= Len(f) /\ c <= Len(f) /\ event_type_from_byte(f[c]) # "NOT_SET")
  <2>1. p > Len(f) \/ c > Len(f) \/ event_type_from_byte(f[c]) = "NOT_SET"
    <3>1. Len(f) \in Nat /\ p \in Nat /\ c \in Nat
      BY SeekFinds
    <3>. QED BY <1>2, <3>1
  <2>. QED BY <2>1 DEF Cursors
<1>. QED BY <1>1, <1>2

(* The recursion ends: there is a function that CursorsFrom(f) can be.      *)
LEMMA CursorsFromIs ==
    ASSUME NEW f \in Seq(Byte)
    PROVE  CursorsFrom(f) = [p \in 1 .. Len(f) + 14 |-> Cursors(f, CursorsFrom(f), p)]
<1>. DEFINE N == Len(f) + 14
            Fits(n) == \E g : g = [p \in N + 1 - n .. N |-> Cursors(f, g, p)]
            Misfits == {n \in 0 .. N : ~Fits(n)}
<1>1. N \in Nat
  OBVIOUS
<1>2. Fits(0)
  <2>1. N + 1 - 0 .. N = {}
    BY <1>1
  <2>2. \A g : [p \in {} |-> Cursors(f, g, p)] = [p \in {} |-> 0]
    OBVIOUS
  <2>. QED BY <2>1, <2>2
<1>3. ASSUME NEW n \in 0 .. N - 1, Fits(n) PROVE Fits(n + 1)
  <2>1. PICK g : g = [p \in N + 1 - n .. N |-> Cursors(f, g, p)]
    BY <1>3
  <2>. DEFINE h == [p \in N - n .. N |-> IF p = N - n THEN Cursors(f, g, p) ELSE g[p]]
  <2>2. \A q \in N + 1 - n .. N : g[q] = h[q]
    BY <1>1
  <2>3. ASSUME NEW p \in N - n .. N PROVE h[p] = Cursors(f, h, p)
    <3>1. p \in 1 .. N /\ \A q \in p + 1 .. N : q \in N + 1 - n .. N
      BY <1>1
    <3>2. h[p] = Cursors(f, g, p)
      <4>1. CASE p = N - n
        BY <4>1
      <4>2. CASE p # N - n
        <5>1. p \in N + 1 - n .. N
          BY <1>1, <4>2
        <5>. QED BY <2>1, <4>2, <5>1
      <4>. QED BY <4>1, <4>2
    <3>3. \A q \in p + 1 .. N : g[q] = h[q]
      BY <2>2, <3>1
    <3>. HIDE DEF h
    <3>4. Cursors(f, g, p) = Cursors(f, h, p)
      BY <3>1, <3>3, CursorsLookAhead
    <3>. QED BY <3>2, <3>4
  <2>4. h = [p \in N - n .. N |-> h[p]]
    OBVIOUS
  <2>. HIDE DEF h
  <2>5. h = [p \in N - n .. N |-> Cursors(f, h, p)]
    BY <2>3, <2>4
  <2>6. N + 1 - (n + 1) = N - n
    BY <1>1
  <2>. QED BY <2>5, <2>6
<1>4. Misfits = {}
  <2>. SUFFICES ASSUME Misfits # {} PROVE FALSE
    OBVIOUS
  <2>1. Misfits \subseteq Nat
    BY <1>1
  <2>2. PICK n \in Misfits : \A m \in Misfits : n <= m
    <3>. HIDE DEF Misfits
    <3>. QED BY <2>1, Least
  <2>. HIDE DEF Fits
  <2>3. n # 0
    BY <1>2, <2>2
  <2>4. n - 1 \in 0 .. N - 1 /\ n - 1 \notin Misfits
    BY <1>1, <2>2, <2>3
  <2>5. Fits(n - 1)
    BY <1>1, <2>4
  <2>6. Fits((n - 1) + 1)
    BY <1>3, <2>4, <2>5
  <2>7. (n - 1) + 1 = n
    BY <1>1, <2>2
  <2>. QED BY <2>2, <2>6, <2>7
<1>5. Fits(N)
  <2>. HIDE DEF Fits
  <2>. QED BY <1>1, <1>4
<1>6. \E g : g = [p \in 1 .. N |-> Cursors(f, g, p)]
  <2>1. N + 1 - N = 1
    BY <1>1
  <2>. QED BY <1>5, <2>1
<1>7. CursorsFrom(f) = CHOOSE g : g = [p \in 1 .. N |-> Cursors(f, g, p)]
  BY DEF CursorsFrom, Cursors
<1>. HIDE DEF N, Fits, Misfits
<1>8. CursorsFrom(f) = [p \in 1 .. N |-> Cursors(f, CursorsFrom(f), p)]
  BY <1>6, <1>7
<1>. QED BY <1>8 DEF N
-----------------------------------------------------------------------------
(* A search from anywhere, through whatever is in the file, finds bytes of  *)
(* the file, and stops at the first that begins no event.                   *)
StopsAtNoEvent(f, cursors) ==
    /\ cursors \in Seq(1 .. Len(f))
    /\ \A k \in 1 .. Len(cursors) :
          event_type_from_byte(f[cursors[k]]) = "NOT_SET" => k = Len(cursors)

LEMMA OneMore ==
    ASSUME NEW S, NEW c \in S, NEW s \in Seq(S)
    PROVE  /\ <<c>> \o s \in Seq(S) /\ Len(<<c>> \o s) = Len(s) + 1
           /\ (<<c>> \o s)[1] = c
           /\ \A k \in 2 .. Len(s) + 1 : (<<c>> \o s)[k] = s[k - 1]
<1>1. <<c>> \in Seq(S) /\ Len(<<c>>) = 1 /\ <<c>>[1] = c
  OBVIOUS
<1>. DEFINE t == <<c>>
<1>. HIDE DEF t
<1>2. /\ t \o s \in Seq(S) /\ Len(t \o s) = Len(t) + Len(s)
      /\ \A k \in 1 .. Len(t) + Len(s) :
             (t \o s)[k] = IF k <= Len(t) THEN t[k] ELSE s[k - Len(t)]
  BY <1>1, ConcatProperties DEF t
<1>3. Len(s) \in Nat /\ Len(t) = 1 /\ t[1] = c
  BY <1>1, LenProperties DEF t
<1>. QED BY <1>2, <1>3 DEF t

LEMMA SearchStops ==
    ASSUME NEW f \in Seq(Byte)
    PROVE  \A p \in 1 .. Len(f) + 14 : StopsAtNoEvent(f, CursorsFrom(f)[p])
<1>. DEFINE N == Len(f) + 14
            Bad == {m \in 0 .. N - 1 : ~StopsAtNoEvent(f, CursorsFrom(f)[N - m])}
<1>1. N \in Nat /\ N >= 14
  OBVIOUS
<1>2. Bad = {}
  <2>. SUFFICES ASSUME Bad # {} PROVE FALSE
    OBVIOUS
  <2>1. PICK m \in Bad : \A k \in Bad : m <= k
    <3>1. Bad \subseteq Nat
      BY <1>1
    <3>. HIDE DEF Bad
    <3>. QED BY <3>1, Least
  <2>. DEFINE p == N - m
              c == SeekNonZero(f, p)
  <2>2. p \in 1 .. N /\ \A q \in p + 1 .. N : StopsAtNoEvent(f, CursorsFrom(f)[q])
    <3>1. p \in 1 .. N
      BY <1>1, <2>1
    <3>2. ASSUME NEW q \in p + 1 .. N PROVE StopsAtNoEvent(f, CursorsFrom(f)[q])
      <4>1. N - q \in 0 .. N - 1 /\ N - (N - q) = q /\ ~(m <= N - q)
        BY <1>1, <2>1, <3>1
      <4>2. N - q \notin Bad
        BY <2>1, <4>1
      <4>. QED BY <4>1, <4>2
    <3>. QED BY <3>1, <3>2
  <2>3. CursorsFrom(f)[p] = Cursors(f, CursorsFrom(f), p)
    BY <2>2, CursorsFromIs
  <2>4. ~StopsAtNoEvent(f, CursorsFrom(f)[p])
    BY <2>1
  <2>. HIDE DEF p, N, Bad
  <2>5. CASE p > Len(f) \/ c > Len(f)
    <3>1. CursorsFrom(f)[p] = <<>>
      BY <2>3, <2>5 DEF Cursors
    <3>. QED BY <2>4, <3>1 DEF StopsAtNoEvent
  <2>6. CASE p <= Len(f) /\ c <= Len(f)
    <3>1. c \in p .. Len(f) /\ p \in 1 .. Len(f)
      BY <2>2, <2>6, SeekFinds DEF N
    <3>2. c \in 1 .. Len(f) /\ f[c] \in Byte
      BY <3>1
    <3>3. ~(p > Len(f)) /\ ~(c > Len(f))
      BY <3>1
    <3>. HIDE DEF c
    <3>4. CASE event_type_from_byte(f[c]) = "NOT_SET"
      <4>1. CursorsFrom(f)[p] = <<c>>
        BY <2>3, <3>3, <3>4 DEF Cursors, c
      <4>2. <<c>> \in Seq(1 .. Len(f)) /\ Len(<<c>>) = 1
        BY <3>2
      <4>. QED BY <2>4, <4>1, <4>2 DEF StopsAtNoEvent
    <3>5. CASE event_type_from_byte(f[c]) # "NOT_SET"
      <4>. DEFINE rest == CursorsFrom(f)[c + serialized_size(f[c])]
      <4>1. CursorsFrom(f)[p] = <<c>> \o rest
        BY <2>3, <3>3, <3>5 DEF Cursors, c
      <4>2. c + serialized_size(f[c]) \in p + 1 .. N
        <5>. DEFINE size == serialized_size(f[c])
        <5>1. size \in 5 .. 14
          BY <3>2, <3>5, Sizes
        <5>. HIDE DEF size
        <5>2. c + size \in p + 1 .. Len(f) + 14
          BY <3>1, <5>1
        <5>. QED BY <5>2 DEF N, size
      <4>3. StopsAtNoEvent(f, rest)
        BY <2>2, <4>2
      <4>. HIDE DEF rest
      <4>4. rest \in Seq(1 .. Len(f)) /\ Len(rest) \in Nat
        BY <4>3 DEF StopsAtNoEvent
      <4>. DEFINE s == <<c>> \o rest
      <4>5. /\ s \in Seq(1 .. Len(f)) /\ Len(s) = Len(rest) + 1 /\ s[1] = c
            /\ \A k \in 2 .. Len(rest) + 1 : s[k] = rest[k - 1]
        BY <3>2, <4>4, OneMore
      <4>. HIDE DEF s
      <4>6. ASSUME NEW k \in 1 .. Len(s), event_type_from_byte(f[s[k]]) = "NOT_SET"
            PROVE  k = Len(s)
        <5>1. k # 1
          BY <3>5, <4>5, <4>6
        <5>2. k - 1 \in 1 .. Len(rest) /\ s[k] = rest[k - 1]
          BY <4>4, <4>5, <5>1
        <5>3. k - 1 = Len(rest)
          BY <4>3, <4>6, <5>2 DEF StopsAtNoEvent
        <5>. QED BY <4>4, <4>5, <5>3
      <4>. QED BY <2>4, <4>1, <4>5, <4>6 DEF StopsAtNoEvent, s
    <3>. QED BY <3>4, <3>5
  <2>7. p \in Int /\ Len(f) \in Int /\ c \in Int
    BY <2>2, SeekFinds DEF N
  <2>. QED BY <2>5, <2>6, <2>7
<1>3. ASSUME NEW p \in 1 .. N PROVE StopsAtNoEvent(f, CursorsFrom(f)[p])
  <2>1. N - p \in 0 .. N - 1 /\ N - (N - p) = p
    BY <1>1
  <2>2. N - p \notin Bad
    BY <1>2
  <2>. QED BY <2>1, <2>2
<1>. QED BY <1>3

(* The smaller of two numbers.                                              *)
LEMMA MinOfTwo ==
    ASSUME NEW a \in Int, NEW b \in Int
    PROVE  Min({a, b}) = IF a <= b THEN a ELSE b
<1>. DEFINE m == IF a <= b THEN a ELSE b
<1>1. m \in {a, b} /\ \A y \in {a, b} : m <= y
  OBVIOUS
<1>2. \A x \in {a, b} : (\A y \in {a, b} : x <= y) => x = m
  OBVIOUS
<1>. HIDE DEF m
<1>3. Min({a, b}) = m
  BY <1>1, <1>2 DEF Min
<1>. QED BY <1>3 DEF m

(* So what load_events makes of a file is a list of byte strings.           *)
LEMMA EventsAreBytes ==
    ASSUME NEW f \in Seq(Byte)
    PROVE  EventsIn(f) \in Seq(Seq(Byte))
<1>. DEFINE cs == CursorsOf(f)
            n == Len(cs)
            K == {i \in DOMAIN cs : event_type_from_byte(f[cs[i]]) # "NOT_SET"}
<1>1. StopsAtNoEvent(f, cs)
  BY SearchStops DEF CursorsOf
<1>. DEFINE NoEvent(i) == event_type_from_byte(f[cs[i]]) = "NOT_SET"
<1>. HIDE DEF cs
<1>2. /\ cs \in Seq(1 .. Len(f)) /\ n \in Nat /\ DOMAIN cs = 1 .. n
      /\ \A k \in 1 .. n : NoEvent(k) => k = n
      /\ \A k \in 1 .. n : cs[k] \in 1 .. Len(f)
  BY <1>1 DEF StopsAtNoEvent
<1>3. K = {i \in 1 .. n : ~NoEvent(i)}
  BY <1>2
<1>. HIDE DEF NoEvent, K, n
<1>4. PICK m \in Nat : K = 1 .. m /\ m <= n
  <2>1. CASE n > 0 /\ NoEvent(n)
    <3>1. K = 1 .. n - 1
      BY <1>2, <1>3, <2>1
    <3>. QED BY <1>2, <2>1, <3>1
  <2>2. CASE ~(n > 0 /\ NoEvent(n))
    <3>1. K = 1 .. n
      BY <1>2, <1>3, <2>2, SMTT(40)
    <3>. QED BY <1>2, <3>1, SMTT(40)
  <2>. QED BY <2>1, <2>2
<1>5. ASSUME NEW k \in 1 .. m PROVE EventAt(f, cs[k]) \in Seq(Byte)
  <2>. DEFINE c == cs[k]
              d == c + serialized_size(f[c]) - 1
  <2>1. c \in 1 .. Len(f) /\ f[c] \in Byte
    BY <1>2, <1>4
  <2>. HIDE DEF c
  <2>2. serialized_size(f[c]) \in 0 .. 14
    BY <2>1, Sizes
  <2>3. d \in Int /\ Len(f) \in Nat
    BY <2>1, <2>2
  <2>. HIDE DEF d
  <2>4. Min({d, Len(f)}) = (IF d <= Len(f) THEN d ELSE Len(f))
    BY <2>3, MinOfTwo
  <2>. DEFINE e == Min({d, Len(f)})
  <2>5. e \in Int /\ e <= Len(f)
    BY <2>3, <2>4
  <2>6. EventAt(f, c) = SubSeq(f, c, e)
    BY DEF EventAt, d
  <2>. HIDE DEF e
  <2>7. SubSeq(f, c, e) \in Seq(Byte)
    BY <2>1, <2>5
  <2>. QED BY <2>6, <2>7 DEF c
<1>6. EventsIn(f) = [k \in 1 .. m |-> EventAt(f, cs[k])]
  BY <1>4 DEF EventsIn, cs, K
<1>. QED BY <1>5, <1>6
-----------------------------------------------------------------------------
SizeAt(f, c) == serialized_size(f[c])

(* starts: where the events of a file begin.  They lie behind one another,  *)
(* each whole, and all bytes between them are 0.                            *)
Starts(f, starts) ==
    /\ starts \in Seq(1 .. Len(f))
    /\ \A k \in 1 .. Len(starts) :
          /\ f[starts[k]] # 0
          /\ event_type_from_byte(f[starts[k]]) # "NOT_SET"
          /\ starts[k] + SizeAt(f, starts[k]) <= Len(f) + 1
    /\ \A j, k \in 1 .. Len(starts) : j < k => starts[j] + SizeAt(f, starts[j]) <= starts[k]
    /\ \A p \in 1 .. Len(f) :
          f[p] # 0 => \E k \in 1 .. Len(starts) :
                          starts[k] <= p /\ p < starts[k] + SizeAt(f, starts[k])

LEMMA StartsTypes ==
    ASSUME NEW f \in Seq(Byte), NEW starts, Starts(f, starts)
    PROVE  /\ Len(starts) \in Nat /\ DOMAIN starts = 1 .. Len(starts)
           /\ starts \in Seq(Nat)
           /\ \A k \in 1 .. Len(starts) :
                 /\ starts[k] \in 1 .. Len(f) /\ f[starts[k]] \in Byte
                 /\ SizeAt(f, starts[k]) \in 5 .. 14
                 /\ starts[k] \in Nat /\ starts[k] + SizeAt(f, starts[k]) \in Nat
<1>1. starts \in Seq(1 .. Len(f))
  BY DEF Starts
<1>2. ASSUME NEW k \in 1 .. Len(starts)
      PROVE  /\ starts[k] \in 1 .. Len(f) /\ f[starts[k]] \in Byte
             /\ SizeAt(f, starts[k]) \in 5 .. 14
             /\ starts[k] \in Nat /\ starts[k] + SizeAt(f, starts[k]) \in Nat
  <2>1. starts[k] \in 1 .. Len(f)
    BY <1>1
  <2>2. f[starts[k]] \in Byte
    BY <2>1
  <2>3. SizeAt(f, starts[k]) \in 5 .. 14
    BY <2>2, Sizes DEF SizeAt, Starts
  <2>. DEFINE d == starts[k]
              e == SizeAt(f, starts[k])
  <2>4. d \in 1 .. Len(f) /\ e \in 5 .. 14
    BY <2>1, <2>3
  <2>. HIDE DEF d, e
  <2>5. d \in Nat /\ d + e \in Nat
    BY <2>4
  <2>. QED BY <2>1, <2>2, <2>3, <2>5 DEF d, e
<1>3. starts \in Seq(Nat)
  BY <1>1
<1>. QED BY <1>1, <1>2, <1>3

(* Where an event ends, and the next may begin. *)
End(f, starts, k) == starts[k] + SizeAt(f, starts[k])

LEMMA Ends ==
    ASSUME NEW f \in Seq(Byte), NEW starts, Starts(f, starts)
    PROVE  /\ \A i \in 1 .. Len(starts) :
                 /\ starts[i] \in Nat /\ End(f, starts, i) \in Nat
                 /\ starts[i] + 5 <= End(f, starts, i) /\ End(f, starts, i) <= Len(f) + 1
           /\ \A i, j \in 1 .. Len(starts) : i < j => End(f, starts, i) <= starts[j]
           /\ \A i, j \in 1 .. Len(starts) : i <= j => End(f, starts, i) <= End(f, starts, j)
           /\ \A p \in 1 .. Len(f) :
                 f[p] # 0 => \E i \in 1 .. Len(starts) : starts[i] <= p /\ p < End(f, starts, i)
<1>1. ASSUME NEW i \in 1 .. Len(starts)
      PROVE  /\ starts[i] \in Nat /\ End(f, starts, i) \in Nat
             /\ starts[i] + 5 <= End(f, starts, i) /\ End(f, starts, i) <= Len(f) + 1
  <2>. DEFINE d == starts[i]
              e == SizeAt(f, starts[i])
  <2>1. d \in 1 .. Len(f) /\ e \in 5 .. 14 /\ d + e <= Len(f) + 1
    BY StartsTypes DEF Starts
  <2>. HIDE DEF d, e
  <2>2. d \in Nat /\ d + e \in Nat /\ d + 5 <= d + e /\ d + e <= Len(f) + 1
    BY <2>1
  <2>. QED BY <2>2 DEF d, e, End
<1>2. ASSUME NEW i \in 1 .. Len(starts), NEW j \in 1 .. Len(starts), i < j
      PROVE  End(f, starts, i) <= starts[j]
  BY <1>2 DEF Starts, End
<1>3. ASSUME NEW i \in 1 .. Len(starts), NEW j \in 1 .. Len(starts), i <= j
      PROVE  End(f, starts, i) <= End(f, starts, j)
  <2>1. CASE i = j
    BY <1>1, <2>1
  <2>2. CASE i # j
    <3>1. End(f, starts, i) <= starts[j]
      BY <1>2, <1>3, <2>2
    <3>. QED BY <1>1, <3>1
  <2>. QED BY <2>1, <2>2
<1>4. ASSUME NEW p \in 1 .. Len(f), f[p] # 0
      PROVE  \E i \in 1 .. Len(starts) : starts[i] <= p /\ p < End(f, starts, i)
  BY <1>4 DEF Starts, End
<1>. QED BY <1>1, <1>2, <1>3, <1>4

(* A search that begins behind event k - 1 and not behind event k finds     *)
(* event k and those after it.                                              *)
SearchFor(f, starts, k) ==
    \A p \in 1 .. Len(f) + 14 :
        /\ k > 1 => End(f, starts, k - 1) <= p
        /\ k <= Len(starts) => p <= starts[k]
        => CursorsFrom(f)[p] = SubSeq(starts, k, Len(starts))

LEMMA SearchForNone ==
    ASSUME NEW f \in Seq(Byte), NEW starts, Starts(f, starts)
    PROVE  SearchFor(f, starts, Len(starts) + 1)
<1>. DEFINE n == Len(starts)
<1>1. n \in Nat /\ starts \in Seq(Nat)
  BY StartsTypes
<1>2. SubSeq(starts, n + 1, n) = <<>>
  BY <1>1, SubSeqEmpty
<1>. SUFFICES ASSUME NEW p \in 1 .. Len(f) + 14, n + 1 > 1 => End(f, starts, (n + 1) - 1) <= p
              PROVE  CursorsFrom(f)[p] = <<>>
  BY <1>2 DEF SearchFor
<1>3. (n + 1) - 1 = n
  BY <1>1
<1>4. ASSUME NEW q \in p .. Len(f) PROVE f[q] = 0
  <2>. SUFFICES ASSUME f[q] # 0 PROVE FALSE
    OBVIOUS
  <2>1. q \in 1 .. Len(f)
    OBVIOUS
  <2>2. PICK k \in 1 .. n : q < End(f, starts, k)
    BY <2>1, Ends
  <2>3. n \in 1 .. n /\ End(f, starts, n) <= p /\ k <= n
    BY <1>1, <1>3, <2>2
  <2>4. End(f, starts, k) <= End(f, starts, n) /\ End(f, starts, k) \in Nat /\ End(f, starts, n) \in Nat
    BY <2>3, Ends
  <2>. QED BY <2>2, <2>3, <2>4
<1>5. SeekNonZero(f, p) = Len(f) + 1 /\ Len(f) + 1 > Len(f)
  BY <1>4, SeekNothing
<1>6. CursorsFrom(f)[p] = Cursors(f, CursorsFrom(f), p)
  BY CursorsFromIs
<1>. QED BY <1>5, <1>6 DEF Cursors

LEMMA SearchForOneMore ==
    ASSUME NEW f \in Seq(Byte), NEW starts, Starts(f, starts),
           NEW k \in 1 .. Len(starts), SearchFor(f, starts, k + 1)
    PROVE  SearchFor(f, starts, k)
<1>. DEFINE n == Len(starts)
            c == starts[k]
            next == End(f, starts, k)
<1>1. /\ n \in Nat /\ starts \in Seq(Nat) /\ k \in 1 .. n
      /\ f[c] # 0 /\ event_type_from_byte(f[c]) # "NOT_SET"
  BY StartsTypes DEF Starts
<1>2. c \in 1 .. Len(f) /\ next \in 1 .. Len(f) + 14 /\ Len(f) \in Nat /\ c < next
  <2>1. c \in 1 .. Len(f) /\ next \in Nat /\ c + 5 <= next /\ next <= Len(f) + 1
    BY StartsTypes, Ends
  <2>. HIDE DEF c, next
  <2>. QED BY <2>1
<1>3. (k + 1) - 1 = k /\ (k + 1 <= n => next <= starts[k + 1])
  BY <1>1, Ends, SMTT(40)
<1>4. CursorsFrom(f)[next] = SubSeq(starts, k + 1, n)
  BY <1>2, <1>3, SMTT(40) DEF SearchFor
<1>5. SubSeq(starts, k, n) = <<c>> \o SubSeq(starts, k + 1, n)
  <2>1. k \in 1 .. n /\ n \in k .. n
    BY <1>1
  <2>. QED BY <1>1, <2>1, SubSeqRecursiveFirst
<1>6. c + serialized_size(f[c]) = next
  BY DEF SizeAt, End
<1>. SUFFICES ASSUME NEW p \in 1 .. Len(f) + 14, k > 1 => End(f, starts, k - 1) <= p, p <= c
              PROVE  CursorsFrom(f)[p] = SubSeq(starts, k, n)
  BY <1>1 DEF SearchFor
<1>. HIDE DEF next, c
<1>7. ASSUME NEW q \in p .. Len(f), f[q] # 0 PROVE c <= q
  <2>1. PICK i \in 1 .. n : starts[i] <= q /\ q < End(f, starts, i)
    BY <1>7, Ends
  <2>2. CASE i = k
    BY <2>1, <2>2 DEF c
  <2>3. CASE k < i
    <3>1. next <= starts[i] /\ starts[i] \in Nat
      BY <1>1, <2>3, Ends DEF next
    <3>. QED BY <1>2, <2>1, <3>1
  <2>4. CASE i < k
    <3>1. k - 1 \in 1 .. n /\ k > 1 /\ i <= k - 1
      BY <1>1, <2>4
    <3>2. /\ End(f, starts, i) <= End(f, starts, k - 1)
          /\ End(f, starts, i) \in Nat /\ End(f, starts, k - 1) \in Nat
      BY <3>1, Ends
    <3>. QED BY <2>1, <3>1, <3>2
  <2>. QED BY <1>1, <2>2, <2>3, <2>4
<1>8. SeekNonZero(f, p) = c
  <2>1. p \in Nat /\ c \in p .. Len(f) /\ f[c] # 0
    BY <1>1, <1>2
  <2>. QED BY <1>7, <2>1, SeekIs
<1>9. ~(p > Len(f)) /\ ~(c > Len(f))
  BY <1>2
<1>10. CursorsFrom(f)[p] = Cursors(f, CursorsFrom(f), p)
  BY CursorsFromIs
<1>11. Cursors(f, CursorsFrom(f), p) = <<c>> \o CursorsFrom(f)[next]
  BY <1>1, <1>6, <1>8, <1>9 DEF Cursors
<1>. QED BY <1>4, <1>5, <1>10, <1>11

(* A search through the whole file finds all its events.                    *)
LEMMA SearchFindsAll ==
    ASSUME NEW f \in Seq(Byte), NEW starts, Starts(f, starts)
    PROVE  CursorsOf(f) = starts
<1>. DEFINE n == Len(starts)
            Bad == {m \in 0 .. n : ~SearchFor(f, starts, (n + 1) - m)}
<1>1. n \in Nat /\ starts \in Seq(Nat) /\ \A k \in 1 .. n : starts[k] \in 1 .. Len(f)
  BY StartsTypes
<1>2. Bad = {}
  <2>. SUFFICES ASSUME Bad # {} PROVE FALSE
    OBVIOUS
  <2>1. PICK m \in Bad : \A k \in Bad : m <= k
    <3>1. Bad \subseteq Nat
      BY <1>1
    <3>. HIDE DEF Bad
    <3>. QED BY <3>1, Least
  <2>2. m # 0
    <3>1. (n + 1) - 0 = n + 1
      BY <1>1
    <3>. QED BY <2>1, <3>1, SearchForNone
  <2>3. m - 1 \notin Bad /\ m - 1 \in 0 .. n
    <3>1. m \in 0 .. n
      BY <2>1
    <3>2. m - 1 \in 0 .. n /\ ~(m <= m - 1)
      BY <1>1, <2>2, <3>1
    <3>. QED BY <2>1, <3>2
  <2>4. SearchFor(f, starts, (n + 1) - (m - 1))
    BY <2>3
  <2>5. (n + 1) - (m - 1) = ((n + 1) - m) + 1 /\ (n + 1) - m \in 1 .. n
    BY <1>1, <2>1, <2>2
  <2>6. SearchFor(f, starts, (n + 1) - m)
    BY <2>4, <2>5, SearchForOneMore
  <2>. QED BY <2>1, <2>6
<1>3. SearchFor(f, starts, 1)
  <2>1. n \in 0 .. n /\ (n + 1) - n = 1
    BY <1>1
  <2>. QED BY <1>2, <2>1
<1>4. CursorsFrom(f)[1] = SubSeq(starts, 1, n)
  <2>1. 1 \in 1 .. Len(f) + 14 /\ ~(1 > 1)
    OBVIOUS
  <2>2. 1 <= n => 1 <= starts[1]
    BY <1>1
  <2>. QED BY <1>3, <2>1, <2>2 DEF SearchFor
<1>5. SubSeq(starts, 1, n) = starts
  BY <1>1, SubSeqFull
<1>. QED BY <1>4, <1>5 DEF CursorsOf
-----------------------------------------------------------------------------
(* A sequence without its k-th element, and where the i-th of it was.       *)
Without(s, k) == SubSeq(s, 1, k - 1) \o SubSeq(s, k + 1, Len(s))

Was(i, k) == IF i < k THEN i ELSE i + 1

LEMMA WithoutIs ==
    ASSUME NEW S, NEW s \in Seq(S), NEW k \in 1 .. Len(s)
    PROVE  /\ Without(s, k) \in Seq(S) /\ Len(Without(s, k)) = Len(s) - 1
           /\ \A i \in 1 .. Len(s) - 1 : Without(s, k)[i] = s[Was(i, k)]
<1>. DEFINE n == Len(s)
            a == SubSeq(s, 1, k - 1)
            b == SubSeq(s, k + 1, n)
<1>1. n \in Nat /\ k \in 1 .. n
  OBVIOUS
<1>2. /\ a \in Seq(S) /\ Len(a) = k - 1 /\ \A i \in 1 .. k - 1 : a[i] = s[i]
  <2>1. 1 \in 1 .. n + 1 /\ k - 1 \in 0 .. n /\ \A i \in 1 .. k - 1 : 1 + i - 1 = i
    BY <1>1
  <2>2. /\ a \in Seq(S) /\ Len(a) = (IF 1 <= k - 1 THEN k - 1 - 1 + 1 ELSE 0)
        /\ \A i \in 1 .. k - 1 - 1 + 1 : a[i] = s[1 + i - 1]
    BY <2>1, SubSeqProperties
  <2>. HIDE DEF a, n
  <2>3. Len(a) = k - 1 /\ k - 1 - 1 + 1 = k - 1
    BY <1>1, <2>2
  <2>. QED BY <2>1, <2>2, <2>3
<1>3. /\ b \in Seq(S) /\ Len(b) = n - k /\ \A i \in 1 .. n - k : b[i] = s[k + i]
  <2>1. k + 1 \in 1 .. n + 1 /\ n \in 0 .. n /\ \A i \in 1 .. n - k : (k + 1) + i - 1 = k + i
    BY <1>1
  <2>2. /\ b \in Seq(S) /\ Len(b) = (IF k + 1 <= n THEN n - (k + 1) + 1 ELSE 0)
        /\ \A i \in 1 .. n - (k + 1) + 1 : b[i] = s[(k + 1) + i - 1]
    BY <2>1, SubSeqProperties
  <2>. HIDE DEF b, n
  <2>3. Len(b) = n - k /\ n - (k + 1) + 1 = n - k
    BY <1>1, <2>2
  <2>. QED BY <2>1, <2>2, <2>3
<1>. HIDE DEF a, b, n
<1>4. /\ a \o b \in Seq(S) /\ Len(a \o b) = Len(a) + Len(b)
      /\ \A i \in 1 .. Len(a) + Len(b) : (a \o b)[i] = IF i <= Len(a) THEN a[i] ELSE b[i - Len(a)]
  BY <1>2, <1>3, ConcatProperties
<1>5. Len(a) + Len(b) = n - 1
  BY <1>1, <1>2, <1>3
<1>6. ASSUME NEW i \in 1 .. n - 1 PROVE (a \o b)[i] = s[Was(i, k)]
  <2>1. CASE i < k
    <3>1. i <= Len(a) /\ i \in 1 .. k - 1
      BY <1>1, <1>2, <2>1
    <3>. QED BY <1>2, <1>4, <1>5, <2>1, <3>1 DEF Was
  <2>2. CASE ~(i < k)
    <3>1. ~(i <= Len(a)) /\ i - Len(a) \in 1 .. n - k /\ k + (i - Len(a)) = i + 1
      BY <1>1, <1>2, <2>2
    <3>2. (a \o b)[i] = b[i - Len(a)]
      BY <1>4, <1>5, <3>1
    <3>. QED BY <1>3, <2>2, <3>1, <3>2 DEF Was
  <2>. QED BY <2>1, <2>2
<1>. QED BY <1>4, <1>5, <1>6 DEF Without, a, b, n

(* An event that is appended begins where the file ended.                   *)
LEMMA StartsAfterAdd ==
    ASSUME NEW f \in Seq(Byte), NEW starts, Starts(f, starts),
           NEW e \in Seq(Byte), Len(e) > 0, Len(e) = serialized_size(e[1]), e[1] # 0
    PROVE  Starts(f \o e, Append(starts, Len(f) + 1))
<1>. DEFINE F == f \o e
            S == Append(starts, Len(f) + 1)
            n == Len(starts)
            l == Len(f)
            m == Len(e)
<1>1. l \in Nat /\ m \in Nat /\ n \in Nat /\ m > 0
  BY LenProperties, StartsTypes
<1>2. /\ F \in Seq(Byte) /\ Len(F) = l + m /\ \A p \in 1 .. l : F[p] = f[p]
      /\ \A p \in l + 1 .. l + m : F[p] = e[p - l]
  <2>1. /\ F \in Seq(Byte) /\ Len(F) = l + m
        /\ \A p \in 1 .. l + m : F[p] = IF p <= l THEN f[p] ELSE e[p - l]
    BY ConcatProperties
  <2>. HIDE DEF F, l, m
  <2>2. ASSUME NEW p \in 1 .. l PROVE F[p] = f[p]
    BY <1>1, <2>1
  <2>3. ASSUME NEW p \in l + 1 .. l + m PROVE F[p] = e[p - l]
    BY <1>1, <2>1
  <2>. QED BY <2>1, <2>2, <2>3
<1>3. starts \in Seq(1 .. l) /\ \A k \in 1 .. n : starts[k] \in 1 .. l
  BY DEF Starts
<1>. HIDE DEF F, l, m
<1>4. S \in Seq(1 .. Len(F)) /\ Len(S) = n + 1 /\ S[n + 1] = l + 1 /\ \A k \in 1 .. n : S[k] = starts[k]
  <2>1. 1 .. l \subseteq 1 .. l + m /\ l + 1 \in 1 .. l + m
    BY <1>1
  <2>2. starts \in Seq(1 .. l + m)
    <3>1. starts = [k \in 1 .. n |-> starts[k]] /\ \A k \in 1 .. n : starts[k] \in 1 .. l + m
      BY <1>3, <2>1
    <3>. QED BY <1>1, <3>1
  <2>3. S = Append(starts, l + 1)
    BY DEF l
  <2>. QED BY <1>1, <1>2, <2>1, <2>2, <2>3, AppendProperties
<1>. HIDE DEF S, n
<1>5. ASSUME NEW k \in 1 .. n
      PROVE  F[S[k]] = f[starts[k]] /\ SizeAt(F, S[k]) = SizeAt(f, starts[k]) /\ S[k] = starts[k]
  BY <1>2, <1>3, <1>4 DEF SizeAt
<1>6. F[S[n + 1]] = e[1] /\ SizeAt(F, S[n + 1]) = m /\ S[n + 1] = l + 1
  <2>1. l + 1 \in l + 1 .. l + m /\ (l + 1) - l = 1
    BY <1>1
  <2>. QED BY <1>2, <1>4, <2>1 DEF SizeAt, m
<1>7. ASSUME NEW k \in 1 .. n PROVE End(F, S, k) = End(f, starts, k)
  BY <1>5 DEF End
<1>8. End(F, S, n + 1) = l + m + 1
  BY <1>1, <1>6 DEF End
<1>9. /\ \A k \in 1 .. n : End(f, starts, k) \in Nat /\ End(f, starts, k) <= l + 1
      /\ \A i, j \in 1 .. n : i < j => End(f, starts, i) <= starts[j]
      /\ \A p \in 1 .. l : f[p] # 0 => \E i \in 1 .. n : starts[i] <= p /\ p < End(f, starts, i)
  BY Ends DEF n, l
<1>10. e[1] \in Byte /\ event_type_from_byte(e[1]) # "NOT_SET"
  <2>1. e[1] \in Byte
    BY <1>1 DEF m
  <2>. QED BY <1>1, <2>1, Sizes DEF m
<1>11. ASSUME NEW k \in 1 .. n + 1
       PROVE  F[S[k]] # 0 /\ event_type_from_byte(F[S[k]]) # "NOT_SET" /\ End(F, S, k) <= Len(F) + 1
  <2>1. CASE k = n + 1
    BY <1>1, <1>2, <1>6, <1>8, <1>10, <2>1
  <2>2. CASE k # n + 1
    <3>1. k \in 1 .. n
      BY <1>1, <2>2
    <3>2. f[starts[k]] # 0 /\ event_type_from_byte(f[starts[k]]) # "NOT_SET"
      BY <3>1 DEF Starts, n
    <3>. QED BY <1>1, <1>2, <1>5, <1>7, <1>9, <3>1, <3>2
  <2>. QED BY <2>1, <2>2
<1>12. ASSUME NEW i \in 1 .. n + 1, NEW j \in 1 .. n + 1, i < j PROVE End(F, S, i) <= S[j]
  <2>1. i \in 1 .. n
    BY <1>1, <1>12
  <2>2. CASE j = n + 1
    BY <1>6, <1>7, <1>9, <2>1, <2>2
  <2>3. CASE j # n + 1
    <3>1. j \in 1 .. n
      BY <1>1, <2>3
    <3>. QED BY <1>5, <1>7, <1>9, <1>12, <2>1, <3>1
  <2>. QED BY <2>2, <2>3
<1>13. ASSUME NEW p \in 1 .. Len(F), F[p] # 0
       PROVE  \E k \in 1 .. n + 1 : S[k] <= p /\ p < End(F, S, k)
  <2>1. CASE p \in 1 .. l
    <3>1. PICK i \in 1 .. n : starts[i] <= p /\ p < End(f, starts, i)
      BY <1>2, <1>9, <1>13, <2>1
    <3>2. i \in 1 .. n + 1 /\ S[i] = starts[i] /\ End(F, S, i) = End(f, starts, i)
      BY <1>1, <1>5, <1>7, SMTT(40)
    <3>. QED BY <3>1, <3>2
  <2>2. CASE p \notin 1 .. l
    <3>1. l + 1 <= p /\ p < l + m + 1 /\ n + 1 \in 1 .. n + 1
      BY <1>1, <1>2, <2>2
    <3>. QED BY <1>6, <1>8, <3>1
  <2>. QED BY <2>1, <2>2
<1>14. Starts(F, S)
  BY <1>4, <1>11, <1>12, <1>13 DEF Starts, End
<1>. QED BY <1>14 DEF F, S, l

(* What is written over an event is zeros.                                  *)
LEMMA ZerosAre ==
    ASSUME NEW f \in Seq(Byte), NEW c, NEW size
    PROVE  /\ Zeros(f, c, size) \in Seq(Byte) /\ Len(Zeros(f, c, size)) = Len(f)
           /\ \A p \in 1 .. Len(f) :
                 Zeros(f, c, size)[p] = IF p \in c .. c + size - 1 THEN 0 ELSE f[p]
<1>. DEFINE l == Len(f)
            z == Zeros(f, c, size)
<1>1. DOMAIN f = 1 .. l /\ l \in Nat /\ \A p \in 1 .. l : f[p] \in Byte
  OBVIOUS
<1>2. 0 \in Byte
  BY DEF Byte
<1>. HIDE DEF l
<1>3. z = [p \in 1 .. l |-> IF p \in c .. c + size - 1 THEN 0 ELSE f[p]]
  BY <1>1 DEF Zeros
<1>. HIDE DEF z
<1>4. /\ z \in Seq(Byte) /\ Len(z) = l
      /\ \A p \in 1 .. l : z[p] = IF p \in c .. c + size - 1 THEN 0 ELSE f[p]
  BY <1>1, <1>2, <1>3
<1>. QED BY <1>4 DEF l, z

(* Zeros over an event leave the others where they are.                     *)
LEMMA StartsAfterRemove ==
    ASSUME NEW f \in Seq(Byte), NEW starts, Starts(f, starts), NEW k \in 1 .. Len(starts)
    PROVE  LET F == Zeros(f, starts[k], SizeAt(f, starts[k]))
               S == Without(starts, k)
           IN  /\ F \in Seq(Byte) /\ Len(F) = Len(f) /\ Starts(F, S)
               /\ \A i \in 1 .. Len(starts) - 1 :
                     /\ S[i] = starts[Was(i, k)] /\ End(F, S, i) = End(f, starts, Was(i, k))
                     /\ \A p \in S[i] .. End(F, S, i) - 1 : F[p] = f[p]
<1>. DEFINE F == Zeros(f, starts[k], SizeAt(f, starts[k]))
            S == Without(starts, k)
            n == Len(starts)
            l == Len(f)
            c == starts[k]
            d == End(f, starts, k)
<1>1. l \in Nat /\ n \in Nat /\ k \in 1 .. n /\ starts \in Seq(1 .. l)
  BY LenProperties, StartsTypes DEF Starts
<1>2. /\ \A i \in 1 .. n : /\ starts[i] \in 1 .. l /\ starts[i] \in Nat
                           /\ End(f, starts, i) \in Nat /\ starts[i] + 5 <= End(f, starts, i)
                           /\ End(f, starts, i) <= l + 1
      /\ \A i, j \in 1 .. n : i < j => End(f, starts, i) <= starts[j]
      /\ \A p \in 1 .. l : f[p] # 0 => \E i \in 1 .. n : starts[i] <= p /\ p < End(f, starts, i)
  BY Ends, StartsTypes
<1>3. /\ F \in Seq(Byte) /\ Len(F) = l
      /\ \A p \in 1 .. l : F[p] = IF p \in c .. d - 1 THEN 0 ELSE f[p]
  <2>1. d = c + SizeAt(f, c)
    BY DEF End
  <2>. DEFINE size == SizeAt(f, c)
  <2>. HIDE DEF size
  <2>2. F = Zeros(f, c, size)
    BY DEF size
  <2>3. d = c + size
    BY <2>1 DEF size
  <2>. HIDE DEF F, c, d
  <2>4. /\ F \in Seq(Byte) /\ Len(F) = l
        /\ \A p \in 1 .. l : F[p] = IF p \in c .. c + size - 1 THEN 0 ELSE f[p]
    BY <2>2, ZerosAre
  <2>5. c .. c + size - 1 = c .. d - 1
    <3>1. c \in Nat /\ size \in Nat
      <4>1. starts[k] \in Nat /\ SizeAt(f, starts[k]) \in 5 .. 14
        BY <1>1, StartsTypes
      <4>. QED BY <4>1 DEF c, size
    <3>2. c + size - 1 = d - 1
      BY <2>3, <3>1
    <3>. QED BY <3>2
  <2>. QED BY <2>4, <2>5
<1>4. S \in Seq(1 .. l) /\ Len(S) = n - 1 /\ \A i \in 1 .. n - 1 : S[i] = starts[Was(i, k)]
  BY <1>1, WithoutIs
<1>. HIDE DEF F, S, n, l
<1>5. ASSUME NEW i \in 1 .. n - 1 PROVE Was(i, k) \in 1 .. n /\ Was(i, k) # k
  BY <1>1 DEF Was
<1>6. ASSUME NEW i \in 1 .. n, i # k, NEW p \in starts[i] .. End(f, starts, i) - 1
      PROVE  p \in 1 .. l /\ F[p] = f[p]
  <2>1. starts[i] \in 1 .. l /\ End(f, starts, i) \in Nat /\ End(f, starts, i) <= l + 1
    BY <1>2
  <2>2. p \in 1 .. l
    BY <1>1, <2>1
  <2>3. p \notin c .. d - 1
    <3>0. c \in Nat /\ d \in Nat /\ starts[i] \in Nat
      BY <1>1, <1>2
    <3>1. CASE i < k
      <4>1. End(f, starts, i) <= c
        BY <1>1, <1>2, <3>1
      <4>. HIDE DEF c, d
      <4>. QED BY <2>1, <3>0, <4>1
    <3>2. CASE k < i
      <4>1. d <= starts[i]
        BY <1>1, <1>2, <3>2
      <4>. HIDE DEF c, d
      <4>. QED BY <2>1, <3>0, <4>1
    <3>. QED BY <1>1, <1>6, <3>1, <3>2
  <2>. QED BY <1>3, <2>2, <2>3
<1>7. ASSUME NEW i \in 1 .. n - 1
      PROVE  /\ S[i] = starts[Was(i, k)] /\ End(F, S, i) = End(f, starts, Was(i, k))
             /\ F[S[i]] = f[S[i]]
             /\ \A p \in S[i] .. End(F, S, i) - 1 : F[p] = f[p]
  <2>. DEFINE j == Was(i, k)
  <2>1. j \in 1 .. n /\ j # k /\ S[i] = starts[j]
    BY <1>4, <1>5
  <2>. HIDE DEF j
  <2>2. \A p \in starts[j] .. End(f, starts, j) - 1 : F[p] = f[p]
    BY <1>6, <2>1
  <2>3. starts[j] \in starts[j] .. End(f, starts, j) - 1
    <3>1. starts[j] \in Nat /\ End(f, starts, j) \in Nat /\ starts[j] + 5 <= End(f, starts, j)
      BY <1>2, <2>1
    <3>. QED BY <3>1
  <2>4. F[S[i]] = f[starts[j]]
    BY <2>1, <2>2, <2>3
  <2>5. End(F, S, i) = End(f, starts, j)
    BY <2>1, <2>4 DEF End, SizeAt
  <2>. QED BY <2>1, <2>2, <2>4, <2>5 DEF j
<1>8. ASSUME NEW i \in 1 .. n - 1
      PROVE  F[S[i]] # 0 /\ event_type_from_byte(F[S[i]]) # "NOT_SET" /\ End(F, S, i) <= Len(F) + 1
  <2>1. Was(i, k) \in 1 .. n
    BY <1>5
  <2>2. f[starts[Was(i, k)]] # 0 /\ event_type_from_byte(f[starts[Was(i, k)]]) # "NOT_SET"
    BY <2>1 DEF Starts, n
  <2>. QED BY <1>2, <1>3, <1>7, <2>1, <2>2
<1>9. ASSUME NEW i \in 1 .. n - 1, NEW j \in 1 .. n - 1, i < j PROVE End(F, S, i) <= S[j]
  <2>1. Was(i, k) \in 1 .. n /\ Was(j, k) \in 1 .. n /\ Was(i, k) < Was(j, k)
    BY <1>1, <1>9 DEF Was
  <2>. QED BY <1>2, <1>7, <2>1
<1>10. ASSUME NEW p \in 1 .. Len(F), F[p] # 0
       PROVE  \E i \in 1 .. n - 1 : S[i] <= p /\ p < End(F, S, i)
  <2>1. p \in 1 .. l /\ f[p] # 0 /\ p \notin c .. d - 1
    BY <1>3, <1>10
  <2>2. PICK j \in 1 .. n : starts[j] <= p /\ p < End(f, starts, j)
    BY <1>2, <2>1
  <2>3. j # k
    <3>1. c \in Nat /\ d \in Nat
      BY <1>1, <1>2
    <3>2. j = k => c <= p /\ p < d
      BY <2>2
    <3>. HIDE DEF c, d
    <3>. QED BY <2>1, <3>1, <3>2
  <2>. DEFINE i == IF j < k THEN j ELSE j - 1
  <2>4. i \in 1 .. n - 1 /\ Was(i, k) = j
    BY <1>1, <2>3 DEF Was
  <2>. HIDE DEF i
  <2>. QED BY <1>7, <2>2, <2>4
<1>11. Starts(F, S)
  <2>1. S \in Seq(1 .. Len(F)) /\ Len(S) = n - 1
    BY <1>3, <1>4
  <2>. QED BY <1>8, <1>9, <1>10, <2>1 DEF Starts, End
<1>. QED BY <1>3, <1>7, <1>11 DEF F, S, n, l
-----------------------------------------------------------------------------
(* The events read from a file that is in order are the bytes from where    *)
(* each begins to where it ends, and the search for them does end.          *)
LEMMA EventsBetween ==
    ASSUME NEW f \in Seq(Byte), NEW starts, Starts(f, starts)
    PROVE  /\ EventsIn(f) = [k \in 1 .. Len(starts) |-> EventsIn(f)[k]]
           /\ EventsIn(f) \in Seq(Seq(Byte)) /\ Len(EventsIn(f)) = Len(starts)
           /\ \A k \in 1 .. Len(starts) :
                 /\ EventsIn(f)[k] = SubSeq(f, starts[k], End(f, starts, k) - 1)
                 /\ EventsIn(f)[k][1] = f[starts[k]]
           /\ ~NeverEnds(f)
<1>. DEFINE n == Len(starts)
            l == Len(f)
<1>1. CursorsOf(f) = starts
  BY SearchFindsAll
<1>2. DOMAIN starts = 1 .. n /\ n \in Nat
  BY StartsTypes
<1>3. \A k \in 1 .. n : event_type_from_byte(f[starts[k]]) # "NOT_SET"
  BY DEF Starts
<1>4. ~NeverEnds(f)
  BY <1>1, <1>2, <1>3 DEF NeverEnds
<1>5. {i \in DOMAIN starts : event_type_from_byte(f[starts[i]]) # "NOT_SET"} = 1 .. n
  BY <1>2, <1>3
<1>. HIDE DEF n, l
<1>6. EventsIn(f) = [k \in 1 .. n |-> EventAt(f, starts[k])]
  BY <1>1, <1>5 DEF EventsIn
<1>7. EventsIn(f) \in Seq(Seq(Byte))
  BY EventsAreBytes
<1>8. DOMAIN EventsIn(f) = 1 .. n /\ \A k \in 1 .. n : EventsIn(f)[k] = EventAt(f, starts[k])
  BY <1>6
<1>9. Len(EventsIn(f)) = n
  BY <1>2, <1>7, <1>8
<1>10. ASSUME NEW k \in 1 .. n
       PROVE  /\ EventAt(f, starts[k]) = SubSeq(f, starts[k], End(f, starts, k) - 1)
              /\ EventAt(f, starts[k])[1] = f[starts[k]]
  <2>. DEFINE c == starts[k]
              d == End(f, starts, k)
  <2>1. /\ c \in 1 .. l /\ c \in Nat /\ d \in Nat /\ c + 5 <= d /\ d <= l + 1 /\ l \in Nat
    BY <1>10, Ends, StartsTypes DEF n, l
  <2>2. Min({d - 1, l}) = d - 1
    <3>. HIDE DEF c, d
    <3>1. Min({d - 1, l}) = IF d - 1 <= l THEN d - 1 ELSE l
      BY <2>1, MinOfTwo
    <3>. QED BY <2>1, <3>1
  <2>. DEFINE e == c + serialized_size(f[c]) - 1
  <2>3. EventAt(f, c) = SubSeq(f, c, Min({e, l}))
    BY DEF EventAt, l
  <2>. HIDE DEF c, d
  <2>4. EventAt(f, c) = SubSeq(f, c, d - 1)
    <3>. DEFINE size == serialized_size(f[c])
    <3>1. d = c + size
      BY DEF End, SizeAt, c, d
    <3>2. size \in 5 .. 14
      <4>1. SizeAt(f, starts[k]) \in 5 .. 14
        BY <1>10, StartsTypes DEF n
      <4>. QED BY <4>1 DEF SizeAt, c
    <3>3. e = c + size - 1
      OBVIOUS
    <3>. HIDE DEF size, e
    <3>4. e = d - 1
      BY <2>1, <3>1, <3>2, <3>3
    <3>. QED BY <2>2, <2>3, <3>4
  <2>5. SubSeq(f, c, d - 1)[1] = f[c]
    <3>1. 1 \in 1 .. (d - 1) - c + 1 /\ c + 1 - 1 = c
      BY <2>1
    <3>2. \A i \in 1 .. (d - 1) - c + 1 : SubSeq(f, c, d - 1)[i] = f[c + i - 1]
      BY <2>1, SubSeqProperties DEF l
    <3>. QED BY <3>1, <3>2
  <2>. QED BY <2>4, <2>5 DEF c, d
<1>11. EventsIn(f) = [k \in 1 .. n |-> EventsIn(f)[k]]
  BY <1>6
<1>. QED BY <1>4, <1>7, <1>8, <1>9, <1>10, <1>11 DEF n

(* The parts of a file that are between the same positions and hold the     *)
(* same bytes are the same.                                                 *)
LEMMA SameBytes ==
    ASSUME NEW f \in Seq(Byte), NEW g \in Seq(Byte), NEW c \in Nat \ {0}, NEW d \in Nat,
           c <= d, d <= Len(f) + 1, d <= Len(g) + 1, \A p \in c .. d - 1 : f[p] = g[p]
    PROVE  SubSeq(f, c, d - 1) = SubSeq(g, c, d - 1)
<1>1. Len(f) \in Nat /\ Len(g) \in Nat
  OBVIOUS
<1>2. /\ SubSeq(f, c, d - 1) \in Seq(Byte) /\ SubSeq(g, c, d - 1) \in Seq(Byte)
      /\ Len(SubSeq(f, c, d - 1)) = d - c /\ Len(SubSeq(g, c, d - 1)) = d - c
      /\ \A i \in 1 .. d - c : SubSeq(f, c, d - 1)[i] = f[c + i - 1]
      /\ \A i \in 1 .. d - c : SubSeq(g, c, d - 1)[i] = g[c + i - 1]
  <2>1. c \in 1 .. Len(f) + 1 /\ d - 1 \in 0 .. Len(f) /\ c \in 1 .. Len(g) + 1 /\ d - 1 \in 0 .. Len(g)
    BY <1>1
  <2>2. (d - 1) - c + 1 = d - c /\ (~(c <= d - 1) => d - c = 0)
    OBVIOUS
  <2>. QED BY <2>1, <2>2, SubSeqProperties
<1>3. \A i \in 1 .. d - c : c + i - 1 \in c .. d - 1
  OBVIOUS
<1>. DEFINE s == SubSeq(f, c, d - 1)
            t == SubSeq(g, c, d - 1)
            m == d - c
<1>4. \A i \in 1 .. m : s[i] = t[i]
  BY <1>2, <1>3
<1>5. s \in Seq(Byte) /\ t \in Seq(Byte) /\ Len(s) = m /\ Len(t) = m
  BY <1>2
<1>. HIDE DEF s, t, m
<1>6. s = t
  BY <1>4, <1>5, SeqEqual
<1>. QED BY <1>6 DEF s, t

(* An event that is appended to the file is added to the end of the list.   *)
LEMMA AddAppends ==
    ASSUME NEW f \in Seq(Byte), NEW starts, Starts(f, starts),
           NEW e \in Seq(Byte), Len(e) > 0, Len(e) = serialized_size(e[1]), e[1] # 0
    PROVE  EventsIn(f \o e) = Append(EventsIn(f), e)
<1>. DEFINE F == f \o e
            S == Append(starts, Len(f) + 1)
            n == Len(starts)
            l == Len(f)
            m == Len(e)
            old == EventsIn(f)
            new == EventsIn(F)
<1>1. l \in Nat /\ m \in Nat /\ n \in Nat /\ m > 0 /\ starts \in Seq(Nat)
  BY LenProperties, StartsTypes
<1>2. F \in Seq(Byte) /\ Len(F) = l + m /\ \A p \in 1 .. l : F[p] = f[p]
  <2>1. /\ F \in Seq(Byte) /\ Len(F) = l + m
        /\ \A p \in 1 .. l + m : F[p] = IF p <= l THEN f[p] ELSE e[p - l]
    BY ConcatProperties
  <2>. HIDE DEF F, l, m
  <2>. QED BY <1>1, <2>1
<1>3. Starts(F, S)
  BY StartsAfterAdd
<1>4. Len(S) = n + 1 /\ S[n + 1] = l + 1 /\ \A k \in 1 .. n : S[k] = starts[k]
  <2>1. l + 1 \in Nat
    BY <1>1
  <2>. HIDE DEF l
  <2>2. S = Append(starts, l + 1)
    BY DEF l
  <2>. QED BY <1>1, <2>1, <2>2, AppendProperties
<1>. HIDE DEF F, S, n, l, old, new
<1>5. /\ old \in Seq(Seq(Byte)) /\ Len(old) = n
      /\ \A k \in 1 .. n : old[k] = SubSeq(f, starts[k], End(f, starts, k) - 1)
  BY EventsBetween DEF old, n
<1>6. /\ new \in Seq(Seq(Byte)) /\ Len(new) = n + 1
      /\ \A k \in 1 .. n + 1 : new[k] = SubSeq(F, S[k], End(F, S, k) - 1)
  BY <1>2, <1>3, <1>4, EventsBetween, SMTT(40) DEF new
<1>7. /\ \A k \in 1 .. n : /\ starts[k] \in Nat \ {0} /\ End(f, starts, k) \in Nat
                           /\ starts[k] <= End(f, starts, k) /\ End(f, starts, k) <= l + 1
                           /\ starts[k] \in 1 .. l
  <2>1. \A k \in 1 .. n : /\ starts[k] \in 1 .. l /\ starts[k] \in Nat /\ End(f, starts, k) \in Nat
                          /\ starts[k] + 5 <= End(f, starts, k) /\ End(f, starts, k) <= l + 1
    BY Ends, StartsTypes, SMTT(40) DEF n, l
  <2>. QED BY <1>1, <2>1, SMTT(40)
<1>8. ASSUME NEW k \in 1 .. n PROVE new[k] = old[k]
  <2>. DEFINE c == starts[k]
              d == End(f, starts, k)
  <2>1. c \in Nat \ {0} /\ d \in Nat /\ c <= d /\ d <= l + 1 /\ c \in 1 .. l
    BY <1>7
  <2>2. S[k] = c /\ F[c] = f[c]
    BY <1>2, <1>4, <2>1
  <2>3. End(F, S, k) = d
    BY <2>2 DEF End, SizeAt
  <2>4. k \in 1 .. n + 1
    BY <1>1
  <2>5. new[k] = SubSeq(F, c, d - 1) /\ old[k] = SubSeq(f, c, d - 1)
    BY <1>5, <1>6, <2>2, <2>3, <2>4
  <2>. HIDE DEF c, d
  <2>6. \A p \in c .. d - 1 : F[p] = f[p]
    BY <1>1, <1>2, <2>1
  <2>7. d <= Len(F) + 1
    BY <1>1, <1>2, <2>1
  <2>8. SubSeq(F, c, d - 1) = SubSeq(f, c, d - 1)
    BY <1>2, <2>1, <2>6, <2>7, SameBytes DEF l
  <2>. QED BY <2>5, <2>8
<1>9. new[n + 1] = e
  <2>1. n + 1 \in 1 .. n + 1
    BY <1>1
  <2>2. F[l + 1] = e[1]
    <3>1. F[l + 1] = e[(l + 1) - l]
      <4>1. \A p \in 1 .. l + m : F[p] = IF p <= l THEN f[p] ELSE e[p - l]
        BY ConcatProperties DEF F, l
      <4>. QED BY <1>1, <4>1
    <3>. QED BY <1>1, <3>1
  <2>3. End(F, S, n + 1) = l + 1 + m
    BY <1>4, <2>2 DEF End, SizeAt
  <2>4. new[n + 1] = SubSeq(F, l + 1, l + m)
    <3>. DEFINE d == End(F, S, n + 1)
    <3>1. new[n + 1] = SubSeq(F, l + 1, d - 1)
      BY <1>4, <1>6, <2>1
    <3>. HIDE DEF d
    <3>2. d - 1 = l + m
      BY <1>1, <2>3 DEF d
    <3>. QED BY <3>1, <3>2
  <2>5. SubSeq(f \o e, Len(f) + 1, Len(f) + Len(e)) = e
    BY SubSeqOfConcat2
  <2>. QED BY <2>4, <2>5 DEF F, l
<1>10. /\ Append(old, e) \in Seq(Seq(Byte)) /\ Len(Append(old, e)) = n + 1
       /\ Append(old, e)[n + 1] = e /\ \A k \in 1 .. n : Append(old, e)[k] = old[k]
  <2>. HIDE DEF n, old
  <2>1. old \in Seq(Seq(Byte)) /\ e \in Seq(Byte) /\ Len(old) = n
    BY <1>1, <1>5
  <2>. QED BY <2>1, AppendProperties, SMTT(40)
<1>11. ASSUME NEW k \in 1 .. n + 1 PROVE new[k] = Append(old, e)[k]
  <2>1. k = n + 1 \/ k \in 1 .. n
    BY <1>1
  <2>. QED BY <1>8, <1>9, <1>10, <2>1
<1>12. new = Append(old, e)
  BY <1>6, <1>10, <1>11, SeqEqual
<1>. QED BY <1>12 DEF old, new, F

-----------------------------------------------------------------------------
(* A set of numbers holds its least one.                                    *)
LEMMA MinIn ==
    ASSUME NEW T, T \subseteq Nat, T # {}
    PROVE  Min(T) \in T
<1>1. \E x \in T : \A y \in T : x <= y
  BY Least
<1>. QED BY <1>1 DEF Min

(* What remove_event looks for in the file, by the first byte: an event in  *)
(* the list that starts like the one given, if there is one.                *)
PlaceInFile(f, e) == SelectInSeq(CursorsOf(f), LAMBDA c : f[c] = e[1])

LEMMA PlaceOfSome ==
    ASSUME NEW f \in Seq(Byte), NEW starts, Starts(f, starts), NEW e
    PROVE  /\ PlaceInFile(f, e) = 0 => \A i \in DOMAIN EventsIn(f) : EventsIn(f)[i][1] # e[1]
           /\ PlaceInFile(f, e) # 0 => /\ PlaceInFile(f, e) \in 1 .. Len(starts)
                                       /\ PlaceInFile(f, e) \in DOMAIN EventsIn(f)
                                       /\ f[starts[PlaceInFile(f, e)]] = e[1]
                                       /\ EventsIn(f)[PlaceInFile(f, e)][1] = e[1]
<1>. DEFINE n == Len(starts)
            I == {i \in 1 .. n : f[starts[i]] = e[1]}
<1>1. CursorsOf(f) = starts
  BY SearchFindsAll
<1>2. PlaceInFile(f, e) = IF I # {} THEN Min(I) ELSE 0
  BY <1>1 DEF SelectInSeq, PlaceInFile
<1>3. /\ DOMAIN EventsIn(f) = 1 .. n
      /\ \A i \in 1 .. n : EventsIn(f)[i][1] = f[starts[i]]
  BY EventsBetween
<1>4. I # {} => Min(I) \in I
  <2>1. I \subseteq Nat
    OBVIOUS
  <2>. HIDE DEF I
  <2>. QED BY <2>1, MinIn
<1>5. \A i \in 1 .. n : i \in I <=> f[starts[i]] = e[1]
  OBVIOUS
<1>6. I \subseteq 1 .. n /\ 0 \notin 1 .. n
  OBVIOUS
<1>. DEFINE k == PlaceInFile(f, e)
            events == EventsIn(f)
<1>. HIDE DEF I, n, k, events
<1>7. k = 0 => \A i \in 1 .. n : events[i][1] # e[1]
  BY <1>2, <1>3, <1>4, <1>5, <1>6 DEF k, events
<1>8. ASSUME k # 0
      PROVE  k \in 1 .. n /\ f[starts[k]] = e[1] /\ events[k][1] = e[1]
  <2>1. k \in I
    BY <1>2, <1>4, <1>8 DEF k
  <2>2. k \in 1 .. n /\ f[starts[k]] = e[1]
    BY <1>5, <1>6, <2>1
  <2>3. \A i \in 1 .. n : events[i][1] = f[starts[i]]
    BY <1>3 DEF events
  <2>. QED BY <2>2, <2>3
<1>. QED BY <1>3, <1>7, <1>8 DEF n, k, events

(* Zeros written over an event take it out of the list, and nothing else.   *)
LEMMA RemoveTakesOut ==
    ASSUME NEW f \in Seq(Byte), NEW starts, Starts(f, starts), NEW k \in 1 .. Len(starts)
    PROVE  EventsIn(Zeros(f, starts[k], SizeAt(f, starts[k]))) = Without(EventsIn(f), k)
<1>. DEFINE F == Zeros(f, starts[k], SizeAt(f, starts[k]))
            S == Without(starts, k)
            n == Len(starts)
            l == Len(f)
            old == EventsIn(f)
            new == EventsIn(F)
<1>1. l \in Nat /\ n \in Nat /\ starts \in Seq(Nat)
  BY LenProperties, StartsTypes
<1>2. /\ F \in Seq(Byte) /\ Len(F) = l /\ Starts(F, S)
      /\ \A i \in 1 .. n - 1 :
            /\ S[i] = starts[Was(i, k)] /\ End(F, S, i) = End(f, starts, Was(i, k))
            /\ \A p \in S[i] .. End(F, S, i) - 1 : F[p] = f[p]
  BY StartsAfterRemove
<1>3. Len(S) = n - 1
  BY <1>1, WithoutIs
<1>. HIDE DEF F, S, n, l, old, new
<1>4. /\ old \in Seq(Seq(Byte)) /\ Len(old) = n
      /\ \A i \in 1 .. n : old[i] = SubSeq(f, starts[i], End(f, starts, i) - 1)
  BY EventsBetween DEF old, n
<1>5. /\ new \in Seq(Seq(Byte)) /\ Len(new) = n - 1
      /\ \A i \in 1 .. n - 1 : new[i] = SubSeq(F, S[i], End(F, S, i) - 1)
  <2>1. /\ new \in Seq(Seq(Byte)) /\ Len(new) = Len(S)
        /\ \A i \in 1 .. Len(S) : new[i] = SubSeq(F, S[i], End(F, S, i) - 1)
    BY <1>2, EventsBetween, SMTT(40) DEF new
  <2>. QED BY <1>3, <2>1
<1>6. k \in 1 .. n
  BY DEF n
<1>7. ASSUME NEW i \in 1 .. n - 1 PROVE new[i] = old[Was(i, k)]
  <2>. DEFINE j == Was(i, k)
              c == starts[j]
              d == End(f, starts, j)
  <2>1. j \in 1 .. n
    BY <1>1, <1>6 DEF Was
  <2>2. S[i] = c /\ End(F, S, i) = d /\ \A p \in c .. d - 1 : F[p] = f[p]
    BY <1>2
  <2>. HIDE DEF j
  <2>3. c \in Nat \ {0} /\ d \in Nat /\ c <= d /\ d <= l + 1
    <3>1. c \in 1 .. l /\ c \in Nat /\ d \in Nat /\ c + 5 <= d /\ d <= l + 1
      BY <2>1, Ends, StartsTypes DEF n, l
    <3>. HIDE DEF c, d
    <3>. QED BY <3>1
  <2>4. new[i] = SubSeq(F, c, d - 1) /\ old[j] = SubSeq(f, c, d - 1)
    BY <1>4, <1>5, <2>1, <2>2
  <2>. HIDE DEF c, d
  <2>5. SubSeq(F, c, d - 1) = SubSeq(f, c, d - 1)
    BY <1>2, <2>2, <2>3, SameBytes DEF l
  <2>. QED BY <2>4, <2>5 DEF j
<1>8. /\ Without(old, k) \in Seq(Seq(Byte)) /\ Len(Without(old, k)) = n - 1
      /\ \A i \in 1 .. n - 1 : Without(old, k)[i] = old[Was(i, k)]
  BY <1>4, <1>6, WithoutIs
<1>9. new = Without(old, k)
  BY <1>5, <1>7, <1>8, SeqEqual
<1>. QED BY <1>9 DEF old, new, F

(* Whatever the file holds, to remove an event leaves its size alone.       *)
LEMMA RemoveTypes ==
    ASSUME NEW f \in Seq(Byte), NEW e
    PROVE  remove_event(f, e) \in Seq(Byte) /\ Len(remove_event(f, e)) = Len(f)
<1>. DEFINE k == PlaceInFile(f, e)
            c == CursorsOf(f)[k]
<1>1. \/ remove_event(f, e) = f
      \/ remove_event(f, e) = Zeros(f, c, Len(e))
  BY DEF remove_event, PlaceInFile
<1>2. Zeros(f, c, Len(e)) \in Seq(Byte) /\ Len(Zeros(f, c, Len(e))) = Len(f)
  <2>. HIDE DEF c
  <2>. QED BY ZerosAre
<1>. QED BY <1>1, <1>2

(* From a file that is in order, an event that starts like the given one is *)
(* removed, if there is one.                                                *)
TakesOutOne(old, new, e) ==
    \/ new = old /\ \A i \in DOMAIN old : old[i][1] # e[1]
    \/ \E k \in DOMAIN old : old[k][1] = e[1] /\ new = Without(old, k)

LEMMA RemoveRemoves ==
    ASSUME NEW f \in Seq(Byte), NEW starts, Starts(f, starts),
           NEW e \in Seq(Byte), Len(e) = serialized_size(e[1])
    PROVE  /\ \E rest : Starts(remove_event(f, e), rest)
           /\ TakesOutOne(EventsIn(f), EventsIn(remove_event(f, e)), e)
<1>. DEFINE k == PlaceInFile(f, e)
            c == starts[k]
<1>1. CursorsOf(f) = starts
  BY SearchFindsAll
<1>2. /\ k = 0 => \A i \in DOMAIN EventsIn(f) : EventsIn(f)[i][1] # e[1]
      /\ k # 0 => /\ k \in 1 .. Len(starts) /\ f[c] = e[1]
                  /\ k \in DOMAIN EventsIn(f) /\ EventsIn(f)[k][1] = e[1]
  BY PlaceOfSome
<1>3. remove_event(f, e) = IF k = 0 THEN f
                           ELSE IF c + Len(e) - 1 > Len(f) THEN f
                           ELSE Zeros(f, c, Len(e))
  BY <1>1 DEF remove_event, PlaceInFile
<1>. HIDE DEF k
<1>4. CASE k = 0
  <2>1. remove_event(f, e) = f
    BY <1>3, <1>4
  <2>. QED BY <1>2, <1>4, <2>1 DEF TakesOutOne
<1>5. CASE k # 0
  <2>1. k \in 1 .. Len(starts) /\ Len(e) = SizeAt(f, c)
    BY <1>2, <1>5 DEF SizeAt
  <2>2. ~(c + Len(e) - 1 > Len(f))
    <3>1. End(f, starts, k) \in Nat /\ End(f, starts, k) <= Len(f) + 1
      BY <2>1, Ends
    <3>. DEFINE d == End(f, starts, k)
                m == Len(e)
                l == Len(f)
    <3>2. d = c + m
      BY <2>1 DEF End
    <3>3. c \in Nat /\ m \in Nat /\ l \in Nat
      BY <2>1, StartsTypes
    <3>. HIDE DEF c, d, m
    <3>4. ~(c + m - 1 > l)
      BY <3>1, <3>2, <3>3 DEF d
    <3>. QED BY <3>4 DEF c, m
  <2>. DEFINE F == Zeros(f, c, SizeAt(f, c))
  <2>3. remove_event(f, e) = F
    <3>. DEFINE m == Len(e)
    <3>1. remove_event(f, e) = Zeros(f, c, m)
      BY <1>3, <1>5, <2>2
    <3>2. m = SizeAt(f, c)
      BY <2>1
    <3>. HIDE DEF m, c
    <3>. QED BY <3>1, <3>2
  <2>4. Starts(F, Without(starts, k))
    BY <2>1, StartsAfterRemove
  <2>5. EventsIn(F) = Without(EventsIn(f), k)
    BY <2>1, RemoveTakesOut
  <2>. HIDE DEF F
  <2>6. TakesOutOne(EventsIn(f), EventsIn(F), e)
    BY <1>2, <1>5, <2>5 DEF TakesOutOne
  <2>. QED BY <2>3, <2>4, <2>6
<1>. QED BY <1>4, <1>5

(* An empty file is in order, and holds no events.                          *)
LEMMA EmptyFile ==
    /\ Starts(<<>>, <<>>) /\ EventsIn(<<>>) = <<>>
<1>1. Starts(<<>>, <<>>)
  BY DEF Starts
<1>2. <<>> \in Seq(Byte) /\ Len(<<>>) = 0
  OBVIOUS
<1>3. EventsIn(<<>>) \in Seq(Seq(Byte)) /\ Len(EventsIn(<<>>)) = 0
  BY <1>1, <1>2, EventsBetween
<1>. DEFINE s == EventsIn(<<>>)
<1>. HIDE DEF s
<1>4. s = <<>>
  BY <1>3 DEF s
<1>. QED BY <1>1, <1>4 DEF s
-----------------------------------------------------------------------------
(* What every command keeps: the buffers hold what a search of the file     *)
(* finds, and until an event is stored whose first byte is 0, the file is   *)
(* a row of whole events with nothing but zeros between them.               *)
StoreInv ==
    /\ StoreTypeOK
    /\ loaded = EventsIn(file)
    /\ hung = NeverEnds(file)
    /\ ~blank => \E starts : Starts(file, starts)

(* The events that a module is told to store.                               *)
LEMMA Blobs ==
    ASSUME NEW e \in EventBlob
    PROVE  e \in Seq(Byte) /\ Len(e) = serialized_size(e[1]) /\ Len(e) > 0
BY EventAssumption

LEMMA StoreInvInit == StoreInit => StoreInv
<1>. SUFFICES ASSUME StoreInit PROVE StoreInv
  OBVIOUS
<1>1. <<>> \in Seq(Byte) /\ Len(<<>>) = 0 /\ <<>> \in Seq(Seq(Byte))
  OBVIOUS
<1>2. ~NeverEnds(<<>>)
  BY <1>1, EmptyFile, EventsBetween
<1>3. 0 <= FileCapacity
  BY EventAssumption
<1>4. StoreTypeOK
  BY <1>1, <1>3 DEF StoreInit, StoreTypeOK
<1>5. hung = FALSE /\ NeverEnds(<<>>) = FALSE
  BY <1>2 DEF StoreInit, NeverEnds
<1>. QED BY <1>4, <1>5, EmptyFile DEF StoreInit, StoreInv

(* load_events, behind every command.                                       *)
LEMMA Reloaded ==
    ASSUME StoreInv, reload_event_buffers, file' \in Seq(Byte), Len(file') <= FileCapacity,
           blank' \in BOOLEAN
    PROVE  StoreTypeOK' /\ loaded' = EventsIn(file') /\ hung' = NeverEnds(file')
<1>1. loaded' = EventsIn(file') /\ hung' = NeverEnds(file') /\ overrun' \in BOOLEAN
  BY DEF reload_event_buffers, StoreInv, StoreTypeOK
<1>2. loaded' \in Seq(Seq(Byte))
  BY <1>1, EventsAreBytes
<1>3. hung' \in BOOLEAN
  BY <1>1 DEF NeverEnds
<1>. QED BY <1>1, <1>2, <1>3 DEF StoreTypeOK

(* What each command does to a file that is in order, and to the list.      *)
LEMMA StoreStep ==
    ASSUME StoreInv, StoreNext
    PROVE  /\ StoreInv'
           /\ ~blank' => List!Next \/ \E e \in EventBlob : RemoveAnother(e)
<1>0. file \in Seq(Byte) /\ Len(file) <= FileCapacity /\ blank \in BOOLEAN /\ hung \in BOOLEAN
  BY DEF StoreInv, StoreTypeOK
<1>1. ASSUME NEW e \in EventBlob, EVENT_ADD(e), HasRoom(e),
             file' = file \o e, blank' = (blank \/ e[1] = 0), command' = <<"add", e>>
      PROVE  StoreInv' /\ (~blank' => List!Next)
  <2>1. file' \in Seq(Byte) /\ Len(file') <= FileCapacity /\ blank' \in BOOLEAN
    <3>1. e \in Seq(Byte) /\ Len(file \o e) = Len(file) + Len(e) /\ file \o e \in Seq(Byte)
      BY <1>0, Blobs, ConcatProperties
    <3>. QED BY <1>0, <1>1, <3>1 DEF HasRoom
  <2>2. StoreTypeOK' /\ loaded' = EventsIn(file') /\ hung' = NeverEnds(file')
    BY <1>1, <2>1, Reloaded DEF EVENT_ADD
  <2>3. ASSUME ~blank'
        PROVE  (\E starts : Starts(file', starts)) /\ List!Next
    <3>1. ~blank /\ e[1] # 0
      BY <1>1, <2>3
    <3>2. PICK starts : Starts(file, starts)
      BY <3>1 DEF StoreInv
    <3>3. Starts(file', Append(starts, Len(file) + 1))
      BY <1>0, <1>1, <3>1, <3>2, Blobs, StartsAfterAdd
    <3>4. loaded' = Append(loaded, e)
      <4>1. EventsIn(file \o e) = Append(EventsIn(file), e)
        BY <1>0, <3>1, <3>2, Blobs, AddAppends
      <4>. QED BY <1>1, <2>2, <4>1 DEF StoreInv
    <3>5. List!Add(e)
      BY <1>1, <3>4 DEF List!Add
    <3>. QED BY <3>3, <3>5 DEF List!Next
  <2>. QED BY <2>2, <2>3 DEF StoreInv
<1>2. ASSUME reload_event_buffers, UNCHANGED <<file, blank>>
      PROVE  StoreInv' /\ loaded' = loaded
  <2>1. StoreTypeOK' /\ loaded' = EventsIn(file') /\ hung' = NeverEnds(file')
    BY <1>0, <1>2, Reloaded
  <2>2. loaded' = loaded
    BY <1>2, <2>1 DEF StoreInv
  <2>3. ~blank' => \E starts : Starts(file', starts)
    BY <1>2 DEF StoreInv
  <2>. QED BY <2>1, <2>2, <2>3 DEF StoreInv
<1>3. ASSUME NEW e \in EventBlob, EVENT_ADD(e)
      PROVE  StoreInv' /\ (~blank' => List!Next)
  <2>1. CASE HasRoom(e)
    BY <1>1, <1>3, <2>1 DEF EVENT_ADD
  <2>2. CASE ~HasRoom(e)
    <3>1. StoreInv' /\ loaded' = loaded /\ command' = <<"add_fails", e>>
      BY <1>2, <1>3, <2>2 DEF EVENT_ADD
    <3>. QED BY <3>1 DEF List!Next, List!AddFails
  <2>. QED BY <2>1, <2>2
<1>4. ASSUME NEW e \in EventBlob, EVENT_REMOVE(e)
      PROVE  StoreInv' /\ (~blank' => List!Next \/ RemoveAnother(e))
  <2>1. file' = remove_event(file, e) /\ blank' = blank /\ command' = <<"remove", e>>
    BY <1>4 DEF EVENT_REMOVE
  <2>2. file' \in Seq(Byte) /\ Len(file') <= FileCapacity
    BY <1>0, <2>1, RemoveTypes
  <2>3. StoreTypeOK' /\ loaded' = EventsIn(file') /\ hung' = NeverEnds(file')
    BY <1>0, <1>4, <2>1, <2>2, Reloaded DEF EVENT_REMOVE
  <2>4. ASSUME ~blank'
        PROVE  (\E starts : Starts(file', starts)) /\ (List!Next \/ RemoveAnother(e))
    <3>1. PICK starts : Starts(file, starts)
      BY <2>1, <2>4 DEF StoreInv
    <3>2. /\ \E rest : Starts(remove_event(file, e), rest)
          /\ TakesOutOne(EventsIn(file), EventsIn(remove_event(file, e)), e)
      BY <1>0, <3>1, Blobs, RemoveRemoves
    <3>3. TakesOutOne(loaded, loaded', e)
      BY <2>1, <2>3, <3>2 DEF StoreInv
    <3>4. List!RemoveOne(e) \/ RemoveAnother(e)
      <4>1. CASE loaded' = loaded /\ \A i \in DOMAIN loaded : loaded[i][1] # e[1]
        BY <2>1, <4>1 DEF List!RemoveOne
      <4>2. ASSUME NEW k \in DOMAIN loaded, loaded[k][1] = e[1], loaded' = Without(loaded, k)
            PROVE  List!RemoveOne(e) \/ RemoveAnother(e)
        BY <2>1, <4>2 DEF List!RemoveOne, RemoveAnother, LooksLike, Without, RemoveAt, List!RemoveAt
      <4>. QED BY <3>3, <4>1, <4>2 DEF TakesOutOne
    <3>. QED BY <2>1, <3>2, <3>4 DEF List!Next
  <2>. QED BY <2>3, <2>4 DEF StoreInv
<1>5. ASSUME EVENT_REMOVE_ALL
      PROVE  StoreInv' /\ List!Next
  <2>1. file' = <<>> /\ blank' = FALSE /\ command' = <<"remove_all">>
    BY <1>5 DEF EVENT_REMOVE_ALL
  <2>2. file' \in Seq(Byte) /\ Len(file') <= FileCapacity
    BY <2>1, EventAssumption
  <2>3. StoreTypeOK' /\ loaded' = EventsIn(file') /\ hung' = NeverEnds(file')
    BY <1>5, <2>1, <2>2, Reloaded DEF EVENT_REMOVE_ALL
  <2>4. List!RemoveAll
    BY <2>1, <2>3, EmptyFile DEF List!RemoveAll
  <2>. QED BY <2>1, <2>3, <2>4, EmptyFile DEF StoreInv, List!Next
<1>6. ASSUME Restart
      PROVE  StoreInv' /\ List!Next
  <2>1. StoreInv' /\ loaded' = loaded /\ command' = <<"restart">>
    BY <1>2, <1>6 DEF Restart
  <2>. QED BY <2>1 DEF List!Next, List!Restart
<1>. QED BY <1>3, <1>4, <1>5, <1>6 DEF StoreNext

(* So it is after any number of commands and restarts.                      *)
THEOREM StoreInvariant == StoreSpec => []StoreInv
<1>1. StoreInv /\ [StoreNext]_storeVars => StoreInv'
  <2>1. StoreInv /\ StoreNext => StoreInv'
    BY StoreStep
  <2>2. StoreInv /\ UNCHANGED storeVars => StoreInv'
    BY DEF StoreInv, StoreTypeOK, storeVars
  <2>. QED BY <2>1, <2>2
<1>. QED BY <1>1, StoreInvInit, PTL DEF StoreSpec

(* The file never outgrows its limit, and what is loaded from it are byte   *)
(* strings, whatever events hold.                                           *)
THEOREM StoreTypeCorrect == StoreSpec => []StoreTypeOK
<1>1. StoreInv => StoreTypeOK
  BY DEF StoreInv
<1>. QED BY <1>1, StoreInvariant, PTL

(* seek_curser_to_next_event gets stuck in load_events only after an event  *)
(* was stored whose first byte is 0.                                        *)
THEOREM HangsAfterBlank == StoreSpec => []HangsOnlyAfterBlank
<1>1. StoreInv => HangsOnlyAfterBlank
  <2>. SUFFICES ASSUME StoreInv, ~blank PROVE ~hung
    BY DEF HangsOnlyAfterBlank
  <2>1. PICK starts : Starts(file, starts)
    BY DEF StoreInv
  <2>2. ~NeverEnds(file)
    BY <2>1, EventsBetween DEF StoreInv, StoreTypeOK
  <2>. QED BY <2>2 DEF StoreInv
<1>. QED BY <1>1, StoreInvariant, PTL

(* Until then, and until more events are stored than the buffers hold, the  *)
(* commands do to the file what EventList says they do to a list, but that  *)
(* a removal may take out another event that starts like the one it is for. *)
THEOREM StoreIsAList == StoreSpec => StoresAList
<1>1. StoreInv /\ [StoreNext]_storeVars
        => [~blank' /\ ~overrun' => List!Next \/ \E e \in EventBlob : RemoveAnother(e)]_<<loaded, command>>
  <2>1. StoreInv /\ StoreNext => (~blank' => List!Next \/ \E e \in EventBlob : RemoveAnother(e))
    BY StoreStep
  <2>2. UNCHANGED storeVars => UNCHANGED <<loaded, command>>
    BY DEF storeVars
  <2>. QED BY <2>1, <2>2
<1>. QED BY <1>1, StoreInvariant, PTL DEF StoreSpec, StoresAList
-----------------------------------------------------------------------------
(* The flow compiler.                                                       *)

(* h starts with base, and G makes each of its values from the one before.  *)
Recurs(h, N, D, base, G) ==
    /\ h \in [0 .. N -> D]
    /\ \A n \in 0 .. N : h[n] = IF n = 0 THEN base ELSE G[h[n - 1]]

(* A function that is defined by recursion on a number is there.            *)
LEMMA Recursion ==
    ASSUME NEW N, NEW D, NEW base, NEW G, N \in Nat, base \in D, G \in [D -> D]
    PROVE  \E h : Recurs(h, N, D, base, G)
<1>. DEFINE Fits(n) == \E h \in [0 .. n -> D] :
                          \A i \in 0 .. n : h[i] = IF i = 0 THEN base ELSE G[h[i - 1]]
            Misfits == {n \in 0 .. N : ~Fits(n)}
<1>1. Fits(0)
  <2>. DEFINE h == [i \in 0 .. 0 |-> base]
  <2>1. h \in [0 .. 0 -> D] /\ \A i \in 0 .. 0 : i = 0 /\ h[i] = base
    OBVIOUS
  <2>. HIDE DEF h
  <2>. QED BY <2>1
<1>2. ASSUME NEW n \in Nat, Fits(n) PROVE Fits(n + 1)
  <2>1. PICK h \in [0 .. n -> D] : \A i \in 0 .. n : h[i] = IF i = 0 THEN base ELSE G[h[i - 1]]
    BY <1>2
  <2>. DEFINE k == [i \in 0 .. n + 1 |-> IF i = n + 1 THEN G[h[n]] ELSE h[i]]
  <2>2. h[n] \in D /\ G[h[n]] \in D
    <3>1. n \in 0 .. n
      OBVIOUS
    <3>. QED BY <3>1
  <2>3. k \in [0 .. n + 1 -> D]
    <3>1. ASSUME NEW i \in 0 .. n + 1 PROVE (IF i = n + 1 THEN G[h[n]] ELSE h[i]) \in D
      <4>1. i = n + 1 \/ i \in 0 .. n
        OBVIOUS
      <4>. QED BY <2>2, <4>1
    <3>. QED BY <3>1
  <2>4. \A i \in 0 .. n : k[i] = h[i]
    OBVIOUS
  <2>5. k[n + 1] = G[h[n]]
    OBVIOUS
  <2>. HIDE DEF k
  <2>6. ASSUME NEW i \in 0 .. n + 1 PROVE k[i] = IF i = 0 THEN base ELSE G[k[i - 1]]
    <3>1. CASE i = n + 1
      <4>1. i # 0 /\ i - 1 = n /\ n \in 0 .. n
        BY <3>1
      <4>. QED BY <2>4, <2>5, <3>1, <4>1
    <3>2. CASE i # n + 1
      <4>1. i \in 0 .. n /\ (i # 0 => i - 1 \in 0 .. n)
        BY <3>2
      <4>. QED BY <2>1, <2>4, <4>1
    <3>. QED BY <3>1, <3>2
  <2>. QED BY <2>3, <2>6
<1>3. Misfits = {}
  <2>. SUFFICES ASSUME Misfits # {} PROVE FALSE
    OBVIOUS
  <2>1. Misfits \subseteq Nat
    OBVIOUS
  <2>2. PICK n \in Misfits : \A m \in Misfits : n <= m
    <3>. HIDE DEF Misfits
    <3>. QED BY <2>1, Least
  <2>. HIDE DEF Fits
  <2>3. n # 0 /\ n \in 0 .. N
    BY <1>1, <2>2
  <2>4. n - 1 \in Nat /\ n - 1 \in 0 .. N /\ ~(n <= n - 1)
    BY <2>3
  <2>5. Fits(n - 1)
    BY <2>2, <2>4
  <2>6. Fits((n - 1) + 1)
    BY <1>2, <2>4, <2>5
  <2>7. (n - 1) + 1 = n
    BY <2>3
  <2>. QED BY <2>2, <2>6, <2>7
<1>4. N \in 0 .. N
  OBVIOUS
<1>5. Fits(N)
  <2>. HIDE DEF Fits
  <2>. QED BY <1>3, <1>4
<1>. QED BY <1>5 DEF Recurs

(* DoneWithin is what its definition says.                                  *)
LEMMA DoneWithinIs ==
    ASSUME NEW g, IsGraph(g), NEW n \in 0 .. Cardinality(DOMAIN g)
    PROVE  /\ Cardinality(DOMAIN g) \in Nat
           /\ DoneWithin(g)[n] =
                {id \in DOMAIN g : LegsOf(g, id) \subseteq IF n = 0 THEN {} ELSE DoneWithin(g)[n - 1]}
<1>. DEFINE N == Cardinality(DOMAIN g)
            D == SUBSET DOMAIN g
            Done(ids) == {id \in DOMAIN g : LegsOf(g, id) \subseteq ids}
            G == [ids \in D |-> Done(ids)]
            base == Done({})
            Before(h, i) == IF i = 0 THEN {} ELSE h[i - 1]
<1>1. N \in Nat
  BY FS_CardinalityType DEF IsGraph
<1>. HIDE DEF N
<1>2. G \in [D -> D] /\ base \in D
  OBVIOUS
<1>. HIDE DEF G, base
<1>3. PICK h : Recurs(h, N, D, base, G)
  <2>. HIDE DEF D
  <2>. QED BY <1>1, <1>2, Recursion, Zenon
<1>4. ASSUME NEW i \in 0 .. N PROVE h[i] = Done(Before(h, i))
  <2>1. CASE i = 0
    BY <1>3, <2>1 DEF base, Recurs
  <2>2. CASE i # 0
    <3>1. i - 1 \in 0 .. N
      BY <1>1, <2>2
    <3>2. h[i - 1] \in D /\ h[i] = G[h[i - 1]]
      BY <1>3, <2>2, <3>1 DEF Recurs
    <3>3. h[i] = Done(h[i - 1])
      BY <3>2 DEF G
    <3>. QED BY <2>2, <3>3
  <2>. QED BY <2>1, <2>2
<1>5. h = [i \in 0 .. N |-> h[i]]
  BY <1>3 DEF Recurs
<1>6. h = [i \in 0 .. N |-> Done(Before(h, i))]
  BY <1>4, <1>5
<1>7. DoneWithin(g) = CHOOSE k : k = [i \in 0 .. N |-> Done(Before(k, i))]
  BY DEF DoneWithin, N
<1>. HIDE DEF Done, Before
<1>8. DoneWithin(g) = [i \in 0 .. N |-> Done(Before(DoneWithin(g), i))]
  BY <1>6, <1>7
<1>9. DoneWithin(g)[n] = Done(Before(DoneWithin(g), n))
  BY <1>8 DEF N
<1>. QED BY <1>1, <1>9 DEF Done, Before, N

(* Counting from 0 to N.                                                    *)
LEMMA Counting ==
    ASSUME NEW N \in Nat, NEW S \in SUBSET Nat, 0 \in S, \A n \in S : n < N => n + 1 \in S
    PROVE  0 .. N \subseteq S
<1>. DEFINE T == {n \in 0 .. N : n \notin S}
<1>1. SUFFICES ASSUME T # {} PROVE FALSE
  OBVIOUS
<1>2. T \subseteq Nat
  OBVIOUS
<1>3. PICK n \in T : \A m \in T : n <= m
  <2>. HIDE DEF T
  <2>. QED BY <1>1, <1>2, Least
<1>4. n # 0 /\ n \in 0 .. N /\ n - 1 \in 0 .. N /\ n - 1 < N /\ (n - 1) + 1 = n /\ ~(n <= n - 1)
  BY <1>3
<1>5. n - 1 \in S
  BY <1>3, <1>4
<1>. QED BY <1>3, <1>4, <1>5

LEMMA SectionFields ==
    ASSUME NEW g, NEW s \in Section(g)
    PROVE  /\ s.node \in DOMAIN g /\ s.type \in {"event", "command", "if"}
           /\ s.section_number \in Nat
           /\ s.next \in [1 .. 1 -> Nat] \cup [1 .. 2 -> Nat]
BY DEF Section

(* The highest number of a section in a flow.                               *)
LEMMA MaxSection ==
    ASSUME NEW g, NEW flow \in Seq(Section(g))
    PROVE  /\ getMaxSectionNumber(flow) \in Nat
           /\ \A i \in 1 .. Len(flow) : flow[i].section_number <= getMaxSectionNumber(flow)
           /\ \/ getMaxSectionNumber(flow) = 0
              \/ \E i \in 1 .. Len(flow) : flow[i].section_number = getMaxSectionNumber(flow)
<1>. DEFINE L == Len(flow)
            num(i) == IF i = 0 THEN 0 ELSE flow[i].section_number
            S == {n \in 0 .. L : \E i \in 0 .. n : \A j \in 0 .. n : num(j) <= num(i)}
            T == {s.section_number : s \in ToSet(flow)} \cup {0}
<1>1. L \in Nat /\ DOMAIN flow = 1 .. L
  OBVIOUS
<1>2. \A i \in 0 .. L : num(i) \in Nat
  <2>1. ASSUME NEW i \in 0 .. L, i # 0 PROVE flow[i].section_number \in Nat
    <3>1. i \in 1 .. L
      BY <1>1, <2>1
    <3>2. flow[i] \in Section(g)
      BY <3>1, ElementOfSeq
    <3>. QED BY <3>2, SectionFields
  <2>. QED BY <2>1
<1>3. \A x : x \in T <=> \E i \in 0 .. L : x = num(i)
  BY <1>1 DEF ToSet
<1>. HIDE DEF L, num
<1>4. 0 \in S
  BY <1>1, <1>2
<1>5. ASSUME NEW n \in S, n < L PROVE n + 1 \in S
  <2>1. PICK i \in 0 .. n : \A j \in 0 .. n : num(j) <= num(i)
    OBVIOUS
  <2>2. n \in Nat /\ n + 1 \in 0 .. L /\ i \in 0 .. n + 1 /\ i \in 0 .. L
    BY <1>1, <1>5
  <2>3. \A j \in 0 .. n + 1 : j \in 0 .. n \/ j = n + 1
    BY <2>2
  <2>4. num(n + 1) \in Nat /\ num(i) \in Nat /\ \A j \in 0 .. n : num(j) \in Nat
    <3>1. \A j \in 0 .. n : j \in 0 .. L
      BY <1>1, <2>2
    <3>. QED BY <1>2, <2>2, <3>1
  <2>5. CASE num(n + 1) <= num(i)
    BY <2>1, <2>2, <2>3, <2>5
  <2>6. CASE ~(num(n + 1) <= num(i))
    <3>1. \A j \in 0 .. n + 1 : num(j) <= num(n + 1)
      BY <2>1, <2>3, <2>4, <2>6
    <3>2. n + 1 \in 0 .. n + 1
      BY <2>2
    <3>. QED BY <2>2, <3>1, <3>2
  <2>. QED BY <2>5, <2>6
<1>6. L \in S
  <2>1. S \in SUBSET Nat
    BY <1>1
  <2>. HIDE DEF S
  <2>2. 0 .. L \subseteq S
    BY <1>1, <1>4, <1>5, <2>1, Counting
  <2>3. L \in 0 .. L
    BY <1>1
  <2>. QED BY <2>2, <2>3
<1>7. PICK i \in 0 .. L : \A j \in 0 .. L : num(j) <= num(i)
  BY <1>6
<1>8. getMaxSectionNumber(flow) = CHOOSE x \in T : \A y \in T : x >= y
  BY DEF getMaxSectionNumber, Max
<1>9. num(i) \in T /\ \A y \in T : num(i) >= y
  BY <1>2, <1>3, <1>7
<1>. HIDE DEF T
<1>10. getMaxSectionNumber(flow) \in T /\ \A y \in T : getMaxSectionNumber(flow) >= y
  BY <1>8, <1>9
<1>11. PICK k \in 0 .. L : getMaxSectionNumber(flow) = num(k)
  BY <1>3, <1>10
<1>12. ASSUME NEW j \in 1 .. L
       PROVE  flow[j].section_number <= getMaxSectionNumber(flow) /\ flow[j].section_number = num(j)
  <2>1. j \in 0 .. L /\ num(j) = flow[j].section_number
    BY <1>1 DEF num
  <2>2. num(j) \in T /\ num(j) \in Nat /\ num(k) \in Nat
    BY <1>2, <1>3, <2>1
  <2>. QED BY <1>10, <1>11, <2>1, <2>2
<1>13. (k = 0 /\ num(k) = 0) \/ k \in 1 .. L
  BY <1>1 DEF num
<1>. QED BY <1>2, <1>11, <1>12, <1>13 DEF L

(* f goes on where flow ends. *)
Extends(flow, f) ==
    Len(flow) <= Len(f) /\ \A i \in 1 .. Len(flow) : f[i] = flow[i]

(* What calls of parseNodesImpl can return. *)
Parses(g) ==
    {d \in [ParseCall(g) -> Seq(Section(g))] : \A call \in ParseCall(g) : Extends(call.flow, d[call])}

LEMMA ExtendsOnAndOn ==
    ASSUME NEW S, NEW e \in Seq(S), NEW f \in Seq(S), NEW h \in Seq(S),
           Extends(e, f), Extends(f, h)
    PROVE  Extends(e, h)
<1>1. Len(e) \in Nat /\ Len(f) \in Nat /\ Len(h) \in Nat
  OBVIOUS
<1>. QED BY <1>1 DEF Extends

LEMMA Appended ==
    ASSUME NEW S, NEW flow \in Seq(S), NEW s \in S
    PROVE  /\ Append(flow, s) \in Seq(S)
           /\ Len(Append(flow, s)) = Len(flow) + 1
           /\ Append(flow, s)[Len(flow) + 1] = s
           /\ \A i \in 1 .. Len(flow) : Append(flow, s)[i] = flow[i]
           /\ Extends(flow, Append(flow, s))
<1>1. Append(flow, s) \in Seq(S) /\ Len(Append(flow, s)) = Len(flow) + 1 /\ Len(flow) \in Nat
  OBVIOUS
<1>2. Append(flow, s)[Len(flow) + 1] = s
  OBVIOUS
<1>3. \A i \in 1 .. Len(flow) : Append(flow, s)[i] = flow[i]
  OBVIOUS
<1>. QED BY <1>1, <1>2, <1>3 DEF Extends

LEMMA ChildNodes ==
    ASSUME NEW g, IsGraph(g), NEW id \in childNodes(g)
    PROVE  /\ id \in DOMAIN g /\ id # None
           /\ \/ g[id].type = "command" /\ DOMAIN g[id].wires = {1}
              \/ g[id].type = "if" /\ DOMAIN g[id].wires = {1, 2}
BY DEF childNodes, IsGraph

LEMMA ParsedTyped ==
    ASSUME NEW g, NEW d \in Parses(g), NEW flow \in Seq(Section(g)), NEW section \in Nat, NEW id
    PROVE  /\ Parsed(g, d, flow, id, section) \in Seq(Section(g))
           /\ Extends(flow, Parsed(g, d, flow, id, section))
<1>. DEFINE call == [flow |-> flow, id |-> id, section |-> section]
<1>1. CASE id \in childNodes(g)
  <2>1. call \in ParseCall(g) /\ call.flow = flow
    BY <1>1 DEF ParseCall
  <2>2. Parsed(g, d, flow, id, section) = d[call]
    BY <1>1 DEF Parsed
  <2>. HIDE DEF call
  <2>3. d[call] \in Seq(Section(g)) /\ Extends(call.flow, d[call])
    BY <2>1 DEF Parses
  <2>. QED BY <2>1, <2>2, <2>3
<1>2. CASE id \notin childNodes(g)
  <2>1. Parsed(g, d, flow, id, section) = flow
    BY <1>2 DEF Parsed
  <2>2. Len(flow) \in Nat
    OBVIOUS
  <2>. QED BY <2>1, <2>2 DEF Extends
<1>. QED BY <1>1, <1>2

LEMMA CommandTyped ==
    ASSUME NEW g, IsGraph(g), NEW d \in Parses(g), NEW flow \in Seq(Section(g)),
           NEW section \in Nat, NEW id \in childNodes(g), g[id].type = "command"
    PROVE  /\ CommandParsed(g, d, flow, id, section) \in Seq(Section(g))
           /\ Extends(flow, CommandParsed(g, d, flow, id, section))
<1>. DEFINE target == TargetOf(g[id].wires[1])
            next == IF target \in childNodes(g) THEN section + 1 ELSE 0
            s == getFormattedCommand(g, id, section, next)
            f == Append(flow, s)
<1>1. CommandParsed(g, d, flow, id, section) = Parsed(g, d, f, target, next)
  BY DEF CommandParsed
<1>2. next \in Nat
  OBVIOUS
<1>. HIDE DEF next
<1>3. s \in Section(g)
  BY <1>2, ChildNodes DEF Section, getFormattedCommand
<1>. HIDE DEF s
<1>4. f \in Seq(Section(g)) /\ Extends(flow, f)
  BY <1>3, Appended
<1>. HIDE DEF f, target
<1>5. Parsed(g, d, f, target, next) \in Seq(Section(g)) /\ Extends(f, Parsed(g, d, f, target, next))
  BY <1>2, <1>4, ParsedTyped
<1>. QED BY <1>1, <1>4, <1>5, ExtendsOnAndOn

LEMMA IfTyped ==
    ASSUME NEW g, IsGraph(g), NEW d \in Parses(g), NEW flow \in Seq(Section(g)),
           NEW section \in Nat, NEW id \in childNodes(g), g[id].type = "if"
    PROVE  /\ IfParsed(g, d, flow, id, section) \in Seq(Section(g))
           /\ Extends(flow, IfParsed(g, d, flow, id, section))
<1>. DEFINE leg(i) == TargetOf(g[id].wires[i])
            ifTrue == IF leg(1) = None THEN 0 ELSE section + 1
            flow1 == Parsed(g, d, flow, leg(1), ifTrue)
            ifFalse == IF leg(2) = None THEN 0
                       ELSE IF leg(1) = None THEN section + 1
                       ELSE getMaxSectionNumber(flow1) + 1
            flow2 == Parsed(g, d, flow1, leg(2), ifFalse)
            s == getFormattedIf(g, id, section, ifTrue, ifFalse)
<1>1. IfParsed(g, d, flow, id, section) = Append(flow2, s)
  BY DEF IfParsed
<1>2. ifTrue \in Nat
  OBVIOUS
<1>. HIDE DEF ifTrue, leg
<1>3. flow1 \in Seq(Section(g)) /\ Extends(flow, flow1)
  BY <1>2, ParsedTyped
<1>. HIDE DEF flow1
<1>4. ifFalse \in Nat
  <2>1. getMaxSectionNumber(flow1) \in Nat
    BY <1>3, MaxSection
  <2>. QED BY <2>1
<1>. HIDE DEF ifFalse
<1>5. flow2 \in Seq(Section(g)) /\ Extends(flow1, flow2)
  BY <1>3, <1>4, ParsedTyped
<1>. HIDE DEF flow2
<1>6. s \in Section(g)
  BY <1>2, <1>4, ChildNodes DEF Section, getFormattedIf
<1>. HIDE DEF s
<1>7. Append(flow2, s) \in Seq(Section(g)) /\ Extends(flow2, Append(flow2, s))
  BY <1>5, <1>6, Appended
<1>8. Extends(flow, flow2)
  BY <1>3, <1>5, ExtendsOnAndOn
<1>. QED BY <1>1, <1>5, <1>7, <1>8, ExtendsOnAndOn

(* What a call returns, from what the calls one deeper return. *)
CallParsed(g, d, call) ==
    IF g[call.id].type = "command" THEN CommandParsed(g, d, call.flow, call.id, call.section)
                                   ELSE IfParsed(g, d, call.flow, call.id, call.section)

(* parseNodesImpl is what its definition says.                              *)
LEMMA ImplIs ==
    ASSUME NEW g, IsGraph(g), NEW n \in 0 .. Cardinality(DOMAIN g)
    PROVE  /\ parseNodesImpl(g)[n] \in Parses(g)
           /\ \A call \in ParseCall(g) :
                 parseNodesImpl(g)[n][call] =
                    IF n = 0 THEN call.flow ELSE CallParsed(g, parseNodesImpl(g)[n - 1], call)
<1>. DEFINE N == Cardinality(DOMAIN g)
            D == Parses(g)
            base == [call \in ParseCall(g) |-> call.flow]
            G == [d \in D |-> [call \in ParseCall(g) |-> CallParsed(g, d, call)]]
            Value(h, i) == [call \in ParseCall(g) |-> IF i = 0 THEN call.flow ELSE CallParsed(g, h[i - 1], call)]
<1>1. N \in Nat
  BY FS_CardinalityType DEF IsGraph
<1>. HIDE DEF N
<1>2. [call \in ParseCall(g) |-> call.flow] \in D
  <2>1. \A call \in ParseCall(g) : call.flow \in Seq(Section(g)) /\ Len(call.flow) \in Nat
    BY DEF ParseCall
  <2>. QED BY <2>1 DEF Parses, Extends
<1>3. ASSUME NEW d \in D PROVE [call \in ParseCall(g) |-> CallParsed(g, d, call)] \in D
  <2>1. ASSUME NEW call \in ParseCall(g)
        PROVE  CallParsed(g, d, call) \in Seq(Section(g)) /\ Extends(call.flow, CallParsed(g, d, call))
    <3>1. call.flow \in Seq(Section(g)) /\ call.id \in childNodes(g) /\ call.section \in Nat
      BY DEF ParseCall
    <3>2. g[call.id].type # "command" => g[call.id].type = "if"
      BY <3>1, ChildNodes
    <3>. QED BY <3>1, <3>2, CommandTyped, IfTyped DEF CallParsed
  <2>. QED BY <2>1 DEF Parses
<1>4. \A d \in D : \A call \in ParseCall(g) : G[d][call] = CallParsed(g, d, call)
  OBVIOUS
<1>5. \A call \in ParseCall(g) : base[call] = call.flow
  OBVIOUS
<1>51. G \in [D -> D] /\ base \in D
  BY <1>2, <1>3
<1>. HIDE DEF G, base
<1>6. PICK h : Recurs(h, N, D, base, G)
  <2>. HIDE DEF D
  <2>. QED BY <1>1, <1>51, Recursion, Zenon
<1>7. h \in [0 .. N -> D]
  BY <1>6 DEF Recurs
<1>8. ASSUME NEW i \in 0 .. N PROVE h[i] = Value(h, i)
  <2>1. h[i] \in [ParseCall(g) -> Seq(Section(g))]
    BY <1>7 DEF Parses
  <2>2. ASSUME NEW call \in ParseCall(g)
        PROVE  h[i][call] = IF i = 0 THEN call.flow ELSE CallParsed(g, h[i - 1], call)
    <3>1. CASE i = 0
      BY <1>5, <1>6, <3>1 DEF Recurs
    <3>2. CASE i # 0
      <4>1. i - 1 \in 0 .. N
        BY <1>1, <3>2
      <4>2. h[i - 1] \in D
        BY <1>7, <4>1
      <4>3. h[i] = G[h[i - 1]]
        BY <1>6, <3>2 DEF Recurs
      <4>. QED BY <1>4, <3>2, <4>2, <4>3
    <3>. QED BY <3>1, <3>2
  <2>3. h[i] = [call \in ParseCall(g) |-> h[i][call]]
    BY <2>1
  <2>. QED BY <2>2, <2>3
<1>9. h = [i \in 0 .. N |-> h[i]]
  BY <1>7
<1>10. h = [i \in 0 .. N |-> Value(h, i)]
  BY <1>8, <1>9
<1>11. parseNodesImpl(g) = CHOOSE k : k = [i \in 0 .. N |-> Value(k, i)]
  BY DEF parseNodesImpl, N, CallParsed
<1>. DEFINE impl == parseNodesImpl(g)
<1>12. impl = [i \in 0 .. N |-> Value(impl, i)]
  <2>. HIDE DEF Value
  <2>. QED BY <1>10, <1>11
<1>13. \A i \in 0 .. N : impl[i] = Value(impl, i)
  <2>. HIDE DEF Value, impl
  <2>. QED BY <1>12
<1>. HIDE DEF impl
<1>14. impl[0] \in D
  <2>1. 0 \in 0 .. N
    BY <1>1
  <2>2. impl[0] = [call \in ParseCall(g) |-> call.flow]
    BY <1>13, <2>1
  <2>. QED BY <1>2, <2>2
<1>15. ASSUME NEW i \in 0 .. N, i < N, impl[i] \in D PROVE impl[i + 1] \in D
  <2>1. i + 1 \in 0 .. N /\ i + 1 # 0 /\ (i + 1) - 1 = i
    BY <1>1, <1>15
  <2>2. impl[i + 1] = [call \in ParseCall(g) |-> CallParsed(g, impl[i], call)]
    BY <1>13, <2>1
  <2>. QED BY <1>3, <1>15, <2>2
<1>16. n \in 0 .. N /\ impl[n] \in D
  <2>. DEFINE S == {i \in 0 .. N : impl[i] \in D}
  <2>1. S \in SUBSET Nat /\ 0 \in S
    BY <1>1, <1>14
  <2>2. ASSUME NEW i \in S, i < N PROVE i + 1 \in S
    BY <1>1, <1>15, <2>2
  <2>. HIDE DEF S
  <2>3. 0 .. N \subseteq S
    BY <1>1, <2>1, <2>2, Counting
  <2>4. n \in 0 .. N
    BY DEF N
  <2>. QED BY <2>3, <2>4 DEF S
<1>17. \A call \in ParseCall(g) :
          impl[n][call] = IF n = 0 THEN call.flow ELSE CallParsed(g, impl[n - 1], call)
  BY <1>13, <1>16
<1>. QED BY <1>16, <1>17 DEF impl
-----------------------------------------------------------------------------
(* The flows that are written.                                              *)

(* The first section of an event's flow. *)
EventSection(g, id) ==
    [node |-> id, type |-> "event", module |-> g[id].module, section_number |-> 0, next |-> <<1>>]

LEMMA EventTyped ==
    ASSUME NEW g, NEW id \in eventNodes(g)
    PROVE  <<EventSection(g, id)>> \in Seq(Section(g)) /\ <<EventSection(g, id)>>[1] = EventSection(g, id)
<1>. DEFINE s == EventSection(g, id)
<1>1. s \in Section(g)
  BY DEF EventSection, Section, eventNodes
<1>. HIDE DEF s
<1>. QED BY <1>1 DEF s

LEMMA ParsedFlow ==
    ASSUME NEW g, IsGraph(g), NEW id \in eventNodes(g)
    PROVE  /\ parseNodes(g, id) \in Seq(Section(g))
           /\ Len(parseNodes(g, id)) >= 1
           /\ parseNodes(g, id)[1] = EventSection(g, id)
<1>. DEFINE N == Cardinality(DOMAIN g)
            s == EventSection(g, id)
            d == parseNodesImpl(g)[N]
            flow == Parsed(g, d, <<s>>, TargetOf(g[id].wires[1]), 1)
<1>1. N \in Nat /\ N \in 0 .. N
  BY FS_CardinalityType DEF IsGraph
<1>2. d \in Parses(g)
  BY <1>1, ImplIs
<1>3. parseNodes(g, id) = flow
  BY DEF parseNodes, EventSection
<1>. HIDE DEF d, s
<1>4. <<s>> \in Seq(Section(g)) /\ <<s>>[1] = s /\ Len(<<s>>) = 1
  BY EventTyped DEF s
<1>5. flow \in Seq(Section(g)) /\ Extends(<<s>>, flow)
  BY <1>2, <1>4, ParsedTyped
<1>. HIDE DEF flow
<1>6. flow[1] = s /\ Len(flow) >= 1
  BY <1>4, <1>5 DEF Extends
<1>. QED BY <1>3, <1>5, <1>6 DEF s

(* What is in a flow that Node-RED writes, whatever the graph.              *)
LEMMA FlowFacts ==
    ASSUME NEW g, IsGraph(g), NEW flow \in parseFlows(g)
    PROVE  /\ flow \in Seq(Section(g)) /\ Len(flow) > 1 /\ isFlowValid(flow)
           /\ flow[1].node \in eventNodes(g)
           /\ flow = parseNodes(g, flow[1].node)
           /\ flow[1] = EventSection(g, flow[1].node)
           /\ \A id \in eventNodes(g) : ~Circular(g, id)
<1>1. /\ flow \in {f \in {parseNodes(g, id) : id \in eventNodes(g)} : Len(f) > 1} /\ isFlowValid(flow)
      /\ \A id \in eventNodes(g) : ~Circular(g, id)
  BY DEF parseFlows
<1>2. PICK id \in eventNodes(g) : flow = parseNodes(g, id)
  BY <1>1
<1>3. flow[1] = EventSection(g, id) /\ flow \in Seq(Section(g))
  BY <1>2, ParsedFlow
<1>4. flow[1].node = id
  BY <1>3 DEF EventSection
<1>. QED BY <1>1, <1>2, <1>3, <1>4

(* In a flow that is valid no two sections have the same number: there are  *)
(* as many numbers as sections.                                             *)
LEMMA NumbersOnce ==
    ASSUME NEW g, NEW flow \in Seq(Section(g)), isFlowValid(flow),
           NEW i \in 1 .. Len(flow), NEW j \in 1 .. Len(flow),
           flow[i].section_number = flow[j].section_number
    PROVE  i = j
<1>. DEFINE L == Len(flow)
            S == 1 .. L
            T == 0 .. L - 1
            F == [k \in S |-> flow[k].section_number]
<1>1. L \in Nat /\ DOMAIN flow = S
  OBVIOUS
<1>2. IsFiniteSet(S) /\ Cardinality(S) = L /\ Cardinality(T) = L
  <2>1. IsFiniteSet(S) /\ Cardinality(S) = IF 1 > L THEN 0 ELSE L - 1 + 1
    BY <1>1, FS_Interval, 1 \in Int, L \in Int
  <2>2. Cardinality(T) = IF 0 > L - 1 THEN 0 ELSE (L - 1) - 0 + 1
    BY <1>1, FS_Interval, 0 \in Int, L - 1 \in Int
  <2>. HIDE DEF S, T
  <2>. QED BY <1>1, <2>1, <2>2
<1>3. \A x : x \in T <=> \E k \in S : x = flow[k].section_number
  BY <1>1 DEF isFlowValid, ToSet
<1>4. F \in Surjection(S, T)
  <2>1. \A k \in S : F[k] = flow[k].section_number
    OBVIOUS
  <2>2. F \in [S -> T]
    BY <1>3
  <2>. HIDE DEF F, S, T
  <2>. QED BY <1>3, <2>1, <2>2 DEF Surjection
<1>5. F[i] = F[j] /\ i \in S /\ j \in S
  OBVIOUS
<1>. HIDE DEF F, S, T
<1>6. F \in Injection(S, T)
  BY <1>2, <1>4, FS_SurjSameCardinalityImpliesInj
<1>. QED BY <1>5, <1>6 DEF Injection, IsInjective
-----------------------------------------------------------------------------
(* The graph is one, and its flows are what the compiler makes of it.       *)
Compiled == nodes \in Graph /\ flows = parseFlows(nodes)

LEMMA InGraph ==
    ASSUME FlowAssumption, Compiled
    PROVE  /\ IsGraph(nodes) /\ \A id \in DOMAIN nodes : nodes[id].module \in Module
           /\ None \notin DOMAIN nodes
BY DEF FlowAssumption, Compiled, IsGraph

(* An event has one flow, and a number stands for one section of it.        *)
LEMMA OneSection ==
    ASSUME FlowAssumption, Compiled, NEW id, NEW s \in SectionsOf(id), NEW t \in SectionsOf(id),
           s.section_number = t.section_number
    PROVE  s = t
<1>1. IsGraph(nodes) /\ flows = parseFlows(nodes)
  BY InGraph DEF Compiled
<1>2. PICK f \in flows : f[1].node = id /\ s \in ToSet(f)
  BY DEF SectionsOf
<1>3. PICK h \in flows : h[1].node = id /\ t \in ToSet(h)
  BY DEF SectionsOf
<1>4. f = h /\ f \in Seq(Section(nodes)) /\ isFlowValid(f)
  BY <1>1, <1>2, <1>3, FlowFacts
<1>5. DOMAIN f = 1 .. Len(f)
  BY <1>4
<1>6. PICK i \in 1 .. Len(f), j \in 1 .. Len(f) : s = f[i] /\ t = f[j]
  BY <1>2, <1>3, <1>4, <1>5 DEF ToSet
<1>7. i = j
  BY <1>4, <1>6, NumbersOnce
<1>. QED BY <1>6, <1>7

LEMMA OneHome ==
    ASSUME FlowAssumption, Compiled, NEW id, NEW section, NEW m, NEW k,
           is_child_event_for_me(m, id, section), is_child_event_for_me(k, id, section)
    PROVE  m = k
<1>1. PICK s \in ChildEvents(m, id) : s.section_number = section
  BY DEF is_child_event_for_me
<1>2. PICK t \in ChildEvents(k, id) : t.section_number = section
  BY DEF is_child_event_for_me
<1>3. s \in SectionsOf(id) /\ t \in SectionsOf(id) /\ s.module = m /\ t.module = k
  BY DEF ChildEvents
<1>4. s = t
  BY <1>1, <1>2, <1>3, OneSection
<1>. QED BY <1>3, <1>4
-----------------------------------------------------------------------------
(* The types of what modules hand on.                                       *)

(* What run goes on at place i of a module: at 0 the one it runs. *)
PartAt(m, i) == IF i = 0 THEN running[m] ELSE inbox[m][i]

LEMMA SectionsTyped ==
    ASSUME FlowAssumption, Compiled, NEW id, NEW s \in SectionsOf(id)
    PROVE  /\ s.node \in DOMAIN nodes /\ s.section_number \in Nat
           /\ DOMAIN s.next \subseteq {1, 2} /\ \A leg \in DOMAIN s.next : s.next[leg] \in Nat
<1>1. PICK f \in flows : s \in ToSet(f)
  BY DEF SectionsOf
<1>2. f \in Seq(Section(nodes))
  BY <1>1, InGraph, FlowFacts DEF Compiled
<1>3. PICK i \in 1 .. Len(f) : s = f[i]
  BY <1>1, <1>2 DEF ToSet
<1>4. s \in Section(nodes)
  BY <1>2, <1>3, ElementOfSeq
<1>5. s.next \in [1 .. 1 -> Nat] \cup [1 .. 2 -> Nat]
  BY <1>4, SectionFields
<1>. QED BY <1>4, <1>5, SectionFields

LEMMA EventsTyped ==
    ASSUME FlowAssumption, Compiled, NEW flow \in flows
    PROVE  flow[1].node \in DOMAIN nodes /\ nodes[flow[1].node].type = "event"
BY InGraph, FlowFacts DEF Compiled, eventNodes

LEMMA GoOnTyped ==
    ASSUME NEW P, NEW Q, P \subseteq Q, NEW m \in Module, NEW part \in Q,
           running \in [Module -> P \cup {Idle}], inbox \in [Module -> Seq(P)], GoOn(m, part)
    PROVE  /\ running' \in [Module -> Q \cup {Idle}]
           /\ inbox' \in [Module -> Seq(Q)]
           /\ lost' \subseteq lost \cup {part.run}
<1>1. running' \in [Module -> Q \cup {Idle}]
  BY DEF GoOn
<1>2. \A k \in Module : inbox[k] \in Seq(Q) /\ Append(inbox[k], part) \in Seq(Q)
  <2>1. \A k \in Module : inbox[k] \in Seq(Q)
    <3>1. ASSUME NEW k \in Module PROVE inbox[k] \in Seq(Q)
      <4>1. inbox[k] \in Seq(P)
        OBVIOUS
      <4>. QED BY <4>1, SeqMonotonic
    <3>. QED BY <3>1
  <2>. QED BY <2>1, AppendProperties
<1>3. CASE UNCHANGED <<inbox, lost>>
  <2>1. inbox \in [Module -> Seq(Q)]
    BY <1>2
  <2>. QED BY <1>1, <1>3, <2>1
<1>4. CASE Broadcast(m, part)
  <2>1. PICK got \in SUBSET (Module \ {m}) :
          /\ inbox' = [k \in Module |-> IF k \in got THEN Append(inbox[k], part) ELSE inbox[k]]
          /\ lost' = IF got = Module \ {m} THEN lost ELSE lost \cup {part.run}
    BY <1>4 DEF Broadcast
  <2>2. inbox' \in [Module -> Seq(Q)]
    BY <1>2, <2>1
  <2>. QED BY <1>1, <2>1, <2>2
<1>. QED BY <1>3, <1>4 DEF GoOn

LEMMA FlowTypeStep ==
    ASSUME FlowAssumption, Compiled, FlowTypeOK, FlowNext
    PROVE  FlowTypeOK'
<1>. DEFINE Event == {id \in DOMAIN nodes : nodes[id].type = "event"}
            Steps == [node : DOMAIN nodes, leg : {1, 2}]
<1>. USE DEF FlowTypeOK
<1>1. nodes' = nodes /\ Part' = [flow : Event, section : Nat, run : DOMAIN at']
  <2>1. nodes' = nodes
    BY DEF FlowNext, check_main_events, run_child_event, ReadFrame
  <2>. QED BY <2>1 DEF Part
<1>2. Part = [flow : Event, section : Nat, run : DOMAIN at]
  BY DEF Part
<1>3. MaxRuns \in Nat /\ Len(at) \in Nat /\ DOMAIN at = 1 .. Len(at) /\ at \in Seq(Steps)
  BY DEF FlowAssumption
<1>. HIDE DEF Steps
<1>4. ASSUME NEW m \in Module, check_main_events(m) PROVE FlowTypeOK'
  <2>1. PICK flow \in flows :
          /\ Len(at) < MaxRuns
          /\ at' = Append(at, Step(flow[1].node, 1))
          /\ GoOn(m, [flow |-> flow[1].node, section |-> 1, run |-> Len(at) + 1])
    BY <1>4 DEF check_main_events
  <2>. DEFINE part == [flow |-> flow[1].node, section |-> 1, run |-> Len(at) + 1]
  <2>2. flow[1].node \in Event /\ Step(flow[1].node, 1) \in Steps
    BY EventsTyped DEF Step, Steps
  <2>3. at' \in Seq(Steps) /\ Len(at') = Len(at) + 1 /\ DOMAIN at' = 1 .. Len(at) + 1
    BY <1>3, <2>1, <2>2, AppendProperties
  <2>4. Len(at') <= MaxRuns /\ DOMAIN at \subseteq DOMAIN at' /\ Len(at) + 1 \in DOMAIN at'
    BY <1>3, <2>1, <2>3
  <2>5. part \in Part' /\ Part \subseteq Part' /\ part.run = Len(at) + 1
    BY <1>1, <1>2, <2>2, <2>4
  <2>6. GoOn(m, part)
    BY <2>1
  <2>. HIDE DEF part
  <2>7. /\ running' \in [Module -> Part' \cup {Idle}] /\ inbox' \in [Module -> Seq(Part')]
        /\ lost' \subseteq lost \cup {Len(at) + 1}
    BY <2>5, <2>6, GoOnTyped
  <2>8. lost' \subseteq DOMAIN at' /\ refused' \subseteq (DOMAIN at') \X Module
    <3>1. refused' = refused
      BY <1>4 DEF check_main_events
    <3>. QED BY <2>4, <2>7, <3>1
  <2>. QED BY <1>1, <2>3, <2>4, <2>7, <2>8 DEF Steps, Idle
<1>5. ASSUME NEW m \in Module, run_child_event(m) PROVE FlowTypeOK'
  <2>1. PICK s \in ChildEvents(m, running[m].flow) : \E leg \in DOMAIN s.next :
          /\ at' = [at EXCEPT ![running[m].run] = Step(s.node, leg)]
          /\ GoOn(m, [running[m] EXCEPT !.section = s.next[leg]])
    BY <1>5 DEF run_child_event
  <2>2. PICK leg \in DOMAIN s.next :
          /\ at' = [at EXCEPT ![running[m].run] = Step(s.node, leg)]
          /\ GoOn(m, [running[m] EXCEPT !.section = s.next[leg]])
    BY <2>1
  <2>. DEFINE part == [running[m] EXCEPT !.section = s.next[leg]]
  <2>3. running[m] \in Part
    BY <1>5 DEF run_child_event
  <2>4. s.node \in DOMAIN nodes /\ leg \in {1, 2} /\ s.next[leg] \in Nat
    BY SectionsTyped DEF ChildEvents
  <2>5. part \in Part /\ part.run = running[m].run /\ running[m].run \in DOMAIN at
    BY <1>2, <2>3, <2>4
  <2>6. Step(s.node, leg) \in Steps
    BY <2>4 DEF Step, Steps
  <2>7. at' \in Seq(Steps) /\ Len(at') = Len(at) /\ DOMAIN at' = DOMAIN at
    BY <1>3, <2>2, <2>5, <2>6, ExceptSeq
  <2>8. Part' = Part
    BY <1>1, <1>2, <2>7
  <2>9. GoOn(m, part)
    BY <2>2
  <2>. HIDE DEF part
  <2>10. /\ running' \in [Module -> Part \cup {Idle}] /\ inbox' \in [Module -> Seq(Part)]
         /\ lost' \subseteq lost \cup {part.run}
    BY <2>5, <2>9, GoOnTyped
  <2>11. refused' \subseteq (DOMAIN at') \X Module
    BY <1>5, <2>7 DEF run_child_event
  <2>. QED BY <1>1, <1>3, <2>5, <2>7, <2>8, <2>10, <2>11 DEF Steps, Idle
<1>6. ASSUME NEW m \in Module, ReadFrame(m) PROVE FlowTypeOK'
  <2>1. at' = at /\ lost' = lost /\ Part' = Part
    BY <1>1, <1>2, <1>6 DEF ReadFrame
  <2>2. inbox[m] \in Seq(Part) /\ inbox[m] # <<>>
    BY <1>6 DEF ReadFrame
  <2>3. Head(inbox[m]) \in Part /\ Tail(inbox[m]) \in Seq(Part)
    BY <2>2
  <2>4. running' \in [Module -> Part \cup {Idle}]
    BY <1>6, <2>3 DEF ReadFrame
  <2>5. inbox' \in [Module -> Seq(Part)]
    BY <1>6, <2>3 DEF ReadFrame
  <2>6. refused' \subseteq (DOMAIN at') \X Module
    <3>. DEFINE part == Head(inbox[m])
    <3>1. part.run \in DOMAIN at
      BY <1>2, <2>3
    <3>2. refused' \subseteq refused \cup {<<part.run, m>>}
      BY <1>6 DEF ReadFrame
    <3>. HIDE DEF part
    <3>. QED BY <2>1, <3>1, <3>2
  <2>. QED BY <1>1, <2>1, <2>4, <2>5, <2>6 DEF Idle
<1>. QED BY <1>4, <1>5, <1>6 DEF FlowNext
-----------------------------------------------------------------------------
(* Where a run is.                                                          *)

LEMMA HasNext ==
    ASSUME flows' = flows, NEW k, NEW i, NEW r
    PROVE  Has(k, i, r)' <=> LET part == PartAt(k, i)'
                             IN  /\ part.run = r
                                 /\ i # 0 => is_child_event_for_me(k, part.flow, part.section)
BY DEF Has, PartAt, is_child_event_for_me, ChildEvents, SectionsOf

LEMMA HasNow ==
    ASSUME NEW k, NEW i, NEW r
    PROVE  Has(k, i, r) <=> LET part == PartAt(k, i)
                            IN  /\ part.run = r
                                /\ i # 0 => is_child_event_for_me(k, part.flow, part.section)
BY DEF Has, PartAt

(* When module m goes on, what is at the other places stays there, and the  *)
(* part that m goes on with is at one new place at most that counts.        *)
LEMMA GoOnPlaces ==
    ASSUME FlowTypeOK, UNCHANGED <<nodes, flows>>, NEW m \in Module, NEW part, GoOn(m, part),
           NEW k \in Module, NEW i \in 0 .. Len(inbox'[k]), NEW r \in Nat \ {0}, Has(k, i, r)'
    PROVE  \/ /\ ~(k = m /\ i = 0) /\ i \in 0 .. Len(inbox[k])
              /\ Has(k, i, r) /\ PartAt(k, i)' = PartAt(k, i)
           \/ /\ r = part.run /\ PartAt(k, i)' = part /\ k = m /\ i = 0
              /\ is_child_event_for_me(m, part.flow, part.section)
           \/ /\ r = part.run /\ PartAt(k, i)' = part /\ k # m /\ i = Len(inbox[k]) + 1
              /\ is_child_event_for_me(k, part.flow, part.section)
              /\ ~is_child_event_for_me(m, part.flow, part.section)
<1>. DEFINE mine == is_child_event_for_me(m, part.flow, part.section)
            p == PartAt(k, i)'
<1>1. p.run = r /\ (i # 0 => is_child_event_for_me(k, p.flow, p.section))
  BY HasNext
<1>2. running \in [Module -> Part \cup {Idle}] /\ inbox \in [Module -> Seq(Part)]
  BY DEF FlowTypeOK
<1>3. Len(inbox[k]) \in Nat
  BY <1>2
<1>4. CASE i = 0
  <2>1. p = running'[k]
    BY <1>4 DEF PartAt
  <2>2. CASE k = m
    <3>1. p = IF mine THEN part ELSE Idle
      BY <1>2, <2>1, <2>2 DEF GoOn
    <3>2. mine
      BY <1>1, <3>1 DEF Idle
    <3>. QED BY <1>1, <1>4, <2>2, <3>1, <3>2
  <2>3. CASE k # m
    <3>1. p = running[k] /\ PartAt(k, i) = running[k]
      BY <1>2, <1>4, <2>1, <2>3 DEF GoOn, PartAt
    <3>2. i \in 0 .. Len(inbox[k])
      BY <1>3, <1>4
    <3>. QED BY <1>1, <1>4, <2>3, <3>1, <3>2, HasNow
  <2>. QED BY <2>2, <2>3
<1>5. CASE i # 0
  <2>1. p = inbox'[k][i] /\ PartAt(k, i) = inbox[k][i]
    BY <1>5 DEF PartAt
  <2>2. ASSUME inbox'[k] = inbox[k]
        PROVE  i \in 0 .. Len(inbox[k]) /\ Has(k, i, r) /\ p = PartAt(k, i)
    BY <1>1, <1>5, <2>1, <2>2, HasNow
  <2>3. CASE inbox'[k] = inbox[k]
    BY <1>5, <2>2, <2>3
  <2>4. CASE inbox'[k] # inbox[k]
    <3>1. Broadcast(m, part) /\ ~mine
      BY <2>4 DEF GoOn
    <3>2. PICK got \in SUBSET (Module \ {m}) :
            inbox' = [j \in Module |-> IF j \in got THEN Append(inbox[j], part) ELSE inbox[j]]
      BY <3>1 DEF Broadcast
    <3>3. inbox'[k] = Append(inbox[k], part) /\ k # m
      BY <2>4, <3>2
    <3>4. inbox[k] \in Seq(Part)
      BY <1>2
    <3>5. /\ Len(inbox'[k]) = Len(inbox[k]) + 1 /\ inbox'[k][Len(inbox[k]) + 1] = part
          /\ \A j \in 1 .. Len(inbox[k]) : inbox'[k][j] = inbox[k][j]
      BY <3>3, <3>4
    <3>6. i \in 1 .. Len(inbox[k]) \/ i = Len(inbox[k]) + 1
      BY <1>3, <1>5, <3>5
    <3>7. CASE i = Len(inbox[k]) + 1
      <4>1. p = part
        BY <2>1, <3>5, <3>7
      <4>. QED BY <1>1, <1>5, <3>1, <3>3, <3>7, <4>1
    <3>8. CASE i \in 1 .. Len(inbox[k])
      <4>1. p = PartAt(k, i) /\ i \in 0 .. Len(inbox[k])
        BY <1>3, <2>1, <3>5, <3>8
      <4>. QED BY <1>1, <1>5, <4>1, HasNow
    <3>. QED BY <3>6, <3>7, <3>8
  <2>. QED BY <2>3, <2>4
<1>. QED BY <1>4, <1>5

(* A frame that is read moves to the place where the module runs it.        *)
LEMMA ReadPlaces ==
    ASSUME FlowTypeOK, NEW m \in Module, ReadFrame(m),
           NEW k \in Module, NEW i \in 0 .. Len(inbox'[k]), NEW r \in Nat \ {0}, Has(k, i, r)'
    PROVE  LET was == IF k = m THEN i + 1 ELSE i
           IN  /\ was \in 0 .. Len(inbox[k]) /\ Has(k, was, r) /\ PartAt(k, i)' = PartAt(k, was)
               /\ (k = m /\ i = 0) => is_child_event_for_me(m, running'[m].flow, running'[m].section)
<1>. DEFINE p == PartAt(k, i)'
            was == IF k = m THEN i + 1 ELSE i
<1>0. flows' = flows
  BY DEF ReadFrame
<1>1. p.run = r /\ (i # 0 => is_child_event_for_me(k, p.flow, p.section))
  BY <1>0, HasNext
<1>2. running \in [Module -> Part \cup {Idle}] /\ inbox \in [Module -> Seq(Part)]
  BY DEF FlowTypeOK
<1>3. inbox[k] \in Seq(Part) /\ Len(inbox[k]) \in Nat
  BY <1>2
<1>4. CASE k # m
  <2>1. running'[k] = running[k] /\ inbox'[k] = inbox[k]
    BY <1>2, <1>4 DEF ReadFrame
  <2>. QED BY <1>1, <1>4, <2>1, HasNow DEF PartAt
<1>5. CASE k = m
  <2>1. inbox'[m] = Tail(inbox[m]) /\ inbox[m] # <<>>
    BY <1>2 DEF ReadFrame
  <2>2. /\ Len(inbox'[m]) = Len(inbox[m]) - 1
        /\ \A j \in 1 .. Len(inbox'[m]) : inbox'[m][j] = inbox[m][j + 1]
        /\ Head(inbox[m]) = inbox[m][1]
    BY <1>3, <1>5, <2>1
  <2>3. was = i + 1 /\ was # 0 /\ was \in 0 .. Len(inbox[k])
    BY <1>3, <1>5, <2>2
  <2>4. CASE i = 0
    <3>. DEFINE part == Head(inbox[m])
    <3>1. running'[m] = part \/ running'[m] = Idle
      BY <1>2 DEF ReadFrame
    <3>2. p = running'[m]
      BY <1>5, <2>4 DEF PartAt
    <3>3. p # Idle
      BY <1>1, <3>2 DEF Idle
    <3>4. is_child_event_for_me(m, part.flow, part.section) /\ p = part
      BY <1>2, <3>1, <3>2, <3>3 DEF ReadFrame
    <3>5. PartAt(k, was) = part
      BY <1>5, <2>2, <2>3, <2>4 DEF PartAt
    <3>. QED BY <1>1, <1>5, <2>3, <3>2, <3>4, <3>5, HasNow
  <2>5. CASE i # 0
    <3>1. i \in 1 .. Len(inbox'[m])
      BY <1>5, <2>5
    <3>2. p = PartAt(k, was)
      BY <1>5, <2>2, <2>3, <2>5, <3>1 DEF PartAt
    <3>. QED BY <1>1, <1>5, <2>3, <2>5, <3>2, HasNow
  <2>. QED BY <2>4, <2>5
<1>. QED BY <1>4, <1>5
(* Nobody has a run that has not begun. *)
LEMMA RunsBegun ==
    ASSUME FlowTypeOK, NEW k \in Module, NEW i \in 0 .. Len(inbox[k]), NEW r \in Nat \ {0},
           Has(k, i, r)
    PROVE  r \in DOMAIN at /\ PartAt(k, i) \in Part
<1>1. PartAt(k, i).run = r
  BY HasNow
<1>2. CASE i = 0
  <2>1. PartAt(k, i) = running[k] /\ running[k] \in Part \cup {Idle}
    BY <1>2 DEF PartAt, FlowTypeOK
  <2>2. running[k] \in Part
    BY <1>1, <2>1 DEF Idle
  <2>. QED BY <1>1, <2>1, <2>2 DEF Part
<1>3. CASE i # 0
  <2>1. inbox[k] \in Seq(Part) /\ i \in 1 .. Len(inbox[k])
    BY <1>3 DEF FlowTypeOK
  <2>2. inbox[k][i] \in Part
    BY <2>1, ElementOfSeq
  <2>. QED BY <1>1, <1>3, <2>2 DEF Part, PartAt
<1>. QED BY <1>2, <1>3
-----------------------------------------------------------------------------
(* What the compiler makes of a graph that is in order.                     *)

(* The numbers of section s lead along the wires of its node, to sections of f from first on. *)
Leads(g, f, first, s) ==
    /\ s.node \in childNodes(g) /\ s.module = g[s.node].module /\ s.type # "event"
    /\ DOMAIN s.next = DOMAIN g[s.node].wires
    /\ \A leg \in DOMAIN s.next :
          IF Wired(g, s.node, leg) = None THEN s.next[leg] = 0
          ELSE \E j \in first .. Len(f) :
                  f[j].node = Wired(g, s.node, leg) /\ f[j].section_number = s.next[leg]

(* f is flow and, if there is such a node, what parsing id adds to it:      *)
(* sections with the numbers from section on, node id with the first.       *)
WellParsed(g, flow, f, id, section) ==
    LET first == Len(flow) + 1
        numbers == section .. section + (Len(f) - Len(flow)) - 1
    IN  /\ Extends(flow, f)
        /\ \A i \in first .. Len(f) : f[i].section_number \in numbers
        /\ \A n \in numbers : \E i \in first .. Len(f) : f[i].section_number = n
        /\ id \in childNodes(g) =>
              \E i \in first .. Len(f) : f[i].node = id /\ f[i].section_number = section
        /\ \A i \in first .. Len(f) : Leads(g, f, first, f[i])

Below(flow, section) == \A i \in 1 .. Len(flow) : flow[i].section_number < section

(* Calls for the nodes in ids parse them well. *)
ParsesWell(g, d, ids) ==
    \A call \in ParseCall(g) :
        call.id \in ids /\ Below(call.flow, call.section)
        => WellParsed(g, call.flow, d[call], call.id, call.section)

LEMMA LeadsOn ==
    ASSUME NEW g, NEW e \in Seq(Section(g)), NEW h \in Seq(Section(g)), NEW s,
           NEW first \in Nat \ {0}, NEW from \in Nat \ {0}, from <= first,
           Leads(g, e, first, s), Extends(e, h)
    PROVE  Leads(g, h, from, s)
<1>1. Len(e) \in Nat /\ Len(h) \in Nat
  OBVIOUS
<1>2. \A j \in first .. Len(e) : j \in from .. Len(h) /\ h[j] = e[j]
  BY <1>1 DEF Extends
<1>. QED BY <1>2 DEF Leads

LEMMA NothingParsed ==
    ASSUME NEW g, NEW flow \in Seq(Section(g)), NEW id, id \notin childNodes(g), NEW section \in Nat
    PROVE  WellParsed(g, flow, flow, id, section)
<1>1. Len(flow) \in Nat
  OBVIOUS
<1>2. Extends(flow, flow)
  BY <1>1 DEF Extends
<1>. QED BY <1>1, <1>2 DEF WellParsed

(* The number after those that f adds to e, from n on. *)
After(e, f, n) == n + (Len(f) - Len(e))

(* First one leg, then the other. *)
LEMMA BothParsed ==
    ASSUME NEW g, NEW e \in Seq(Section(g)), NEW f \in Seq(Section(g)), NEW h \in Seq(Section(g)),
           NEW a, NEW b, NEW n \in Nat,
           WellParsed(g, e, f, a, n), WellParsed(g, f, h, b, After(e, f, n))
    PROVE  /\ WellParsed(g, e, h, a, n)
           /\ b \in childNodes(g) =>
                 \E i \in Len(e) + 1 .. Len(h) : h[i].node = b /\ h[i].section_number = After(e, f, n)
<1>. DEFINE k == After(e, f, n)
            LE == Len(e) LF == Len(f) LH == Len(h)
            first == LE + 1
            numbers == n .. n + (LH - LE) - 1
<1>1. LE \in Nat /\ LF \in Nat /\ LH \in Nat /\ LE <= LF /\ LF <= LH /\ Extends(e, f) /\ Extends(f, h)
  BY DEF WellParsed, Extends
<1>2. Extends(e, h)
  BY <1>1, ExtendsOnAndOn
<1>3. k = n + (LF - LE)
  BY DEF After
<1>. HIDE DEF k
<1>4. \A i \in 1 .. LF : h[i] = f[i]
  BY <1>1 DEF Extends
<1>5. /\ \A i \in LE + 1 .. LF : f[i].section_number \in n .. n + (LF - LE) - 1
      /\ \A x \in n .. n + (LF - LE) - 1 : \E i \in LE + 1 .. LF : f[i].section_number = x
      /\ a \in childNodes(g) =>
            \E i \in LE + 1 .. LF : f[i].node = a /\ f[i].section_number = n
      /\ \A i \in LE + 1 .. LF : Leads(g, f, LE + 1, f[i])
  BY DEF WellParsed
<1>6. /\ \A i \in LF + 1 .. LH : h[i].section_number \in k .. k + (LH - LF) - 1
      /\ \A x \in k .. k + (LH - LF) - 1 : \E i \in LF + 1 .. LH : h[i].section_number = x
      /\ b \in childNodes(g) =>
            \E i \in LF + 1 .. LH : h[i].node = b /\ h[i].section_number = k
      /\ \A i \in LF + 1 .. LH : Leads(g, h, LF + 1, h[i])
  BY DEF WellParsed, k
<1>. DEFINE Goal == /\ \A i \in first .. LH : h[i].section_number \in numbers
                    /\ \A x \in numbers : \E i \in first .. LH : h[i].section_number = x
                    /\ a \in childNodes(g) =>
                          \E i \in first .. LH : h[i].node = a /\ h[i].section_number = n
                    /\ \A i \in first .. LH : Leads(g, h, first, h[i])
<1>7. SUFFICES /\ Goal
               /\ b \in childNodes(g) =>
                     \E i \in first .. LH : h[i].node = b /\ h[i].section_number = k
  BY <1>2 DEF WellParsed, k
<1>. HIDE DEF LE, LF, LH
<1>8. \A i \in first .. LH : i \in LE + 1 .. LF \/ i \in LF + 1 .. LH
  BY <1>1
<1>9. \A i \in LE + 1 .. LF : i \in 1 .. LF /\ i \in first .. LH
  BY <1>1
<1>10. \A i \in LF + 1 .. LH : i \in first .. LH
  BY <1>1
<1>11. ASSUME NEW i \in first .. LH PROVE h[i].section_number \in numbers /\ Leads(g, h, first, h[i])
  <2>1. CASE i \in LE + 1 .. LF
    <3>1. h[i] = f[i] /\ f[i].section_number \in n .. n + (LF - LE) - 1
      BY <1>4, <1>5, <1>9, <2>1
    <3>2. f[i].section_number \in numbers
      <4>. DEFINE x == f[i].section_number
      <4>1. x \in n .. n + (LF - LE) - 1
        BY <3>1
      <4>. HIDE DEF x
      <4>2. x \in numbers
        BY <1>1, <4>1
      <4>. QED BY <4>2 DEF x
    <3>3. LE + 1 \in Nat \ {0} /\ LE + 1 <= LE + 1
      BY <1>1
    <3>4. Leads(g, h, first, f[i])
      BY <1>1, <1>5, <2>1, <3>3, LeadsOn
    <3>. QED BY <3>1, <3>2, <3>4
  <2>2. CASE i \in LF + 1 .. LH
    <3>. DEFINE x == h[i].section_number
    <3>1. x \in k .. k + (LH - LF) - 1
      BY <1>6, <2>2
    <3>. HIDE DEF x
    <3>2. x \in numbers
      BY <1>1, <1>3, <3>1
    <3>3. LE + 1 \in Nat \ {0} /\ LF + 1 \in Nat \ {0} /\ LE + 1 <= LF + 1 /\ Extends(h, h)
      BY <1>1 DEF Extends, LH
    <3>4. Leads(g, h, first, h[i])
      BY <1>6, <2>2, <3>3, LeadsOn
    <3>. QED BY <3>2, <3>4 DEF x
  <2>. QED BY <1>8, <2>1, <2>2
<1>12. ASSUME NEW x \in numbers PROVE \E i \in first .. LH : h[i].section_number = x
  <2>1. x \in n .. n + (LF - LE) - 1 \/ x \in k .. k + (LH - LF) - 1
    BY <1>1, <1>3
  <2>2. CASE x \in n .. n + (LF - LE) - 1
    <3>1. PICK i \in LE + 1 .. LF : f[i].section_number = x
      BY <1>5, <2>2
    <3>. QED BY <1>4, <1>9, <3>1
  <2>3. CASE x \in k .. k + (LH - LF) - 1
    <3>1. PICK i \in LF + 1 .. LH : h[i].section_number = x
      BY <1>6, <2>3
    <3>. QED BY <1>10, <3>1
  <2>. QED BY <2>1, <2>2, <2>3
<1>13. ASSUME a \in childNodes(g)
       PROVE  \E i \in first .. LH : h[i].node = a /\ h[i].section_number = n
  <2>1. PICK i \in LE + 1 .. LF : f[i].node = a /\ f[i].section_number = n
    BY <1>5, <1>13
  <2>. QED BY <1>4, <1>9, <2>1
<1>14. ASSUME b \in childNodes(g)
       PROVE  \E i \in first .. LH : h[i].node = b /\ h[i].section_number = k
  <2>1. PICK i \in LF + 1 .. LH : h[i].node = b /\ h[i].section_number = k
    BY <1>6, <1>14
  <2>. QED BY <1>10, <2>1
<1>15. Goal
  BY <1>11, <1>12, <1>13
<1>. QED BY <1>14, <1>15

(* The node's own section p is pushed before or after the others. *)
LEMMA Pushed ==
    ASSUME NEW g, NEW e \in Seq(Section(g)), NEW h \in Seq(Section(g)), Extends(e, h),
           NEW id, NEW n \in Nat, NEW p \in Len(e) + 1 .. Len(h),
           h[p].node = id, h[p].section_number = n,
           \A i \in Len(e) + 1 .. Len(h) : Leads(g, h, Len(e) + 1, h[i]),
           \A i \in Len(e) + 1 .. Len(h) :
               i # p => h[i].section_number \in n + 1 .. n + (Len(h) - Len(e)) - 1,
           \A x \in n + 1 .. n + (Len(h) - Len(e)) - 1 :
               \E i \in Len(e) + 1 .. Len(h) : h[i].section_number = x
    PROVE  WellParsed(g, e, h, id, n)
<1>. DEFINE LE == Len(e) LH == Len(h)
            first == LE + 1
            numbers == n .. n + (LH - LE) - 1
<1>1. LE \in Nat /\ LH \in Nat /\ LE < LH
  OBVIOUS
<1>2. ASSUME NEW i \in first .. LH PROVE h[i].section_number \in numbers
  <2>. DEFINE x == h[i].section_number
  <2>1. x = n \/ x \in n + 1 .. n + (LH - LE) - 1
    OBVIOUS
  <2>. HIDE DEF x, LE, LH
  <2>2. x \in numbers
    BY <1>1, <2>1
  <2>. QED BY <2>2 DEF x
<1>3. ASSUME NEW x \in numbers PROVE \E i \in first .. LH : h[i].section_number = x
  <2>1. x = n \/ x \in n + 1 .. n + (LH - LE) - 1
    <3>. HIDE DEF LE, LH
    <3>. QED BY <1>1
  <2>. QED BY <2>1
<1>. QED BY <1>2, <1>3 DEF WellParsed

LEMMA ParsedWell ==
    ASSUME NEW g, NEW d \in Parses(g), NEW ids, ParsesWell(g, d, ids),
           NEW flow \in Seq(Section(g)), NEW id, NEW section \in Nat, NEW number,
           id \in childNodes(g) => id \in ids /\ number = section /\ Below(flow, section)
    PROVE  WellParsed(g, flow, Parsed(g, d, flow, id, number), id, section)
<1>1. CASE id \in childNodes(g)
  <2>. DEFINE call == [flow |-> flow, id |-> id, section |-> section]
  <2>1. call \in ParseCall(g) /\ call.flow = flow /\ call.id = id /\ call.section = section
    BY <1>1 DEF ParseCall
  <2>2. Parsed(g, d, flow, id, number) = d[call]
    BY <1>1 DEF Parsed
  <2>. HIDE DEF call
  <2>3. WellParsed(g, call.flow, d[call], call.id, call.section)
    BY <1>1, <2>1 DEF ParsesWell
  <2>. QED BY <2>1, <2>2, <2>3
<1>2. CASE id \notin childNodes(g)
  <2>1. Parsed(g, d, flow, id, number) = flow
    BY <1>2 DEF Parsed
  <2>. QED BY <1>2, <2>1, NothingParsed
<1>. QED BY <1>1, <1>2

(* One step further, the numbers are still below. *)
LEMMA BelowNext ==
    ASSUME NEW g, NEW e \in Seq(Section(g)), NEW f \in Seq(Section(g)), NEW n \in Nat,
           Below(e, n), Extends(e, f), NEW k \in Nat, n <= k,
           \A i \in Len(e) + 1 .. Len(f) : f[i].section_number < k
    PROVE  Below(f, k)
<1>1. Len(e) \in Nat /\ Len(f) \in Nat
  OBVIOUS
<1>2. ASSUME NEW i \in 1 .. Len(f) PROVE f[i].section_number < k
  <2>1. CASE i \in Len(e) + 1 .. Len(f)
    BY <2>1
  <2>2. CASE i \notin Len(e) + 1 .. Len(f)
    <3>1. i \in 1 .. Len(e)
      BY <1>1, <2>2
    <3>2. f[i] = e[i] /\ e[i].section_number < n
      BY <3>1 DEF Extends, Below
    <3>3. e[i] \in Section(g)
      BY <3>1, ElementOfSeq
    <3>4. e[i].section_number \in Nat
      BY <3>3, SectionFields
    <3>. DEFINE x == e[i].section_number
    <3>. HIDE DEF x
    <3>5. x < n /\ x \in Nat
      BY <3>2, <3>4 DEF x
    <3>6. x < k
      BY <3>5
    <3>. QED BY <3>2, <3>6 DEF x
  <2>. QED BY <2>1, <2>2
<1>. QED BY <1>2 DEF Below

LEMMA CommandWell ==
    ASSUME NEW g, IsGraph(g), NEW d \in Parses(g), NEW ids, ParsesWell(g, d, ids),
           NEW flow \in Seq(Section(g)), NEW section \in Nat, Below(flow, section),
           NEW id \in childNodes(g), g[id].type = "command", LegsOf(g, id) \subseteq ids
    PROVE  WellParsed(g, flow, CommandParsed(g, d, flow, id, section), id, section)
<1>. DEFINE target == TargetOf(g[id].wires[1])
            next == IF target \in childNodes(g) THEN section + 1 ELSE 0
            s == getFormattedCommand(g, id, section, next)
            e == Append(flow, s)
            f == Parsed(g, d, e, target, next)
            L == Len(flow)
<1>1. CommandParsed(g, d, flow, id, section) = f
  BY DEF CommandParsed
<1>2. /\ Wired(g, id, 1) = IF target \in childNodes(g) THEN target ELSE None
      /\ target \in childNodes(g) => target # None /\ target \in ids /\ next = section + 1
      /\ target \notin childNodes(g) => next = 0
      /\ next \in Nat
  <2>1. Wired(g, id, 1) = IF target \in childNodes(g) THEN target ELSE None
    BY DEF Wired
  <2>2. DOMAIN g[id].wires = {1}
    BY ChildNodes
  <2>3. target \in childNodes(g) => target # None /\ target \in LegsOf(g, id)
    <3>. HIDE DEF target
    <3>. QED BY <2>1, <2>2, ChildNodes DEF LegsOf
  <2>. QED BY <2>1, <2>3
<1>. HIDE DEF target, next
<1>3. /\ s \in Section(g) /\ s.node = id /\ s.section_number = section /\ s.type # "event"
      /\ s.module = g[id].module /\ DOMAIN s.next = {1} /\ s.next[1] = next
  BY <1>2, ChildNodes DEF Section, getFormattedCommand
<1>. HIDE DEF s
<1>4. /\ e \in Seq(Section(g)) /\ Len(e) = L + 1 /\ e[L + 1] = s /\ Extends(flow, e) /\ L \in Nat
  BY <1>3, Appended
<1>5. Below(e, section + 1)
  <2>1. \A i \in L + 1 .. Len(e) : e[i].section_number < section + 1
    BY <1>3, <1>4
  <2>2. section + 1 \in Nat /\ section <= section + 1
    OBVIOUS
  <2>. HIDE DEF e
  <2>. QED BY <1>4, <2>1, <2>2, BelowNext
<1>. HIDE DEF e
<1>6. f \in Seq(Section(g)) /\ Extends(e, f) /\ Extends(flow, f)
  BY <1>2, <1>4, ParsedTyped, ExtendsOnAndOn
<1>7. WellParsed(g, e, f, target, section + 1)
  <2>1. section + 1 \in Nat
    OBVIOUS
  <2>2. target \in childNodes(g) => target \in ids /\ next = section + 1 /\ Below(e, section + 1)
    BY <1>2, <1>5
  <2>. QED BY <1>4, <2>1, <2>2, ParsedWell
<1>. HIDE DEF f
<1>. DEFINE LF == Len(f)
<1>8. LF \in Nat /\ L + 1 <= LF /\ L + 1 \in L + 1 .. LF
  BY <1>4, <1>6 DEF Extends
<1>9. f[L + 1] = s
  BY <1>4, <1>6, <1>8 DEF Extends
<1>10. /\ \A i \in L + 2 .. LF : f[i].section_number \in section + 1 .. (section + 1) + (LF - (L + 1)) - 1
       /\ \A n \in section + 1 .. (section + 1) + (LF - (L + 1)) - 1 :
             \E i \in L + 2 .. LF : f[i].section_number = n
       /\ target \in childNodes(g) =>
             \E i \in L + 2 .. LF : f[i].node = target /\ f[i].section_number = section + 1
       /\ \A i \in L + 2 .. LF : Leads(g, f, L + 2, f[i])
  <2>1. Len(e) + 1 = L + 2 /\ Len(e) = L + 1
    BY <1>4
  <2>. QED BY <1>7, <2>1 DEF WellParsed
<1>. HIDE DEF L, LF
<1>11. (section + 1) + (LF - (L + 1)) - 1 = section + (LF - L) - 1
  BY <1>4, <1>8
<1>12. \A i \in L + 1 .. LF : i = L + 1 \/ i \in L + 2 .. LF
  BY <1>4, <1>8
<1>13. \A i \in L + 2 .. LF : i \in L + 1 .. LF
  BY <1>4, <1>8
<1>14. Leads(g, f, L + 1, s)
  <2>1. ASSUME Wired(g, id, 1) # None
        PROVE  \E j \in L + 1 .. LF : f[j].node = Wired(g, id, 1) /\ f[j].section_number = next
    BY <1>2, <1>10, <1>13, <2>1
  <2>2. Wired(g, id, 1) = None => next = 0
    BY <1>2
  <2>. QED BY <1>3, <2>1, <2>2, ChildNodes DEF Leads, LF
<1>15. ASSUME NEW i \in L + 1 .. LF PROVE Leads(g, f, L + 1, f[i])
  <2>1. CASE i = L + 1
    BY <1>9, <1>14, <2>1
  <2>2. CASE i \in L + 2 .. LF
    <3>1. L + 1 \in Nat \ {0} /\ L + 2 \in Nat \ {0} /\ L + 1 <= L + 2 /\ Extends(f, f)
      BY <1>4, <1>8 DEF Extends, LF
    <3>. QED BY <1>6, <1>10, <2>2, <3>1, LeadsOn
  <2>. QED BY <1>12, <2>1, <2>2
<1>16. \A i \in L + 1 .. LF : i # L + 1 => f[i].section_number \in section + 1 .. section + (LF - L) - 1
  BY <1>10, <1>11, <1>12
<1>17. \A x \in section + 1 .. section + (LF - L) - 1 : \E i \in L + 1 .. LF : f[i].section_number = x
  BY <1>10, <1>11, <1>13
<1>18. f[L + 1].node = id /\ f[L + 1].section_number = section
  BY <1>3, <1>9
<1>. QED BY <1>1, <1>6, <1>8, <1>15, <1>16, <1>17, <1>18, Pushed DEF L, LF

(* No leg of an if dangles. *)
AllWired(g) == \A id \in DOMAIN g : ~Dangles(g, id)

LEMMA LegsOfIf ==
    ASSUME NEW g, IsGraph(g), AllWired(g), NEW id \in childNodes(g), g[id].type = "if", NEW i \in {1, 2}
    PROVE  LET target == TargetOf(g[id].wires[i])
           IN  /\ Wired(g, id, i) = target
               /\ target # None => target \in childNodes(g) /\ target \in LegsOf(g, id)
               /\ target = None => target \notin childNodes(g)
<1>. DEFINE target == TargetOf(g[id].wires[i])
<1>1. id \in DOMAIN g /\ DOMAIN g[id].wires = {1, 2} /\ None \notin childNodes(g)
  BY ChildNodes
<1>2. i \in 1 .. 2
  OBVIOUS
<1>3. Wired(g, id, i) = IF target \in childNodes(g) THEN target ELSE None
  BY DEF Wired
<1>4. target # None => g[id].wires[i] # {}
  BY DEF TargetOf
<1>. HIDE DEF target
<1>5. target # None => Wired(g, id, i) # None
  BY <1>1, <1>2, <1>4 DEF AllWired, Dangles
<1>6. Wired(g, id, i) = target /\ (target # None => target \in childNodes(g))
  BY <1>1, <1>3, <1>5
<1>7. target # None => target \in LegsOf(g, id)
  BY <1>1, <1>6 DEF LegsOf
<1>. QED BY <1>1, <1>6, <1>7 DEF target

LEMMA IfWell ==
    ASSUME NEW g, IsGraph(g), AllWired(g), NEW d \in Parses(g), NEW ids, ParsesWell(g, d, ids),
           NEW flow \in Seq(Section(g)), NEW section \in Nat, Below(flow, section),
           NEW id \in childNodes(g), g[id].type = "if", LegsOf(g, id) \subseteq ids
    PROVE  WellParsed(g, flow, IfParsed(g, d, flow, id, section), id, section)
<1>. DEFINE leg(i) == TargetOf(g[id].wires[i])
            a == leg(1)
            b == leg(2)
            ifTrue == IF a = None THEN 0 ELSE section + 1
            flow1 == Parsed(g, d, flow, a, ifTrue)
            ifFalse == IF b = None THEN 0
                       ELSE IF a = None THEN section + 1
                       ELSE getMaxSectionNumber(flow1) + 1
            flow2 == Parsed(g, d, flow1, b, ifFalse)
            s == getFormattedIf(g, id, section, ifTrue, ifFalse)
            f == Append(flow2, s)
            L == Len(flow) L1 == Len(flow1) L2 == Len(flow2)
            n1 == section + 1
            n2 == n1 + (L1 - L)
<1>1. IfParsed(g, d, flow, id, section) = f
  BY DEF IfParsed
<1>2. /\ Wired(g, id, 1) = a /\ Wired(g, id, 2) = b
      /\ a # None => a \in childNodes(g) /\ a \in ids
      /\ b # None => b \in childNodes(g) /\ b \in ids
      /\ a \in childNodes(g) => a # None
      /\ b \in childNodes(g) => b # None
  <2>. HIDE DEF a, b
  <2>. QED BY LegsOfIf DEF a, b
<1>3. ifTrue \in Nat /\ (a # None => ifTrue = n1) /\ (a = None => ifTrue = 0) /\ n1 \in Nat
  OBVIOUS
<1>. HIDE DEF ifTrue, a, b, leg
<1>4. flow1 \in Seq(Section(g)) /\ Extends(flow, flow1)
  BY <1>3, ParsedTyped
<1>5. L \in Nat /\ L1 \in Nat /\ L <= L1
  BY <1>4 DEF Extends
<1>6. Below(flow, n1)
  <2>1. \A i \in L + 1 .. L : flow[i].section_number < n1
    BY <1>5
  <2>2. Extends(flow, flow) /\ section <= n1
    BY <1>5 DEF Extends
  <2>. QED BY <1>3, <2>1, <2>2, BelowNext
<1>7. WellParsed(g, flow, flow1, a, n1)
  <2>1. a \in childNodes(g) => a \in ids /\ ifTrue = n1 /\ Below(flow, n1)
    BY <1>2, <1>3, <1>6
  <2>. HIDE DEF n1
  <2>. QED BY <1>3, <2>1, ParsedWell
<1>. HIDE DEF flow1
<1>8. n2 \in Nat /\ n1 <= n2
  BY <1>3, <1>5
<1>9. \A i \in L + 1 .. L1 : flow1[i].section_number \in n1 .. n2 - 1
  BY <1>7 DEF WellParsed
<1>10. Below(flow1, n2)
  <2>1. \A i \in L + 1 .. L1 : flow1[i].section_number < n2
    <3>. HIDE DEF L, L1, n1, n2
    <3>. QED BY <1>3, <1>5, <1>8, <1>9
  <2>. QED BY <1>3, <1>4, <1>6, <1>8, <2>1, BelowNext
<1>11. a # None => getMaxSectionNumber(flow1) + 1 = n2
  <2>. SUFFICES ASSUME a # None PROVE getMaxSectionNumber(flow1) + 1 = n2
    OBVIOUS
  <2>. DEFINE max == getMaxSectionNumber(flow1)
  <2>1. /\ max \in Nat
        /\ \A i \in 1 .. L1 : flow1[i].section_number <= max
        /\ max = 0 \/ \E i \in 1 .. L1 : flow1[i].section_number = max
    BY <1>4, MaxSection
  <2>2. PICK p \in L + 1 .. L1 : flow1[p].section_number = n1
    BY <1>2, <1>7 DEF WellParsed
  <2>3. \A x \in n1 .. n2 - 1 : \E i \in L + 1 .. L1 : flow1[i].section_number = x
    BY <1>7, SMTT(40) DEF WellParsed
  <2>. HIDE DEF max, L, L1
  <2>4. n2 - 1 \in n1 .. n2 - 1 /\ n1 >= 1
    BY <1>3, <1>5, <2>2, SMTT(40)
  <2>. HIDE DEF n1, n2
  <2>5. PICK q \in L + 1 .. L1 : flow1[q].section_number = n2 - 1
    BY <2>3, <2>4
  <2>6. q \in 1 .. L1
    BY <1>5
  <2>7. n2 - 1 <= max
    BY <2>1, <2>5, <2>6
  <2>8. max # 0
    BY <1>8, <1>3, <2>1, <2>4, <2>7
  <2>9. PICK r \in 1 .. L1 : flow1[r].section_number = max
    BY <2>1, <2>8
  <2>10. max < n2
    BY <1>10, <2>9 DEF Below, L1
  <2>11. max + 1 = n2
    BY <1>8, <2>1, <2>7, <2>10
  <2>. QED BY <2>11 DEF max
<1>12. a = None => n2 = n1
  <2>1. a = None => L1 = L
    <3>1. a = None => flow1 = flow
      BY <1>2 DEF Parsed, flow1
    <3>. QED BY <3>1
  <2>. HIDE DEF L, L1
  <2>. QED BY <1>3, <1>5, <2>1
<1>13. ifFalse \in Nat /\ (b # None => ifFalse = n2) /\ (b = None => ifFalse = 0)
  <2>. HIDE DEF n1, n2
  <2>. QED BY <1>3, <1>8, <1>11, <1>12 DEF n1
<1>. HIDE DEF ifFalse
<1>14. flow2 \in Seq(Section(g)) /\ Extends(flow1, flow2)
  BY <1>4, <1>13, ParsedTyped
<1>15. L2 \in Nat /\ L1 <= L2
  BY <1>14 DEF Extends
<1>16. WellParsed(g, flow1, flow2, b, n2)
  <2>1. b \in childNodes(g) => b \in ids /\ ifFalse = n2 /\ Below(flow1, n2)
    BY <1>2, <1>10, <1>13
  <2>. HIDE DEF n2
  <2>. QED BY <1>4, <1>8, <2>1, ParsedWell
<1>. HIDE DEF flow2
<1>17. /\ WellParsed(g, flow, flow2, a, n1)
       /\ b \in childNodes(g) =>
             \E i \in L + 1 .. L2 : flow2[i].node = b /\ flow2[i].section_number = n2
  <2>1. n2 = After(flow, flow1, n1)
    BY DEF After
  <2>. HIDE DEF n1, n2, L, L1, L2
  <2>2. n1 \in Nat /\ n2 \in Nat /\ flow1 \in Seq(Section(g)) /\ flow2 \in Seq(Section(g))
    BY <1>3, <1>4, <1>8, <1>14
  <2>3. WellParsed(g, flow, flow1, a, n1) /\ WellParsed(g, flow1, flow2, b, n2)
    BY <1>7, <1>16
  <2>4. /\ WellParsed(g, flow, flow2, a, n1)
        /\ b \in childNodes(g) =>
             \E i \in Len(flow) + 1 .. Len(flow2) : flow2[i].node = b /\ flow2[i].section_number = n2
    BY <2>1, <2>2, <2>3, BothParsed
  <2>. QED BY <2>4 DEF L, L2
<1>18. /\ s \in Section(g) /\ s.node = id /\ s.section_number = section /\ s.type # "event"
       /\ s.module = g[id].module /\ DOMAIN s.next = {1, 2} /\ s.next[1] = ifTrue /\ s.next[2] = ifFalse
  BY <1>3, <1>13, ChildNodes DEF Section, getFormattedIf
<1>. HIDE DEF s
<1>19. /\ f \in Seq(Section(g)) /\ Len(f) = L2 + 1 /\ f[L2 + 1] = s /\ Extends(flow2, f)
       /\ \A i \in 1 .. L2 : f[i] = flow2[i]
  BY <1>14, <1>18, Appended
<1>20. Extends(flow, flow2) /\ Extends(flow, f)
  BY <1>4, <1>14, <1>19, ExtendsOnAndOn
<1>21. /\ \A i \in L + 1 .. L2 : flow2[i].section_number \in n1 .. n1 + (L2 - L) - 1
       /\ \A x \in n1 .. n1 + (L2 - L) - 1 : \E i \in L + 1 .. L2 : flow2[i].section_number = x
       /\ a \in childNodes(g) =>
             \E i \in L + 1 .. L2 : flow2[i].node = a /\ flow2[i].section_number = n1
       /\ \A i \in L + 1 .. L2 : Leads(g, flow2, L + 1, flow2[i])
  BY <1>17 DEF WellParsed
<1>. HIDE DEF f, L1, n2
<1>. DEFINE LF == Len(f)
<1>22. LF = L2 + 1 /\ L2 + 1 \in L + 1 .. LF
  <2>. HIDE DEF L, L2
  <2>. QED BY <1>5, <1>15, <1>19
<1>. HIDE DEF L, L2, LF
<1>23. \A i \in L + 1 .. L2 : i \in L + 1 .. LF /\ f[i] = flow2[i]
  BY <1>5, <1>15, <1>19, <1>22
<1>24. \A i \in L + 1 .. LF : i = L2 + 1 \/ i \in L + 1 .. L2
  BY <1>5, <1>15, <1>22
<1>25. n1 + (L2 - L) - 1 = section + (LF - L) - 1
  BY <1>3, <1>5, <1>15, <1>22
<1>26. Leads(g, f, L + 1, s)
  <2>1. ASSUME a # None PROVE \E j \in L + 1 .. LF : f[j].node = a /\ f[j].section_number = ifTrue
    BY <1>2, <1>3, <1>21, <1>23, <2>1
  <2>2. ASSUME b # None PROVE \E j \in L + 1 .. LF : f[j].node = b /\ f[j].section_number = ifFalse
    BY <1>2, <1>13, <1>17, <1>23, <2>2
  <2>3. DOMAIN g[id].wires = {1, 2}
    BY ChildNodes
  <2>. QED BY <1>2, <1>3, <1>13, <1>18, <2>1, <2>2, <2>3 DEF Leads, LF
<1>27. ASSUME NEW i \in L + 1 .. LF PROVE Leads(g, f, L + 1, f[i])
  <2>1. CASE i = L2 + 1
    BY <1>19, <1>26, <2>1
  <2>2. CASE i \in L + 1 .. L2
    <3>1. L + 1 \in Nat \ {0} /\ L + 1 <= L + 1
      BY <1>5
    <3>2. Leads(g, f, L + 1, flow2[i])
      BY <1>14, <1>19, <1>21, <2>2, <3>1, LeadsOn
    <3>. QED BY <1>23, <2>2, <3>2
  <2>. QED BY <1>24, <2>1, <2>2
<1>28. \A i \in L + 1 .. LF : i # L2 + 1 => f[i].section_number \in n1 .. section + (LF - L) - 1
  BY <1>21, <1>23, <1>24, <1>25
<1>29. \A x \in n1 .. section + (LF - L) - 1 : \E i \in L + 1 .. LF : f[i].section_number = x
  BY <1>21, <1>23, <1>25
<1>30. f[L2 + 1].node = id /\ f[L2 + 1].section_number = section
  BY <1>18, <1>19
<1>31. PICK p \in Len(flow) + 1 .. Len(f) : p = L2 + 1
  BY <1>22 DEF L, LF
<1>32. /\ f[p].node = id /\ f[p].section_number = section
       /\ \A i \in Len(flow) + 1 .. Len(f) : Leads(g, f, Len(flow) + 1, f[i])
       /\ \A i \in Len(flow) + 1 .. Len(f) :
             i # p => f[i].section_number \in section + 1 .. section + (Len(f) - Len(flow)) - 1
       /\ \A x \in section + 1 .. section + (Len(f) - Len(flow)) - 1 :
             \E i \in Len(flow) + 1 .. Len(f) : f[i].section_number = x
  BY <1>27, <1>28, <1>29, <1>30, <1>31 DEF L, LF
<1>33. WellParsed(g, flow, f, id, section)
  BY <1>19, <1>20, <1>32, Pushed
<1>. QED BY <1>1, <1>33

(* The nodes from which fewer than n wires in a row lead on. *)
Shallow(g, n) == IF n = 0 THEN {} ELSE DoneWithin(g)[n - 1]

LEMMA ImplWell ==
    ASSUME NEW g, IsGraph(g), AllWired(g), NEW n \in 0 .. Cardinality(DOMAIN g)
    PROVE  ParsesWell(g, parseNodesImpl(g)[n], Shallow(g, n))
<1>. DEFINE N == Cardinality(DOMAIN g)
            impl == parseNodesImpl(g)
            S == {k \in 0 .. N : ParsesWell(g, impl[k], Shallow(g, k))}
<1>1. N \in Nat
  BY FS_CardinalityType DEF IsGraph
<1>2. 0 \in S /\ S \in SUBSET Nat
  BY <1>1 DEF ParsesWell, Shallow
<1>3. ASSUME NEW k \in S, k < N PROVE k + 1 \in S
  <2>1. k \in 0 .. N /\ k + 1 \in 0 .. N /\ k + 1 # 0 /\ (k + 1) - 1 = k
    BY <1>1, <1>3
  <2>2. impl[k] \in Parses(g) /\ \A call \in ParseCall(g) : impl[k + 1][call] = CallParsed(g, impl[k], call)
    BY <2>1, ImplIs
  <2>3. Shallow(g, k + 1) = {id \in DOMAIN g : LegsOf(g, id) \subseteq Shallow(g, k)}
    BY <2>1, DoneWithinIs DEF Shallow
  <2>4. ASSUME NEW call \in ParseCall(g), call.id \in Shallow(g, k + 1), Below(call.flow, call.section)
        PROVE  WellParsed(g, call.flow, impl[k + 1][call], call.id, call.section)
    <3>1. call.flow \in Seq(Section(g)) /\ call.id \in childNodes(g) /\ call.section \in Nat
      BY DEF ParseCall
    <3>2. LegsOf(g, call.id) \subseteq Shallow(g, k) /\ ParsesWell(g, impl[k], Shallow(g, k))
      BY <2>3, <2>4
    <3>3. g[call.id].type # "command" => g[call.id].type = "if"
      BY <3>1, ChildNodes
    <3>. HIDE DEF impl
    <3>4. CASE g[call.id].type = "command"
      BY <2>2, <2>4, <3>1, <3>2, <3>4, CommandWell DEF CallParsed
    <3>5. CASE g[call.id].type # "command"
      BY <2>2, <2>4, <3>1, <3>2, <3>3, <3>5, IfWell DEF CallParsed
    <3>. QED BY <3>4, <3>5
  <2>. QED BY <2>1, <2>4 DEF ParsesWell
<1>. HIDE DEF S
<1>4. 0 .. N \subseteq S
  BY <1>1, <1>2, <1>3, Counting
<1>. QED BY <1>4 DEF S

(* A flow is well parsed from its event on. *)
LEMMA FlowWell ==
    ASSUME NEW g, IsGraph(g), AllWired(g), NEW id \in eventNodes(g), ~Circular(g, id)
    PROVE  WellParsed(g, <<EventSection(g, id)>>, parseNodes(g, id), Wired(g, id, 1), 1)
<1>. DEFINE N == Cardinality(DOMAIN g)
            e == <<EventSection(g, id)>>
            target == TargetOf(g[id].wires[1])
            d == parseNodesImpl(g)[N]
<1>1. N \in Nat /\ N \in 0 .. N
  BY FS_CardinalityType DEF IsGraph
<1>2. d \in Parses(g) /\ ParsesWell(g, d, Shallow(g, N))
  BY <1>1, ImplIs, ImplWell
<1>3. parseNodes(g, id) = Parsed(g, d, e, target, 1)
  BY DEF parseNodes, EventSection
<1>4. e \in Seq(Section(g)) /\ Len(e) = 1 /\ e[1].section_number = 0
  BY EventTyped DEF EventSection
<1>5. Below(e, 1)
  <2>. HIDE DEF e
  <2>. QED BY <1>4 DEF Below
<1>6. LegsOf(g, id) \subseteq Shallow(g, N)
  <2>1. id \in DoneWithin(g)[N]
    BY DEF Circular
  <2>. QED BY <1>1, <2>1, DoneWithinIs DEF Shallow
<1>7. Wired(g, id, 1) = IF target \in childNodes(g) THEN target ELSE None
  BY DEF Wired
<1>8. DOMAIN g[id].wires = {1} /\ None \notin childNodes(g)
  BY ChildNodes DEF eventNodes, IsGraph
<1>. HIDE DEF d, e, target
<1>9. target \in childNodes(g) => target \in LegsOf(g, id)
  BY <1>7, <1>8 DEF LegsOf
<1>10. WellParsed(g, e, Parsed(g, d, e, target, 1), target, 1)
  <2>1. target \in childNodes(g) => target \in Shallow(g, N) /\ 1 = 1 /\ Below(e, 1)
    BY <1>5, <1>6, <1>9
  <2>. HIDE DEF N
  <2>. QED BY <1>2, <1>4, <2>1, ParsedWell
<1>11. WellParsed(g, e, parseNodes(g, id), target, 1)
  BY <1>3, <1>10
<1>12. WellParsed(g, e, parseNodes(g, id), Wired(g, id, 1), 1)
  BY <1>7, <1>8, <1>11 DEF WellParsed
<1>. QED BY <1>12 DEF e

(* The flow that parseNodes makes of an event of a graph in order, one      *)
(* whose children are all wired on and not in a circle, is valid: its       *)
(* numbers are 0, 1, 2 and so on.  And its sections lead along the wires:   *)
(* each next number is that of the section for the node its wire goes to.   *)
THEOREM FlowLeads ==
    ASSUME NEW g, IsGraph(g), AllWired(g), NEW id \in eventNodes(g), ~Circular(g, id)
    PROVE  LET f == parseNodes(g, id)
           IN  /\ isFlowValid(f)
               /\ \A i \in 2 .. Len(f) : Leads(g, f, 2, f[i])
               /\ Wired(g, id, 1) # None =>
                     \E i \in 2 .. Len(f) : f[i].node = Wired(g, id, 1) /\ f[i].section_number = 1
<1>. DEFINE f == parseNodes(g, id)
            e == <<EventSection(g, id)>>
            LF == Len(f)
<1>1. f \in Seq(Section(g)) /\ LF \in Nat /\ LF >= 1 /\ f[1].section_number = 0 /\ DOMAIN f = 1 .. LF
  <2>1. f \in Seq(Section(g)) /\ Len(f) >= 1 /\ f[1] = EventSection(g, id)
    BY ParsedFlow
  <2>. HIDE DEF f
  <2>. QED BY <2>1 DEF EventSection
<1>2. WellParsed(g, e, f, Wired(g, id, 1), 1) /\ Len(e) = 1
  BY FlowWell
<1>3. Wired(g, id, 1) # None => Wired(g, id, 1) \in childNodes(g)
  BY DEF Wired
<1>. HIDE DEF f, e, LF
<1>4. /\ \A i \in 2 .. LF : f[i].section_number \in 1 .. 1 + (LF - 1) - 1
      /\ \A n \in 1 .. 1 + (LF - 1) - 1 : \E i \in 2 .. LF : f[i].section_number = n
      /\ Wired(g, id, 1) # None =>
            \E i \in 2 .. LF : f[i].node = Wired(g, id, 1) /\ f[i].section_number = 1
      /\ \A i \in 2 .. LF : Leads(g, f, 2, f[i])
  <2>1. Len(e) + 1 = 2
    BY <1>2
  <2>. QED BY <1>2, <1>3, <2>1 DEF WellParsed, LF
<1>5. 1 + (LF - 1) - 1 = LF - 1
  BY <1>1
<1>6. \A i \in 1 .. LF : f[i].section_number \in 0 .. LF - 1
  <2>1. ASSUME NEW i \in 1 .. LF PROVE f[i].section_number \in 0 .. LF - 1
    <3>1. i = 1 \/ i \in 2 .. LF
      OBVIOUS
    <3>2. 0 \in 0 .. LF - 1 /\ 1 .. LF - 1 \subseteq 0 .. LF - 1
      BY <1>1
    <3>. QED BY <1>1, <1>4, <1>5, <3>1, <3>2
  <2>. QED BY <2>1
<1>7. \A n \in 0 .. LF - 1 : \E i \in 1 .. LF : f[i].section_number = n
  <2>1. ASSUME NEW n \in 0 .. LF - 1 PROVE \E i \in 1 .. LF : f[i].section_number = n
    <3>1. n = 0 \/ n \in 1 .. LF - 1
      BY <1>1
    <3>2. 1 \in 1 .. LF /\ 2 .. LF \subseteq 1 .. LF
      BY <1>1
    <3>. QED BY <1>1, <1>4, <1>5, <3>1, <3>2
  <2>. QED BY <2>1
<1>8. isFlowValid(f)
  BY <1>1, <1>6, <1>7 DEF isFlowValid, ToSet, LF
<1>. QED BY <1>4, <1>8 DEF f, LF
-----------------------------------------------------------------------------
(* What a number in a section stands for.                                   *)

(* Events and the graph are as the compiler found them. *)
LEMMA FlowOf ==
    ASSUME FlowAssumption, Compiled, WellWired, NEW f \in flows
    PROVE  /\ f \in Seq(Section(nodes)) /\ f[1].section_number = 0 /\ f[1].type = "event"
           /\ f[1].module = nodes[f[1].node].module
           /\ f[1].node \in eventNodes(nodes)
           /\ \A i \in 2 .. Len(f) : Leads(nodes, f, 2, f[i])
           /\ \E i \in 2 .. Len(f) :
                 f[i].node = Wired(nodes, f[1].node, 1) /\ f[i].section_number = 1
           /\ Wired(nodes, f[1].node, 1) # None
<1>. DEFINE id == f[1].node
<1>1. IsGraph(nodes) /\ AllWired(nodes) /\ f \in parseFlows(nodes)
  BY InGraph DEF Compiled, WellWired, AllWired
<1>2. /\ f \in Seq(Section(nodes)) /\ Len(f) > 1 /\ id \in eventNodes(nodes)
      /\ f = parseNodes(nodes, id) /\ f[1] = EventSection(nodes, id) /\ ~Circular(nodes, id)
  BY <1>1, FlowFacts
<1>3. /\ \A i \in 2 .. Len(f) : Leads(nodes, f, 2, f[i])
      /\ Wired(nodes, id, 1) # None =>
            \E i \in 2 .. Len(f) : f[i].node = Wired(nodes, id, 1) /\ f[i].section_number = 1
  <2>. HIDE DEF id
  <2>. QED BY <1>1, <1>2, FlowLeads
<1>4. Wired(nodes, id, 1) # None
  <2>. SUFFICES ASSUME Wired(nodes, id, 1) = None PROVE FALSE
    OBVIOUS
  <2>1. TargetOf(nodes[id].wires[1]) \notin childNodes(nodes)
    BY <1>1, ChildNodes DEF Wired
  <2>2. f = <<EventSection(nodes, id)>>
    <3>. HIDE DEF id
    <3>. QED BY <1>2, <2>1 DEF parseNodes, Parsed, EventSection
  <2>3. Len(f) = 1
    BY <2>2
  <2>. QED BY <1>2, <2>3
<1>5. f[1].section_number = 0 /\ f[1].type = "event" /\ f[1].module = nodes[id].module
  <2>. HIDE DEF id
  <2>. QED BY <1>2 DEF EventSection
<1>. QED BY <1>2, <1>3, <1>4, <1>5

(* FlowInit compiles a graph; good flows are kept. *)
LEMMA KeptFlows ==
    ASSUME FlowAssumption, Compiled
    PROVE  GoodFlowsKept
<1>. SUFFICES ASSUME WellWired, \A id \in eventNodes(nodes) : ~Circular(nodes, id),
                     NEW id \in eventNodes(nodes), LegsOf(nodes, id) # {}
              PROVE  \E flow \in flows : flow[1].node = id
  BY DEF GoodFlowsKept
<1>1. IsGraph(nodes) /\ AllWired(nodes) /\ flows = parseFlows(nodes)
  BY InGraph DEF Compiled, WellWired, AllWired
<1>2. flows = {flow \in {parseNodes(nodes, ev) : ev \in eventNodes(nodes)} : Len(flow) > 1}
  <2>1. \A ev \in eventNodes(nodes) : isFlowValid(parseNodes(nodes, ev))
    BY <1>1, FlowLeads
  <2>. QED BY <1>1, <2>1 DEF parseFlows
<1>3. Wired(nodes, id, 1) # None
  <2>1. DOMAIN nodes[id].wires = {1}
    BY <1>1 DEF eventNodes, IsGraph
  <2>. QED BY <2>1 DEF LegsOf
<1>. DEFINE f == parseNodes(nodes, id)
<1>4. Len(f) > 1
  <2>1. PICK i \in 2 .. Len(f) : f[i].section_number = 1
    BY <1>1, <1>3, FlowLeads
  <2>2. Len(f) \in Nat
    BY <1>1, ParsedFlow
  <2>. HIDE DEF f
  <2>. QED BY <2>1, <2>2
<1>5. f \in flows
  BY <1>2, <1>4
<1>6. f[1].node = id
  <2>1. f[1] = EventSection(nodes, id)
    BY <1>1, ParsedFlow
  <2>. HIDE DEF f
  <2>. QED BY <2>1 DEF EventSection
<1>. QED BY <1>5, <1>6

(* Number n of the flow of event id stands for the node next, for nothing if that is None. *)
StandsFor(id, n, next) ==
    /\ n = 0 <=> next = None
    /\ next # None => nodes[next].module \in Module
                      /\ is_child_event_for_me(nodes[next].module, id, n)
    /\ \A k : \A t \in ChildEvents(k, id) :
          t.section_number = n => next # None /\ t.node = next /\ k = nodes[next].module

LEMMA NumberStandsFor ==
    ASSUME FlowAssumption, Compiled, WellWired, NEW f \in flows, NEW n, NEW next,
           IF next = None THEN n = 0
           ELSE \E j \in 2 .. Len(f) : f[j].node = next /\ f[j].section_number = n
    PROVE  StandsFor(f[1].node, n, next)
<1>. DEFINE id == f[1].node
<1>1. /\ f \in Seq(Section(nodes)) /\ f[1].section_number = 0 /\ f[1].type = "event"
      /\ \A i \in 2 .. Len(f) : Leads(nodes, f, 2, f[i])
      /\ \E i \in 2 .. Len(f) : TRUE
  BY FlowOf
<1>2. DOMAIN f = 1 .. Len(f) /\ Len(f) \in Nat /\ 1 \in 1 .. Len(f) /\ 2 .. Len(f) \subseteq 1 .. Len(f)
  BY <1>1
<1>3. \A i \in 1 .. Len(f) : f[i] \in SectionsOf(id)
  BY <1>2 DEF SectionsOf, ToSet
<1>4. ASSUME NEW k, NEW t \in ChildEvents(k, id) PROVE t.section_number # 0
  <2>1. SUFFICES ASSUME t.section_number = 0 PROVE FALSE
    OBVIOUS
  <2>2. t \in SectionsOf(id) /\ t.type # "event" /\ f[1] \in SectionsOf(id)
    BY <1>2, <1>3 DEF ChildEvents
  <2>. HIDE DEF id
  <2>3. t = f[1]
    BY <1>1, <2>1, <2>2, OneSection
  <2>. QED BY <1>1, <2>2, <2>3
<1>5. CASE next = None
  BY <1>4, <1>5 DEF StandsFor
<1>6. CASE next # None
  <2>1. PICK j \in 2 .. Len(f) : f[j].node = next /\ f[j].section_number = n
    BY <1>6
  <2>2. Leads(nodes, f, 2, f[j]) /\ f[j] \in SectionsOf(id)
    BY <1>1, <1>2, <1>3, <2>1
  <2>. DEFINE home == nodes[next].module
  <2>3. f[j].module = home /\ f[j].type # "event" /\ next \in DOMAIN nodes
    BY <2>1, <2>2 DEF Leads, childNodes
  <2>4. home \in Module
    BY <2>3, InGraph
  <2>5. f[j] \in ChildEvents(home, id)
    BY <2>2, <2>3 DEF ChildEvents
  <2>6. is_child_event_for_me(home, id, n)
    BY <2>1, <2>5 DEF is_child_event_for_me
  <2>7. n # 0
    BY <1>4, <2>1, <2>5
  <2>8. ASSUME NEW k, NEW t \in ChildEvents(k, id), t.section_number = n
        PROVE  t.node = next /\ k = home
    <3>1. t \in SectionsOf(id) /\ t.module = k
      BY DEF ChildEvents
    <3>. HIDE DEF id
    <3>2. t = f[j]
      BY <2>1, <2>2, <2>8, <3>1, OneSection
    <3>. QED BY <2>1, <2>3, <3>1, <3>2
  <2>. QED BY <1>6, <2>4, <2>6, <2>7, <2>8 DEF StandsFor
<1>. QED BY <1>5, <1>6

LEMMA EventLeads ==
    ASSUME FlowAssumption, Compiled, WellWired, NEW f \in flows
    PROVE  /\ StandsFor(f[1].node, 1, Wired(nodes, f[1].node, 1))
           /\ nodes[f[1].node].module = f[1].module
<1>1. StandsFor(f[1].node, 1, Wired(nodes, f[1].node, 1))
  BY FlowOf, NumberStandsFor
<1>2. nodes[f[1].node].module = f[1].module
  BY FlowOf
<1>. QED BY <1>1, <1>2

LEMMA SectionLeads ==
    ASSUME FlowAssumption, Compiled, WellWired, NEW id, NEW m, NEW s \in ChildEvents(m, id)
    PROVE  /\ nodes[s.node].module = m
           /\ \A leg \in DOMAIN s.next : StandsFor(id, s.next[leg], Wired(nodes, s.node, leg))
<1>1. PICK f \in flows : f[1].node = id /\ s \in ToSet(f)
  BY DEF ChildEvents, SectionsOf
<1>2. /\ f \in Seq(Section(nodes)) /\ f[1].type = "event"
      /\ \A i \in 2 .. Len(f) : Leads(nodes, f, 2, f[i])
  BY FlowOf
<1>3. PICK i \in 1 .. Len(f) : s = f[i]
  BY <1>1, <1>2 DEF ToSet
<1>4. s.type # "event" /\ s.module = m
  BY DEF ChildEvents
<1>5. i \in 2 .. Len(f)
  BY <1>2, <1>3, <1>4
<1>6. Leads(nodes, f, 2, s)
  BY <1>2, <1>3, <1>5
<1>7. ASSUME NEW leg \in DOMAIN s.next
      PROVE  StandsFor(id, s.next[leg], Wired(nodes, s.node, leg))
  BY <1>1, <1>6, NumberStandsFor DEF Leads
<1>. QED BY <1>4, <1>6, <1>7 DEF Leads
-----------------------------------------------------------------------------
(* Where runs go on.                                                        *)

(* Whoever goes on with a run goes on with the node that it is to come to. *)
OnItsWayAt(r) ==
    \A k \in Module : \A i \in 0 .. Len(inbox[k]) :
        Has(k, i, r) =>
            /\ \E s \in ChildEvents(k, PartAt(k, i).flow) :
                  s.section_number = PartAt(k, i).section /\ s.node = Awaited(r)
            /\ i # 0 => nodes[at[r].node].module # k

OnItsWay == WellWired => \A r \in DOMAIN at : OnItsWayAt(r)

(* Somebody goes on with a run, unless the wires end or a broadcast was in vain. *)
NotForgottenAt(r) ==
    \/ Awaited(r) = None
    \/ \E k \in Module : \E i \in 0 .. Len(inbox[k]) : Has(k, i, r)
    \/ Elsewhere(r) /\ (r \in lost \/ <<r, nodes[Awaited(r)].module>> \in refused)

NotForgotten == WellWired => \A r \in DOMAIN at : NotForgottenAt(r)

(* What a step of module m that goes on with part leaves behind. *)
GoingOn(m, part) ==
    /\ UNCHANGED <<nodes, flows, refused>> /\ GoOn(m, part)
    /\ part.run \in Nat \ {0} /\ part.section \in Nat
    /\ running[m].run \in {0, part.run}
    /\ \A k \in Module : \A i \in 0 .. Len(inbox[k]) : Has(k, i, part.run) => k = m /\ i = 0
    /\ DOMAIN at' = DOMAIN at \cup {part.run}
    /\ \A r \in DOMAIN at : r # part.run => at'[r] = at[r]
    /\ WellWired => /\ nodes[at'[part.run].node].module = m
                    /\ StandsFor(part.flow, part.section,
                                 Wired(nodes, at'[part.run].node, at'[part.run].leg))

LEMMA AwaitedNext ==
    ASSUME nodes' = nodes, NEW r
    PROVE  Awaited(r)' = Wired(nodes, at'[r].node, at'[r].leg)
BY DEF Awaited, Wired, childNodes, isValidCommandNode, isValidIfNode

LEMMA EventGoesOn ==
    ASSUME FlowAssumption, Compiled, FlowTypeOK, NEW m \in Module, check_main_events(m)
    PROVE  \E part : GoingOn(m, part)
<1>1. PICK f \in flows :
        /\ running[m] = Idle /\ f[1].module = m
        /\ at' = Append(at, Step(f[1].node, 1))
        /\ GoOn(m, [flow |-> f[1].node, section |-> 1, run |-> Len(at) + 1])
        /\ UNCHANGED <<nodes, flows, refused>>
  BY DEF check_main_events
<1>. DEFINE part == [flow |-> f[1].node, section |-> 1, run |-> Len(at) + 1]
<1>2. GoOn(m, part) /\ part.flow = f[1].node /\ part.section = 1 /\ part.run = Len(at) + 1
  BY <1>1
<1>. HIDE DEF part
<1>3. Len(at) \in Nat /\ DOMAIN at = 1 .. Len(at)
  BY DEF FlowTypeOK
<1>4. /\ DOMAIN at' = DOMAIN at \cup {part.run}
      /\ \A r \in DOMAIN at : at'[r] = at[r]
      /\ at'[part.run] = Step(f[1].node, 1)
  <2>. DEFINE step == Step(f[1].node, 1)
  <2>. HIDE DEF step
  <2>1. at' = Append(at, step)
    BY <1>1 DEF step
  <2>. QED BY <1>2, <1>3, <2>1 DEF FlowTypeOK, step
<1>5. \A k \in Module : \A i \in 0 .. Len(inbox[k]) : ~Has(k, i, part.run)
  BY <1>2, <1>3, RunsBegun
<1>6. WellWired => /\ nodes[at'[part.run].node].module = m
                   /\ StandsFor(part.flow, part.section,
                                Wired(nodes, at'[part.run].node, at'[part.run].leg))
  <2>1. at'[part.run].node = f[1].node /\ at'[part.run].leg = 1
    BY <1>4 DEF Step
  <2>. QED BY <1>1, <1>2, <2>1, EventLeads
<1>7. running[m].run = 0
  BY <1>1 DEF Idle
<1>8. GoingOn(m, part)
  BY <1>1, <1>2, <1>3, <1>4, <1>5, <1>6, <1>7 DEF GoingOn
<1>. QED BY <1>8

LEMMA ChildGoesOn ==
    ASSUME FlowAssumption, Compiled, FlowTypeOK, OneModuleAtATime,
           NEW m \in Module, run_child_event(m)
    PROVE  \E part, s :
              /\ GoingOn(m, part)
              /\ part.run = running[m].run /\ s \in ChildEvents(m, running[m].flow)
              /\ s.section_number = running[m].section /\ at'[part.run].node = s.node
<1>1. PICK s \in ChildEvents(m, running[m].flow) : \E leg \in DOMAIN s.next :
        /\ s.section_number = running[m].section
        /\ at' = [at EXCEPT ![running[m].run] = Step(s.node, leg)]
        /\ GoOn(m, [running[m] EXCEPT !.section = s.next[leg]])
  BY DEF run_child_event
<1>2. PICK leg \in DOMAIN s.next :
        /\ at' = [at EXCEPT ![running[m].run] = Step(s.node, leg)]
        /\ GoOn(m, [running[m] EXCEPT !.section = s.next[leg]])
  BY <1>1
<1>. DEFINE part == [running[m] EXCEPT !.section = s.next[leg]]
<1>3. running[m] \in Part /\ running[m].run \in DOMAIN at /\ UNCHANGED <<nodes, flows, refused>>
  BY DEF run_child_event, FlowTypeOK, Part
<1>4. /\ GoOn(m, part) /\ part.run = running[m].run /\ part.section = s.next[leg]
      /\ part.flow = running[m].flow
  BY <1>2, <1>3 DEF Part
<1>. HIDE DEF part
<1>5. part.run \in Nat \ {0} /\ part.run \in DOMAIN at
  BY <1>3, <1>4 DEF FlowTypeOK
<1>6. /\ DOMAIN at' = DOMAIN at
      /\ \A r \in DOMAIN at : r # part.run => at'[r] = at[r]
      /\ at'[part.run] = Step(s.node, leg)
  BY <1>2, <1>4, <1>5 DEF FlowTypeOK
<1>7. part.section \in Nat
  BY <1>4, SectionsTyped DEF ChildEvents
<1>8. ASSUME NEW k \in Module, NEW i \in 0 .. Len(inbox[k]), Has(k, i, part.run)
      PROVE  k = m /\ i = 0
  <2>1. Has(m, 0, part.run) /\ 0 \in 0 .. Len(inbox[m])
    BY <1>4 DEF Has, FlowTypeOK
  <2>. QED BY <1>5, <1>8, <2>1 DEF OneModuleAtATime
<1>9. at'[part.run].node = s.node /\ at'[part.run].leg = leg
  BY <1>6 DEF Step
<1>10. WellWired => /\ nodes[at'[part.run].node].module = m
                    /\ StandsFor(part.flow, part.section,
                                 Wired(nodes, at'[part.run].node, at'[part.run].leg))
  BY <1>4, <1>9, SectionLeads
<1>11. GoingOn(m, part)
  BY <1>3, <1>4, <1>5, <1>6, <1>7, <1>8, <1>10 DEF GoingOn
<1>. QED BY <1>1, <1>4, <1>9, <1>11

LEMMA OnePlaceGoingOn ==
    ASSUME FlowAssumption, Compiled, FlowTypeOK, OneModuleAtATime,
           NEW m \in Module, NEW part, GoingOn(m, part), NEW r \in Nat \ {0}, r \in DOMAIN at',
           NEW k \in Module, NEW i \in 0 .. Len(inbox'[k]), Has(k, i, r)',
           NEW l \in Module, NEW j \in 0 .. Len(inbox'[l]), Has(l, j, r)'
    PROVE  k = l /\ i = j
<1>. DEFINE Stayed(x, y) == /\ ~(x = m /\ y = 0) /\ y \in 0 .. Len(inbox[x]) /\ Has(x, y, r)
            Mine(x, y) == /\ r = part.run /\ x = m /\ y = 0
                          /\ is_child_event_for_me(m, part.flow, part.section)
            Sent(x, y) == /\ r = part.run /\ x # m /\ y = Len(inbox[x]) + 1
                          /\ is_child_event_for_me(x, part.flow, part.section)
                          /\ ~is_child_event_for_me(m, part.flow, part.section)
<1>0. UNCHANGED <<nodes, flows>> /\ GoOn(m, part)
  BY DEF GoingOn
<1>1. Stayed(k, i) \/ Mine(k, i) \/ Sent(k, i)
  BY <1>0, GoOnPlaces
<1>2. Stayed(l, j) \/ Mine(l, j) \/ Sent(l, j)
  BY <1>0, GoOnPlaces
<1>3. Sent(k, i) /\ Sent(l, j) => k = l
  BY OneHome
<1>4. CASE r = part.run
  <2>1. ~Stayed(k, i) /\ ~Stayed(l, j)
    BY <1>4 DEF GoingOn
  <2>. QED BY <1>1, <1>2, <1>3, <2>1
<1>5. CASE r # part.run
  <2>1. Stayed(k, i) /\ Stayed(l, j) /\ r \in DOMAIN at
    BY <1>1, <1>2, <1>5 DEF GoingOn
  <2>. QED BY <2>1 DEF OneModuleAtATime
<1>. QED BY <1>4, <1>5

LEMMA OnePlaceStep ==
    ASSUME FlowAssumption, Compiled, FlowTypeOK, FlowTypeOK', OneModuleAtATime, FlowNext
    PROVE  OneModuleAtATime'
<1>. DEFINE Unique(r) ==
              \A k, l \in Module : \A i \in 0 .. Len(inbox'[k]), j \in 0 .. Len(inbox'[l]) :
                  Has(k, i, r)' /\ Has(l, j, r)' => k = l /\ i = j
<1>1. SUFFICES ASSUME NEW r \in DOMAIN at' PROVE Unique(r)
  BY DEF OneModuleAtATime
<1>2. r \in Nat \ {0}
  BY DEF FlowTypeOK
<1>3. ASSUME NEW m \in Module, check_main_events(m) PROVE Unique(r)
  BY <1>2, <1>3, EventGoesOn, OnePlaceGoingOn
<1>4. ASSUME NEW m \in Module, run_child_event(m) PROVE Unique(r)
  BY <1>2, <1>4, ChildGoesOn, OnePlaceGoingOn
<1>5. ASSUME NEW m \in Module, ReadFrame(m) PROVE Unique(r)
  <2>1. at' = at
    BY <1>5 DEF ReadFrame
  <2>2. ASSUME NEW k \in Module, NEW l \in Module,
               NEW i \in 0 .. Len(inbox'[k]), NEW j \in 0 .. Len(inbox'[l]),
               Has(k, i, r)', Has(l, j, r)'
        PROVE  k = l /\ i = j
    <3>. DEFINE wasI == IF k = m THEN i + 1 ELSE i
                wasJ == IF l = m THEN j + 1 ELSE j
    <3>1. wasI \in 0 .. Len(inbox[k]) /\ Has(k, wasI, r)
      BY <1>2, <1>5, <2>2, ReadPlaces
    <3>2. wasJ \in 0 .. Len(inbox[l]) /\ Has(l, wasJ, r)
      BY <1>2, <1>5, <2>2, ReadPlaces
    <3>3. k = l /\ wasI = wasJ
      <4>. HIDE DEF wasI, wasJ
      <4>. QED BY <2>1, <3>1, <3>2 DEF OneModuleAtATime
    <3>4. i \in Int /\ j \in Int
      OBVIOUS
    <3>. QED BY <3>3, <3>4
  <2>. QED BY <2>2
<1>. QED BY <1>3, <1>4, <1>5 DEF FlowNext

LEMMA WayGoingOn ==
    ASSUME FlowAssumption, Compiled, WellWired, FlowTypeOK, FlowTypeOK', OnItsWay,
           NEW m \in Module, NEW part, GoingOn(m, part), NEW r \in DOMAIN at'
    PROVE  OnItsWayAt(r)'
<1>. DEFINE node == at'[r].node
            Goal(k, i) == /\ \E s \in ChildEvents(k, PartAt(k, i)'.flow) :
                                s.section_number = PartAt(k, i)'.section /\ s.node = Awaited(r)'
                          /\ i # 0 => nodes[node].module # k
<1>1. /\ UNCHANGED <<nodes, flows>> /\ GoOn(m, part) /\ r \in Nat \ {0}
      /\ DOMAIN at' = DOMAIN at \cup {part.run}
  BY DEF GoingOn, FlowTypeOK
<1>2. SUFFICES ASSUME NEW k \in Module, NEW i \in 0 .. Len(inbox'[k]), Has(k, i, r)'
               PROVE  Goal(k, i)
  BY <1>1 DEF OnItsWayAt, ChildEvents, SectionsOf
<1>3. Awaited(r)' = Wired(nodes, node, at'[r].leg)
  BY <1>1, AwaitedNext
<1>4. CASE /\ ~(k = m /\ i = 0) /\ i \in 0 .. Len(inbox[k])
           /\ Has(k, i, r) /\ PartAt(k, i)' = PartAt(k, i)
  <2>1. r # part.run
    BY <1>4 DEF GoingOn
  <2>2. r \in DOMAIN at /\ at'[r] = at[r]
    BY <1>1, <2>1 DEF GoingOn
  <2>3. Awaited(r)' = Awaited(r)
    BY <1>3, <2>2 DEF Awaited
  <2>4. OnItsWayAt(r)
    BY <2>2 DEF OnItsWay
  <2>. QED BY <1>4, <2>2, <2>3, <2>4 DEF OnItsWayAt
<1>5. CASE /\ r = part.run /\ PartAt(k, i)' = part
           /\ (i = 0 \/ k # m) /\ is_child_event_for_me(k, part.flow, part.section)
  <2>1. PICK s \in ChildEvents(k, part.flow) : s.section_number = part.section
    BY <1>5 DEF is_child_event_for_me
  <2>2. s.node = Awaited(r)' /\ nodes[node].module = m
    BY <1>3, <1>5, <2>1 DEF GoingOn, StandsFor
  <2>. QED BY <1>5, <2>1, <2>2
<1>6. \/ /\ ~(k = m /\ i = 0) /\ i \in 0 .. Len(inbox[k])
         /\ Has(k, i, r) /\ PartAt(k, i)' = PartAt(k, i)
      \/ /\ r = part.run /\ PartAt(k, i)' = part
         /\ (i = 0 \/ k # m) /\ is_child_event_for_me(k, part.flow, part.section)
  BY <1>1, <1>2, GoOnPlaces
<1>. QED BY <1>4, <1>5, <1>6

LEMMA EndGoingOn ==
    ASSUME FlowAssumption, Compiled, WellWired, FlowTypeOK, FlowTypeOK', NotForgotten,
           NEW m \in Module, NEW part, GoingOn(m, part), NEW r \in DOMAIN at'
    PROVE  NotForgottenAt(r)'
<1>. DEFINE next == Awaited(r)'
            node == at'[r].node
            home == nodes[next].module
            mine == is_child_event_for_me(m, part.flow, part.section)
<1>1. /\ UNCHANGED <<nodes, flows, refused>> /\ GoOn(m, part) /\ r \in Nat \ {0}
      /\ DOMAIN at' = DOMAIN at \cup {part.run}
  BY DEF GoingOn, FlowTypeOK
<1>2. /\ running \in [Module -> Part \cup {Idle}] /\ inbox \in [Module -> Seq(Part)]
      /\ inbox' \in [Module -> Seq(Part')]
  BY DEF FlowTypeOK
<1>3. next = Wired(nodes, node, at'[r].leg)
  BY <1>1, AwaitedNext
<1>4. SUFFICES \/ next = None
               \/ \E k \in Module : \E i \in 0 .. Len(inbox'[k]) : Has(k, i, r)'
               \/ home # nodes[node].module /\ (r \in lost' \/ <<r, home>> \in refused)
  BY <1>1 DEF NotForgottenAt, Elsewhere
<1>. HIDE DEF next, node
<1>5. CASE r = part.run
  <2>. SUFFICES ASSUME next # None
                PROVE  \/ \E k \in Module : \E i \in 0 .. Len(inbox'[k]) : Has(k, i, r)'
                       \/ home # nodes[node].module /\ r \in lost'
    OBVIOUS
  <2>1. /\ home \in Module /\ is_child_event_for_me(home, part.flow, part.section)
        /\ nodes[node].module = m /\ part.section > 0
    BY <1>3, <1>5, SMTT(40) DEF GoingOn, StandsFor, node
  <2>2. CASE home = m
    <3>1. running'[m] = part
      BY <1>1, <1>2, <2>1, <2>2 DEF GoOn
    <3>2. Has(m, 0, r)'
      BY <1>1, <1>5, <3>1, HasNext DEF PartAt
    <3>3. 0 \in 0 .. Len(inbox'[m])
      BY <1>2
    <3>. QED BY <3>2, <3>3
  <2>3. CASE home # m
    <3>1. ~mine
      BY <2>1, <2>3, OneHome
    <3>2. PICK got \in SUBSET (Module \ {m}) :
            /\ inbox' = [k \in Module |-> IF k \in got THEN Append(inbox[k], part) ELSE inbox[k]]
            /\ lost' = IF got = Module \ {m} THEN lost ELSE lost \cup {part.run}
      BY <1>1, <2>1, <3>1 DEF GoOn, Broadcast
    <3>3. CASE home \notin got
      <4>1. r \in lost'
        BY <1>5, <2>1, <2>3, <3>2, <3>3
      <4>. QED BY <2>1, <2>3, <4>1
    <3>4. CASE home \in got
      <4>1. PICK k \in Module, i \in Nat : k = home /\ i = Len(inbox[k]) + 1
        BY <1>2, <2>1
      <4>2. inbox'[k] = Append(inbox[k], part) /\ inbox[k] \in Seq(Part)
        BY <1>2, <3>2, <3>4, <4>1
      <4>3. inbox'[k][i] = part /\ i \in 0 .. Len(inbox'[k]) /\ i # 0
        BY <4>1, <4>2
      <4>4. PartAt(k, i)' = part
        BY <4>3 DEF PartAt
      <4>5. Has(k, i, r)'
        BY <1>1, <1>5, <2>1, <4>1, <4>4, HasNext
      <4>. QED BY <4>3, <4>5
    <3>. QED BY <3>3, <3>4
  <2>. QED BY <2>2, <2>3
<1>6. CASE r # part.run
  <2>1. r \in DOMAIN at /\ at'[r] = at[r] /\ running[m].run # r
    BY <1>1, <1>6 DEF GoingOn
  <2>2. next = Awaited(r) /\ NotForgottenAt(r)
    BY <1>3, <2>1 DEF Awaited, NotForgotten, node
  <2>3. lost \subseteq lost'
    BY <1>1 DEF GoOn, Broadcast
  <2>4. ASSUME NEW k \in Module, NEW i \in 0 .. Len(inbox[k]), Has(k, i, r)
        PROVE  \E l \in Module : \E j \in 0 .. Len(inbox'[l]) : Has(l, j, r)'
    <3>1. /\ PartAt(k, i).run = r
          /\ i # 0 => is_child_event_for_me(k, PartAt(k, i).flow, PartAt(k, i).section)
      BY <2>4, HasNow
    <3>2. ~(k = m /\ i = 0)
      BY <2>1, <3>1 DEF PartAt
    <3>3. inbox'[k] = inbox[k] \/ inbox'[k] = Append(inbox[k], part)
      BY <1>1, <1>2 DEF GoOn, Broadcast
    <3>4. inbox[k] \in Seq(Part) /\ Len(inbox[k]) \in Nat
      BY <1>2
    <3>5. i \in 0 .. Len(inbox'[k]) /\ (i # 0 => inbox'[k][i] = inbox[k][i])
      BY <3>3, <3>4
    <3>6. i = 0 => running'[k] = running[k]
      BY <1>1, <1>2, <3>2 DEF GoOn
    <3>7. PartAt(k, i)' = PartAt(k, i)
      BY <3>5, <3>6 DEF PartAt
    <3>8. Has(k, i, r)'
      BY <1>1, <3>1, <3>7, HasNext
    <3>. QED BY <3>5, <3>8
  <2>5. Awaited(r) = None \/ (\E k \in Module : \E i \in 0 .. Len(inbox[k]) : Has(k, i, r))
        \/ (nodes[Awaited(r)].module # nodes[at[r].node].module
            /\ (r \in lost \/ <<r, nodes[Awaited(r)].module>> \in refused))
    BY <2>2 DEF NotForgottenAt, Elsewhere
  <2>. QED BY <2>1, <2>2, <2>3, <2>4, <2>5 DEF node
<1>. QED BY <1>5, <1>6
LEMMA WayReading ==
    ASSUME FlowAssumption, Compiled, WellWired, FlowTypeOK, OnItsWay,
           NEW m \in Module, ReadFrame(m), NEW r \in DOMAIN at
    PROVE  OnItsWayAt(r)'
<1>1. UNCHANGED <<nodes, flows, at>> /\ r \in Nat \ {0} /\ OnItsWayAt(r)
  BY DEF ReadFrame, FlowTypeOK, OnItsWay
<1>2. Awaited(r)' = Awaited(r)
  BY <1>1, AwaitedNext DEF Awaited
<1>3. SUFFICES ASSUME NEW k \in Module, NEW i \in 0 .. Len(inbox'[k]), Has(k, i, r)'
               PROVE  /\ \E s \in ChildEvents(k, PartAt(k, i)'.flow) :
                            s.section_number = PartAt(k, i)'.section /\ s.node = Awaited(r)'
                      /\ i # 0 => nodes[at[r].node].module # k
  BY <1>1 DEF OnItsWayAt, ChildEvents, SectionsOf
<1>. DEFINE was == IF k = m THEN i + 1 ELSE i
<1>4. was \in 0 .. Len(inbox[k]) /\ Has(k, was, r) /\ PartAt(k, i)' = PartAt(k, was)
  BY <1>1, <1>3, ReadPlaces
<1>5. i # 0 => was # 0
  OBVIOUS
<1>. HIDE DEF was
<1>. QED BY <1>1, <1>2, <1>4, <1>5 DEF OnItsWayAt

LEMMA EndReading ==
    ASSUME FlowAssumption, Compiled, WellWired, FlowTypeOK, OnItsWay, NotForgotten,
           NEW m \in Module, ReadFrame(m), NEW r \in DOMAIN at
    PROVE  NotForgottenAt(r)'
<1>1. /\ UNCHANGED <<nodes, flows, at, lost>> /\ r \in Nat \ {0}
      /\ OnItsWayAt(r) /\ NotForgottenAt(r)
  BY DEF ReadFrame, FlowTypeOK, OnItsWay, NotForgotten
<1>2. Awaited(r)' = Awaited(r)
  BY <1>1, AwaitedNext DEF Awaited
<1>3. /\ running \in [Module -> Part \cup {Idle}] /\ inbox \in [Module -> Seq(Part)]
  BY DEF FlowTypeOK
<1>. DEFINE home == nodes[Awaited(r)].module
            InVain == Elsewhere(r) /\ (r \in lost \/ <<r, home>> \in refused')
            Kept == \E k \in Module : \E i \in 0 .. Len(inbox'[k]) : Has(k, i, r)'
<1>4. SUFFICES Awaited(r) = None \/ Kept \/ InVain
  BY <1>1, <1>2 DEF NotForgottenAt, Elsewhere
<1>5. ASSUME NEW k \in Module, NEW i \in 0 .. Len(inbox[k]), Has(k, i, r)
      PROVE  Kept \/ InVain
  <2>1. /\ PartAt(k, i).run = r
        /\ i # 0 => is_child_event_for_me(k, PartAt(k, i).flow, PartAt(k, i).section)
    BY <1>5, HasNow
  <2>2. CASE k # m
    <3>1. running'[k] = running[k] /\ inbox'[k] = inbox[k]
      BY <1>3, <2>2 DEF ReadFrame
    <3>2. Has(k, i, r)' /\ i \in 0 .. Len(inbox'[k])
      BY <1>1, <2>1, <3>1, HasNext DEF PartAt
    <3>. QED BY <3>2
  <2>3. CASE k = m
    <3>1. i # 0
      BY <1>1, <2>1, <2>3 DEF PartAt, ReadFrame, Idle
    <3>2. inbox[m] \in Seq(Part) /\ inbox'[m] = Tail(inbox[m]) /\ inbox[m] # <<>>
      BY <1>3 DEF ReadFrame
    <3>3. /\ Head(inbox[m]) = inbox[m][1] /\ Len(inbox[m]) \in Nat
          /\ Len(inbox'[m]) = Len(inbox[m]) - 1
          /\ \A j \in 1 .. Len(inbox'[m]) : inbox'[m][j] = inbox[m][j + 1]
      BY <3>2
    <3>4. PartAt(m, i) = inbox[m][i]
      BY <3>1 DEF PartAt
    <3>5. CASE i # 1
      <4>1. i - 1 \in 1 .. Len(inbox'[m]) /\ (i - 1) + 1 = i /\ i - 1 # 0 /\ i - 1 \in 0 .. Len(inbox'[m])
        BY <2>3, <3>1, <3>3, <3>5
      <4>2. PartAt(m, i - 1)' = PartAt(m, i)
        BY <3>3, <3>4, <4>1 DEF PartAt
      <4>3. Has(m, i - 1, r)'
        BY <1>1, <2>1, <2>3, <3>1, <4>2, HasNext
      <4>. QED BY <4>1, <4>3
    <3>6. CASE i = 1 /\ Uid[m] = ANY
      <4>1. running'[m] = PartAt(m, i)
        BY <1>3, <2>1, <2>3, <3>1, <3>3, <3>4, <3>6 DEF ReadFrame, is_for_me
      <4>2. PartAt(m, 0)' = PartAt(m, i)
        BY <4>1 DEF PartAt
      <4>3. Has(m, 0, r)'
        BY <1>1, <2>1, <2>3, <4>2, HasNext
      <4>4. 0 \in 0 .. Len(inbox'[m])
        BY <3>2
      <4>. QED BY <4>3, <4>4
    <3>7. CASE i = 1 /\ Uid[m] # ANY
      <4>1. PICK s \in ChildEvents(m, PartAt(m, i).flow) : s.node = Awaited(r)
        BY <1>1, <1>5, <2>3 DEF OnItsWayAt
      <4>2. nodes[s.node].module = m
        BY SectionLeads
      <4>3. nodes[at[r].node].module # m
        BY <1>1, <1>5, <2>3, <3>1 DEF OnItsWayAt
      <4>4. inbox[m][1].run = r /\ <<r, m>> \in refused'
        BY <2>1, <2>3, <3>1, <3>3, <3>4, <3>7 DEF ReadFrame, is_for_me
      <4>. QED BY <4>1, <4>2, <4>3, <4>4 DEF Elsewhere
    <3>. QED BY <3>5, <3>6, <3>7
  <2>. QED BY <2>2, <2>3
<1>6. Awaited(r) = None \/ (\E k \in Module : \E i \in 0 .. Len(inbox[k]) : Has(k, i, r)) \/ InVain
  <2>1. refused \subseteq refused'
    BY DEF ReadFrame
  <2>. QED BY <1>1, <2>1 DEF NotForgottenAt
<1>. QED BY <1>5, <1>6
-----------------------------------------------------------------------------
(* What is inductive: the flows are the graph's, a run is in one place, at  *)
(* the node the wires lead to, and is not forgotten before they end.        *)
FlowInvariant ==
    /\ Compiled
    /\ FlowTypeOK
    /\ OneModuleAtATime
    /\ OnItsWay
    /\ NotForgotten

LEMMA FlowStarts ==
    ASSUME FlowInit
    PROVE  FlowInvariant
<1>1. at = <<>> /\ DOMAIN at = {} /\ Len(at) = 0
  BY DEF FlowInit
<1>2. FlowTypeOK
  <2>1. at \in Seq([node : DOMAIN nodes, leg : {1, 2}])
    BY <1>1
  <2>2. Len(at) <= MaxRuns
    BY <1>1, FlowAssumption DEF FlowAssumption
  <2>. QED BY <1>1, <2>1, <2>2 DEF FlowInit, FlowTypeOK
<1>3. Compiled
  BY DEF FlowInit, Compiled
<1>. QED BY <1>1, <1>2, <1>3 DEF FlowInvariant, OneModuleAtATime, OnItsWay, NotForgotten

LEMMA FlowGoesOn ==
    ASSUME FlowInvariant, [FlowNext]_flowVars
    PROVE  FlowInvariant'
<1>. USE FlowAssumption
<1>1. CASE UNCHANGED flowVars
  <2>. USE <1>1 DEF flowVars
  <2>1. Compiled' /\ FlowTypeOK' /\ (WellWired' <=> WellWired)
    BY DEF FlowInvariant, Compiled, FlowTypeOK, Part, Idle, WellWired, Dangles, Wired, childNodes,
           isValidCommandNode, isValidIfNode
  <2>2. \A k, i, r : Has(k, i, r)' <=> Has(k, i, r)
    BY DEF Has, is_child_event_for_me, ChildEvents, SectionsOf
  <2>3. \A r : Awaited(r)' = Awaited(r)
    BY AwaitedNext DEF Awaited
  <2>4. OneModuleAtATime'
    BY <2>2 DEF FlowInvariant, OneModuleAtATime
  <2>5. \A r : OnItsWayAt(r) => OnItsWayAt(r)'
    BY <2>2, <2>3 DEF OnItsWayAt, PartAt, ChildEvents, SectionsOf
  <2>6. \A r : NotForgottenAt(r) => NotForgottenAt(r)'
    BY <2>2, <2>3 DEF NotForgottenAt, Elsewhere
  <2>7. OnItsWay' /\ NotForgotten'
    BY <2>1, <2>5, <2>6 DEF FlowInvariant, OnItsWay, NotForgotten
  <2>. QED BY <2>1, <2>4, <2>7 DEF FlowInvariant
<1>2. CASE FlowNext
  <2>1. FlowTypeOK' /\ OneModuleAtATime'
    BY <1>2, FlowTypeStep, OnePlaceStep DEF FlowInvariant
  <2>2. UNCHANGED <<nodes, flows>>
    BY <1>2 DEF FlowNext, check_main_events, run_child_event, ReadFrame, GoingOn
  <2>3. Compiled' /\ (WellWired' <=> WellWired)
    BY <2>2 DEF FlowInvariant, Compiled, WellWired, Dangles, Wired, childNodes,
                isValidCommandNode, isValidIfNode
  <2>4. ASSUME WellWired, NEW r \in DOMAIN at' PROVE OnItsWayAt(r)' /\ NotForgottenAt(r)'
    <3>1. ASSUME NEW m \in Module, NEW part, GoingOn(m, part)
          PROVE  OnItsWayAt(r)' /\ NotForgottenAt(r)'
      BY <2>1, <2>4, <3>1, WayGoingOn, EndGoingOn DEF FlowInvariant
    <3>2. ASSUME NEW m \in Module, check_main_events(m)
          PROVE  OnItsWayAt(r)' /\ NotForgottenAt(r)'
      BY <3>1, <3>2, EventGoesOn DEF FlowInvariant
    <3>3. ASSUME NEW m \in Module, run_child_event(m)
          PROVE  OnItsWayAt(r)' /\ NotForgottenAt(r)'
      BY <3>1, <3>3, ChildGoesOn DEF FlowInvariant
    <3>4. ASSUME NEW m \in Module, ReadFrame(m)
          PROVE  OnItsWayAt(r)' /\ NotForgottenAt(r)'
      <4>1. r \in DOMAIN at
        BY <3>4 DEF ReadFrame
      <4>. QED BY <2>4, <3>4, <4>1, WayReading, EndReading DEF FlowInvariant
    <3>. QED BY <1>2, <3>2, <3>3, <3>4 DEF FlowNext
  <2>5. OnItsWay' /\ NotForgotten'
    BY <2>3, <2>4 DEF OnItsWay, NotForgotten
  <2>. QED BY <2>1, <2>3, <2>5 DEF FlowInvariant
<1>. QED BY <1>1, <1>2

(* What the theorems below say holds in every state that can be reached.    *)
THEOREM FlowInvariance == FlowSpec => []FlowInvariant
<1>. QED BY FlowStarts, FlowGoesOn, PTL DEF FlowSpec

(* Parts that are handed on keep the types that the modules rely on.        *)
THEOREM FlowTypeCorrect == FlowSpec => []FlowTypeOK
<1>1. FlowInvariant => FlowTypeOK
  BY DEF FlowInvariant
<1>. QED BY <1>1, FlowInvariance, PTL

(* A run is on one module at a time, whatever the graph.                    *)
THEOREM RunsInOnePlace == FlowSpec => []OneModuleAtATime
<1>1. FlowInvariant => OneModuleAtATime
  BY DEF FlowInvariant
<1>. QED BY <1>1, FlowInvariance, PTL

(* For a graph in order every event that leads somewhere gets its flow.     *)
THEOREM FlowsAreKept == FlowSpec => []GoodFlowsKept
<1>1. FlowInvariant => GoodFlowsKept
  BY FlowAssumption, KeptFlows DEF FlowInvariant
<1>. QED BY <1>1, FlowInvariance, PTL

(* A run ends where the wires end, or a broadcast of it was lost or came to *)
(* the module of the next node, which dropped it.                           *)
THEOREM RunsReachModules == FlowSpec => []PartsReachTheirModule
<1>1. ASSUME FlowInvariant PROVE PartsReachTheirModule
  <2>1. SUFFICES ASSUME WellWired, NEW r \in DOMAIN at, Ended(r), Awaited(r) # None
                 PROVE  Elsewhere(r) /\ (r \in lost \/ <<r, nodes[Awaited(r)].module>> \in refused)
    BY DEF PartsReachTheirModule
  <2>2. ASSUME NEW k \in Module, NEW i \in 0 .. Len(inbox[k]) PROVE ~Has(k, i, r)
    <3>1. CASE i = 0
      BY <2>1, <3>1 DEF Has, Ended
    <3>2. CASE i # 0
      <4>1. inbox[k] \in Seq(Part) /\ i \in 1 .. Len(inbox[k])
        BY <1>1, <3>2 DEF FlowInvariant, FlowTypeOK
      <4>2. inbox[k][i] \in ToSet(inbox[k])
        BY <4>1 DEF ToSet
      <4>. QED BY <2>1, <3>2, <4>2 DEF Has, Ended
    <3>. QED BY <3>1, <3>2
  <2>3. NotForgottenAt(r)
    BY <1>1, <2>1 DEF FlowInvariant, NotForgotten
  <2>. QED BY <2>1, <2>2, <2>3 DEF NotForgottenAt
<1>. QED BY <1>1, FlowInvariance, PTL

(* Runs go along the wires of the graph, over any number of modules.        *)
THEOREM RunsFollowWires == FlowSpec => FollowsWires
<1>. USE FlowAssumption
<1>1. ASSUME FlowInvariant, [FlowNext]_flowVars
      PROVE  [\A r \in DOMAIN at :
                (at'[r] # at[r] /\ WellWired)
                => at'[r].node = Wired(nodes, at[r].node, at[r].leg)]_flowVars
  <2>. SUFFICES ASSUME FlowNext, WellWired, NEW r \in DOMAIN at, at'[r] # at[r]
                PROVE  at'[r].node = Wired(nodes, at[r].node, at[r].leg)
    BY <1>1
  <2>1. ASSUME NEW m \in Module, check_main_events(m) PROVE FALSE
    BY <1>1, <2>1 DEF check_main_events, FlowInvariant, FlowTypeOK
  <2>2. ASSUME NEW m \in Module, ReadFrame(m) PROVE FALSE
    BY <2>2 DEF ReadFrame
  <2>3. ASSUME NEW m \in Module, run_child_event(m)
        PROVE  at'[r].node = Wired(nodes, at[r].node, at[r].leg)
    <3>1. PICK part, s :
            /\ GoingOn(m, part)
            /\ part.run = running[m].run /\ s \in ChildEvents(m, running[m].flow)
            /\ s.section_number = running[m].section /\ at'[part.run].node = s.node
      BY <1>1, <2>3, ChildGoesOn DEF FlowInvariant
    <3>2. r = part.run
      BY <3>1 DEF GoingOn
    <3>3. Has(m, 0, r) /\ 0 \in 0 .. Len(inbox[m]) /\ PartAt(m, 0) = running[m]
      BY <1>1, <3>1, <3>2 DEF Has, PartAt, FlowInvariant, FlowTypeOK
    <3>4. PICK t \in ChildEvents(m, running[m].flow) :
            t.section_number = running[m].section /\ t.node = Awaited(r)
      BY <1>1, <3>3 DEF FlowInvariant, OnItsWay, OnItsWayAt
    <3>5. s = t
      BY <1>1, <3>1, <3>4, OneSection DEF FlowInvariant, ChildEvents
    <3>. QED BY <3>1, <3>2, <3>4, <3>5 DEF Awaited
  <2>. QED BY <2>1, <2>2, <2>3 DEF FlowNext
<1>. QED BY <1>1, FlowInvariance, PTL DEF FlowSpec, FollowsWires
=============================================================================
