------------------------------- MODULE KeyFob -------------------------------
(***************************************************************************)
(* The key fob project: the remote (src/Modules/KeyFobProject/LoraRemote)  *)
(* sends a numbered command over LoRa for a button press, and the module   *)
(* in the car (src/Modules/KeyFobProject/LoraModule) runs a command whose  *)
(* number is higher than the last one's.  Both keep their numbers in flash *)
(* and may lose power between any two steps.  A write to flash may fail,   *)
(* which is logged and nothing else, and so may a read, which is taken for *)
(* a value that was never stored.  The air loses messages, repeats them    *)
(* and delivers them in any order.                                         *)
(*                                                                         *)
(* A message is its IV, its rolling code and its command.  One that fails  *)
(* the checks of marker, size or tag changes nothing and is left out.      *)
(***************************************************************************)
EXTENDS Naturals, Sequences

CONSTANTS
    Command,                        \* what the buttons stand for
    NONE,
    IV_DEFAULT_VALUE, ROLLING_CODE_DEFAULT_VALUE,
    ROLLING_CODE_MAX_RANGE,
    Modulus,                        \* 2^32 in the code: IV_t and RollingCode_t wrap there
    MaxPresses, MaxPowerLosses      \* bounds

Code == 0..(Modulus - 1)

ASSUME CommandAssumption == NONE \notin Command
ASSUME CodeAssumption ==
    /\ Modulus \in Nat
    /\ {IV_DEFAULT_VALUE, ROLLING_CODE_DEFAULT_VALUE} \subseteq Code
    /\ ROLLING_CODE_MAX_RANGE \in Nat \ {0}
    /\ MaxPresses \in Nat /\ MaxPowerLosses \in Nat

MessageParameters == [iv : Code, rolling_code : Code]
Message == [iv : Code, rolling_code : Code, command : Command \cup {NONE}]

VARIABLES
    remote_pc, button_sem, command_to_send,
    remote,             \* params of the remote's main
    remote_flash,
    car_pc,
    car,                \* params of the car's main
    car_flash,
    message,            \* the message the car handles
    air,                \* history: every message sent; each may arrive at any time
    run,                \* history: the messages whose command was run
    presses, power_losses,                  \* history, for the bounds
    remote_write_failed, car_write_failed,  \* history: a write to flash failed
    remote_read_failed, car_read_failed,    \* history: main did not start from what flash holds
    wrapped                                 \* history: an IV or a code went past its last value

remoteVars == <<remote_pc, remote, remote_flash, remote_write_failed, remote_read_failed,
                wrapped>>
buttonVars == <<button_sem, command_to_send, presses>>
carVars == <<car_pc, car, car_flash, message, run, car_write_failed, car_read_failed>>
vars == <<remoteVars, buttonVars, carVars, air, power_losses>>

defaults == [iv |-> IV_DEFAULT_VALUE, rolling_code |-> ROLLING_CODE_DEFAULT_VALUE]

(* What main may start from: a value that was never stored, or cannot be   *)
(* read, is its default.                                                   *)
get_initial_message_parameters(flash) ==
    [iv : {flash.iv, defaults.iv}, rolling_code : {flash.rolling_code, defaults.rolling_code}]

Init ==
    /\ remote_pc = "sleep" /\ button_sem = 0 /\ command_to_send = NONE
    /\ remote = defaults /\ remote_flash = defaults
    /\ car_pc = "receive" /\ car = defaults /\ car_flash = defaults
    /\ message = [iv |-> 0, rolling_code |-> 0, command |-> NONE]
    /\ air = {} /\ run = <<>>
    /\ presses = 0 /\ power_losses = 0
    /\ remote_write_failed = FALSE /\ car_write_failed = FALSE
    /\ remote_read_failed = FALSE /\ car_read_failed = FALSE
    /\ wrapped = FALSE

----------------------------------------------------------------------------
(* The remote.  button_pressed is an interrupt handler: it runs between    *)
(* any two steps of main.  The semaphore counts to one.  Several buttons   *)
(* in one interrupt give it too, and set no command: c is then the command *)
(* that was set before.                                                    *)

button_pressed(c) ==
    /\ presses < MaxPresses
    /\ presses' = presses + 1
    /\ command_to_send' = c
    /\ button_sem' = 1
    /\ UNCHANGED <<remoteVars, carVars, air, power_losses>>

TakeSemaphore ==
    /\ remote_pc = "sleep" /\ button_sem = 1
    /\ button_sem' = 0
    /\ remote_pc' = "test"
    /\ UNCHANGED <<remote, remote_flash, remote_write_failed, remote_read_failed, wrapped,
                   command_to_send, presses, carVars, air, power_losses>>

(* Mutant: a wakeup without a command is tested again, without a return to the semaphore. *)
TestCommandSpins ==
    /\ remote_pc = "test"
    /\ remote_pc' = IF command_to_send = NONE THEN "test" ELSE "next_iv"
    /\ UNCHANGED <<remote, remote_flash, remote_write_failed, remote_read_failed, wrapped,
                   buttonVars, carVars, air, power_losses>>

TestCommand ==
    /\ remote_pc = "test"
    /\ remote_pc' = IF command_to_send = NONE THEN "sleep" ELSE "next_iv"
    /\ UNCHANGED <<remote, remote_flash, remote_write_failed, remote_read_failed, wrapped,
                   buttonVars, carVars, air, power_losses>>

(* Mutant: the IV is kept in memory alone. *)
NextIVInMemory ==
    /\ remote_pc = "next_iv"
    /\ remote' = [iv |-> (remote.iv + 1) % Modulus,
                  rolling_code |-> (remote.rolling_code + 1) % Modulus]
    /\ wrapped' = (wrapped \/ remote'.iv = 0 \/ remote'.rolling_code = 0)
    /\ remote_pc' = "next_code"
    /\ UNCHANGED <<remote_flash, remote_write_failed, remote_read_failed, buttonVars,
                   carVars, air, power_losses>>

(* Mutant: the counters have no width. *)
NextIVUnbounded ==
    /\ remote_pc = "next_iv"
    /\ remote' = [iv |-> remote.iv + 1, rolling_code |-> remote.rolling_code + 1]
    /\ remote_flash' = [remote_flash EXCEPT !.iv = remote'.iv]
    /\ remote_pc' = "next_code"
    /\ UNCHANGED <<remote_write_failed, remote_read_failed, wrapped, buttonVars, carVars,
                   air, power_losses>>

(* get_next_message_params, up to the write of the IV. *)
NextIV ==
    /\ remote_pc = "next_iv"
    /\ remote' = [iv |-> (remote.iv + 1) % Modulus,
                  rolling_code |-> (remote.rolling_code + 1) % Modulus]
    /\ wrapped' = (wrapped \/ remote'.iv = 0 \/ remote'.rolling_code = 0)
    /\ \/ /\ remote_flash' = [remote_flash EXCEPT !.iv = remote'.iv]
          /\ UNCHANGED remote_write_failed
       \/ /\ remote_write_failed' = TRUE
          /\ UNCHANGED remote_flash
    /\ remote_pc' = "next_code"
    /\ UNCHANGED <<remote_read_failed, buttonVars, carVars, air, power_losses>>

(* Mutant: the write of the rolling code is left out. *)
NextCodeInMemory ==
    /\ remote_pc = "next_code"
    /\ remote_pc' = "send"
    /\ UNCHANGED <<remote, remote_flash, remote_write_failed, remote_read_failed, wrapped,
                   buttonVars, carVars, air, power_losses>>

(* The write of the rolling code. *)
NextCode ==
    /\ remote_pc = "next_code"
    /\ \/ /\ remote_flash' = [remote_flash EXCEPT !.rolling_code = remote.rolling_code]
          /\ UNCHANGED remote_write_failed
       \/ /\ remote_write_failed' = TRUE
          /\ UNCHANGED remote_flash
    /\ remote_pc' = "send"
    /\ UNCHANGED <<remote, remote_read_failed, wrapped, buttonVars, carVars, air,
                   power_losses>>

(* update_encryption_buffer, encrypt_buffer and lora_send: encryption and  *)
(* transmission may fail, and the message is gone.                         *)
SendMessage ==
    /\ remote_pc = "send"
    /\ \/ air' = air \cup {[iv |-> remote.iv, rolling_code |-> remote.rolling_code,
                            command |-> command_to_send]}
       \/ UNCHANGED air
    /\ remote_pc' = "reset"
    /\ UNCHANGED <<remote, remote_flash, remote_write_failed, remote_read_failed, wrapped,
                   buttonVars, carVars, power_losses>>

(* Mutant: the command is kept. *)
ResetNothing ==
    /\ remote_pc = "reset"
    /\ remote_pc' = "sleep"
    /\ UNCHANGED <<remote, remote_flash, remote_write_failed, remote_read_failed, wrapped,
                   buttonVars, carVars, air, power_losses>>

(* A button pressed since SendMessage is forgotten here. *)
ResetCommand ==
    /\ remote_pc = "reset"
    /\ command_to_send' = NONE
    /\ remote_pc' = "sleep"
    /\ UNCHANGED <<remote, remote_flash, remote_write_failed, remote_read_failed, wrapped,
                   button_sem, presses, carVars, air, power_losses>>

RemoteLoop ==
    TakeSemaphore \/ TestCommand \/ NextIV \/ NextCode \/ SendMessage \/ ResetCommand

(* The battery is taken out and put back, and main starts again. *)
RemotePowerLoss ==
    /\ power_losses < MaxPowerLosses
    /\ power_losses' = power_losses + 1
    /\ remote_pc' = "sleep" /\ button_sem' = 0 /\ command_to_send' = NONE
    /\ remote' \in get_initial_message_parameters(remote_flash)
    /\ remote_read_failed' = (remote_read_failed \/ remote' # remote_flash)
    /\ UNCHANGED <<remote_flash, remote_write_failed, wrapped, presses, carVars, air>>

----------------------------------------------------------------------------
(* The module in the car.                                                  *)

(* given_rolling_code_u64 has 64 bits: the sum does not wrap. *)
IsAcceptable(given, current) ==
    given > current /\ given < given + ROLLING_CODE_MAX_RANGE

(* handle_lora_message, up to the writes to flash. *)
handle_lora_message(m) ==
    /\ car_pc = "receive"
    /\ m \in air
    /\ IsAcceptable(m.rolling_code, car.rolling_code)
    /\ car' = [iv |-> m.iv, rolling_code |-> m.rolling_code]
    /\ message' = m
    /\ car_pc' = "write_iv"
    /\ UNCHANGED <<car_flash, run, car_write_failed, car_read_failed, remoteVars,
                   buttonVars, air, power_losses>>

(* update_saved_message_params, first write. *)
WriteIV ==
    /\ car_pc = "write_iv"
    /\ \/ car_flash' = [car_flash EXCEPT !.iv = car.iv] /\ UNCHANGED car_write_failed
       \/ car_write_failed' = TRUE /\ UNCHANGED car_flash
    /\ car_pc' = "write_code"
    /\ UNCHANGED <<car, message, run, car_read_failed, remoteVars, buttonVars, air,
                   power_losses>>

(* Mutant: the rolling code is kept in memory alone. *)
WriteCodeInMemory ==
    /\ car_pc = "write_code"
    /\ car_pc' = "run"
    /\ UNCHANGED <<car, car_flash, car_write_failed, car_read_failed, message, run,
                   remoteVars, buttonVars, air, power_losses>>

(* update_saved_message_params, second write. *)
WriteCode ==
    /\ car_pc = "write_code"
    /\ \/ /\ car_flash' = [car_flash EXCEPT !.rolling_code = car.rolling_code]
          /\ UNCHANGED car_write_failed
       \/ car_write_failed' = TRUE /\ UNCHANGED car_flash
    /\ car_pc' = "run"
    /\ UNCHANGED <<car, message, run, car_read_failed, remoteVars, buttonVars, air,
                   power_losses>>

handle_command ==
    /\ car_pc = "run"
    /\ run' = Append(run, message)
    /\ car_pc' = "receive"
    /\ UNCHANGED <<car, car_flash, message, car_write_failed, car_read_failed, remoteVars,
                   buttonVars, air, power_losses>>

CarPowerLoss ==
    /\ power_losses < MaxPowerLosses
    /\ power_losses' = power_losses + 1
    /\ car_pc' = "receive"
    /\ car' \in get_initial_message_parameters(car_flash)
    /\ car_read_failed' = (car_read_failed \/ car' # car_flash)
    /\ UNCHANGED <<car_flash, message, run, car_write_failed, remoteVars, buttonVars,
                   air>>

----------------------------------------------------------------------------
Next ==
    \/ \E c \in Command \cup {command_to_send} : button_pressed(c)
    \/ RemoteLoop
    \/ RemotePowerLoss
    \/ \E m \in air : handle_lora_message(m)
    \/ WriteIV \/ WriteCode \/ handle_command
    \/ CarPowerLoss

Spec == Init /\ [][Next]_vars

(* main of the remote runs whenever it can; nothing else has to happen. *)
RemoteFairness == WF_vars(RemoteLoop)

----------------------------------------------------------------------------
TypeOK ==
    /\ remote_pc \in {"sleep", "test", "next_iv", "next_code", "send", "reset"}
    /\ button_sem \in {0, 1} /\ command_to_send \in Command \cup {NONE}
    /\ {remote, remote_flash, car, car_flash} \subseteq MessageParameters
    /\ car_pc \in {"receive", "write_iv", "write_code", "run"}
    /\ message \in Message /\ air \subseteq Message /\ run \in Seq(Message)
    /\ presses \in 0..MaxPresses /\ power_losses \in 0..MaxPowerLosses
    /\ {remote_write_failed, remote_read_failed, car_write_failed, car_read_failed, wrapped}
           \subseteq BOOLEAN

(* The car runs commands in the order of their codes, and so no command    *)
(* twice, whatever the air repeats and whenever the car loses power, as    *)
(* long as its flash took every write (LoraModule/src/main.cpp:175-184)    *)
(* and gave back what was written (82-117).                                *)
RunsInOrder ==
    ~car_write_failed /\ ~car_read_failed =>
        \A j, k \in DOMAIN run : j < k => run[j].rolling_code < run[k].rolling_code

(* The remote's counter went on from all it reached before. *)
RemoteCounts == ~remote_write_failed /\ ~remote_read_failed /\ ~wrapped

(* The car never is ahead of the remote, so that it does not take the next *)
(* message for an old one: not even of the code the remote would go on     *)
(* from if it lost power now, as long as the remote's flash took every     *)
(* write and gave it back and the code did not wrap                        *)
(* (LoraRemote/src/main.cpp:162-189, before the message is sent).          *)
CarNeverAhead == RemoteCounts => car.rolling_code <= remote_flash.rolling_code

(* No IV is used for two messages (readme.md:24 of the project: "before we *)
(* run into IV reuse issues"), with the same provisos.                     *)
IVsFresh == RemoteCounts => \A m, n \in air : m.iv = n.iv => m = n

(* A button press wakes the remote: it never sleeps with a command to send *)
(* and its semaphore down.                                                 *)
NoPressStranded == remote_pc = "sleep" /\ command_to_send # NONE => button_sem = 1

(* The remote returns to sleep with nothing to send: it spends most of its *)
(* time in the lowest power state (readme.md:10 of the project).           *)
RemoteSleeps == []<>(remote_pc = "sleep" /\ command_to_send = NONE)
=============================================================================
