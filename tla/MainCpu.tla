------------------------------ MODULE MainCpu ------------------------------
(***************************************************************************)
(* The ATmega1284p of the bGeigie3: power management (bg_pwr.cpp), the SD  *)
(* card reader service (sd_reader_int.cpp) and the main loop that shares   *)
(* the SD card between the logger and the reader (bGeigie3.ino).           *)
(*                                                                         *)
(* One thread runs loop() for ever; pc says where it is.  Two interrupt    *)
(* service routines run between any two of its steps: the power switch     *)
(* (every edge) and the request line of the 32u4 (every edge).  A step     *)
(* stands for code that runs with interrupts off, or that an interrupt in  *)
(* its middle cannot tell from one before or after it.                     *)
(*                                                                         *)
(* The user, the card slot, the battery and the 32u4 are the environment.  *)
(* The 32u4 holds its request line high from sd_raw_send_command until     *)
(* the answer, or until its four second watchdog resets it.                *)
(***************************************************************************)
EXTENDS Naturals

CONSTANT CardSlot   \* what the card detect pin can read: a subset of BOOLEAN

ASSUME CardSlotAssumption == CardSlot \in SUBSET BOOLEAN /\ CardSlot # {}

VARIABLES
  pc,           \* where loop() is
  pwr,          \* bg_pwr_state
  execSleep,    \* bg_pwr_exec_sleep_routine_flag
  pressed,      \* bg_pwr_button_pressed_flag
  pressAged,    \* millis() - bg_pwr_button_pressed_time > BG_PWR_BUTTON_TIME
  reader,       \* sd_reader_state
  interrupted,  \* sd_reader_interrupted
  readerAged,   \* millis() - last_interrupt > SD_READER_TIMEOUT
  initStatus,   \* sd_reader_init_status
  powered,      \* high voltage board, GPS and sensors are on
  toggled,      \* history: the button has switched the power, and neither a press nor
                \* an edge of the 32u4's line has come since
  button,       \* level of the power switch pin
  card,         \* a card is in the slot
  attached,     \* a USB host is plugged into the 32u4
  waiting       \* irq_32u4 is high: the 32u4 waits for an answer

mainVars == <<pc, pwr, execSleep, pressed, pressAged>>
readerVars == <<reader, interrupted, readerAged, initStatus>>
envVars == <<button, card, attached, waiting>>
vars == <<mainVars, readerVars, powered, toggled, envVars>>

(***************************************************************************)
(* battery    loop(), before check_battery_voltage()                       *)
(* button     bg_pwr_loop(), the button test                               *)
(* downTest   bg_pwr_loop(), the condition of the while                    *)
(* down       bg_pwr_down(), before the sleep routine                      *)
(* dozing     bg_pwr_down(), between the sleep routine and sleep_mode()    *)
(* asleep     sleep_mode()                                                 *)
(* woken      the busy wait on the button                                  *)
(* wakeTest   the condition that guards on_wakeup()                        *)
(* powerUp    power_up(), the test of sd_reader_interrupted                *)
(* powerBody  power_up(), its body                                         *)
(* reader     sd_reader_loop()                                             *)
(* lock       bg_pwr_running() && sd_reader_lock()                         *)
(* logging    the body of loop() under the lock                            *)
(* unlock     sd_reader_unlock()                                           *)
(***************************************************************************)
InSleepCall == {"down", "dozing", "asleep", "woken", "wakeTest", "powerUp", "powerBody"}
Locations == InSleepCall \cup {"battery", "button", "downTest", "reader", "lock",
                               "logging", "unlock"}

Goto(from, to) == pc = from /\ pc' = to

TypeOK ==
  /\ pc \in Locations
  /\ pwr \in {"DOWN", "UP"}
  /\ reader \in {"IDLE", "ACTIVE", "DISABLED"}
  /\ execSleep \in BOOLEAN
  /\ pressed \in BOOLEAN
  /\ pressAged \in BOOLEAN
  /\ interrupted \in BOOLEAN
  /\ readerAged \in BOOLEAN
  /\ initStatus \in BOOLEAN
  /\ powered \in BOOLEAN
  /\ toggled \in BOOLEAN
  /\ button \in BOOLEAN
  /\ card \in CardSlot
  /\ attached \in BOOLEAN
  /\ waiting \in BOOLEAN

\* The state setup() leaves behind: everything on, and bg_pwr_state DOWN.
Init ==
  /\ pc = "battery"
  /\ pwr = "DOWN"
  /\ execSleep = TRUE
  /\ pressed = FALSE
  /\ pressAged = FALSE
  /\ reader = "IDLE"
  /\ interrupted = FALSE
  /\ readerAged = TRUE
  /\ card \in CardSlot
  /\ initStatus = card
  /\ powered = TRUE
  /\ toggled = FALSE
  /\ button = FALSE
  /\ attached = FALSE
  /\ waiting = FALSE

-----------------------------------------------------------------------------
(* The main thread. *)

\* check_battery_voltage(): the reading is any value.
CheckBatteryVoltage ==
  /\ Goto("battery", "button")
  /\ \E low \in BOOLEAN : pwr' = IF low THEN "DOWN" ELSE pwr
  /\ UNCHANGED <<execSleep, pressed, pressAged, readerVars, powered, toggled, envVars>>

\* bg_pwr_loop(), first half: a press seen by the ISR is still held, or over.
ButtonHeld ==
  /\ Goto("button", "downTest")
  /\ pressed /\ pwr = "UP" /\ button
  /\ IF pressAged
       THEN pwr' = "DOWN" /\ pressed' = FALSE /\ toggled' = TRUE
       ELSE UNCHANGED <<pwr, pressed, toggled>>
  /\ UNCHANGED <<execSleep, pressAged, readerVars, powered, envVars>>

ButtonReleased ==
  /\ Goto("button", "downTest")
  /\ pressed /\ pwr = "UP" /\ ~button
  /\ pressed' = FALSE
  /\ UNCHANGED <<pwr, execSleep, pressAged, readerVars, powered, toggled, envVars>>

NoButton ==
  /\ Goto("button", "downTest")
  /\ ~(pressed /\ pwr = "UP")
  /\ UNCHANGED <<pwr, execSleep, pressed, pressAged, readerVars, powered, toggled, envVars>>

MaySleep == pwr = "DOWN" /\ reader # "ACTIVE" /\ ~interrupted

\* The while of bg_pwr_loop().
DownTest ==
  /\ pc = "downTest"
  /\ pc' = IF MaySleep THEN "down" ELSE "reader"
  /\ UNCHANGED <<pwr, execSleep, pressed, pressAged, readerVars, powered, toggled, envVars>>

\* The sleep routine, shutdown(), when its flag asks for it.
Shutdown ==
  /\ Goto("down", "dozing")
  /\ powered' = (powered /\ ~execSleep)
  /\ execSleep' = FALSE
  /\ UNCHANGED <<pwr, pressed, pressAged, readerVars, toggled, envVars>>

SleepMode ==
  /\ Goto("dozing", "asleep")
  /\ UNCHANGED <<pwr, execSleep, pressed, pressAged, readerVars, powered, toggled, envVars>>

\* The busy wait after waking ends: the button was held long enough ...
HeldToWake ==
  /\ Goto("woken", "wakeTest")
  /\ button
  /\ pwr' = "UP"
  /\ pressed' = FALSE
  /\ toggled' = TRUE
  /\ UNCHANGED <<execSleep, pressAged, readerVars, powered, envVars>>

\* ... or it is not held.
NotHeldToWake ==
  /\ Goto("woken", "wakeTest")
  /\ ~button
  /\ pressed' = FALSE
  /\ UNCHANGED <<pwr, execSleep, pressAged, readerVars, powered, toggled, envVars>>

WakeTest ==
  /\ pc = "wakeTest"
  /\ pc' = IF pwr = "UP" \/ interrupted THEN "powerUp" ELSE "downTest"
  /\ UNCHANGED <<pwr, execSleep, pressed, pressAged, readerVars, powered, toggled, envVars>>

\* power_up() does nothing when it sees the reader's flag.
PowerUpSkipped ==
  /\ Goto("powerUp", "downTest")
  /\ interrupted
  /\ execSleep' = TRUE
  /\ UNCHANGED <<pwr, pressed, pressAged, readerVars, powered, toggled, envVars>>

PowerUpEntered ==
  /\ Goto("powerUp", "powerBody")
  /\ ~interrupted
  /\ UNCHANGED <<pwr, execSleep, pressed, pressAged, readerVars, powered, toggled, envVars>>

\* Mutant: the flag of the sleep routine is not raised again.
PowerUpOnce ==
  /\ Goto("powerBody", "downTest")
  /\ reader' = "IDLE"
  /\ interrupted' = FALSE
  /\ readerAged' = TRUE
  /\ initStatus' = card
  /\ powered' = TRUE
  /\ UNCHANGED <<pwr, execSleep, pressed, pressAged, toggled, envVars>>

\* sd_reader_setup() clears the flag whatever the ISR has done since the test.
PowerUpBody ==
  /\ Goto("powerBody", "downTest")
  /\ reader' = "IDLE"
  /\ interrupted' = FALSE
  /\ readerAged' = TRUE
  /\ initStatus' = card
  /\ powered' = TRUE
  /\ execSleep' = TRUE
  /\ UNCHANGED <<pwr, pressed, pressAged, toggled, envVars>>

\* Mutant: the flag stays up.
ProcessWithoutClearing(cmd) ==
  LET started == IF reader = "IDLE" /\ card THEN "ACTIVE" ELSE reader
  IN  /\ Goto("reader", "lock")
      /\ initStatus /\ interrupted
      /\ readerAged' = FALSE
      /\ reader' = IF cmd = "SD_OFF" THEN "IDLE" ELSE started
      /\ waiting' = FALSE
      /\ UNCHANGED <<pwr, execSleep, pressed, pressAged, interrupted, initStatus, powered,
                     toggled, button, card, attached>>

\* sd_reader_process_interrupt(), interrupts off from start to end.  The card
\* is initialised on the first command of a session; SD_OFF ends the session.
\* The command is arbitrary: what is clocked in when the 32u4 is no longer
\* there, or has lost step with the master, can be any byte.
ProcessInterrupt(cmd) ==
  LET started == IF reader = "IDLE" /\ card THEN "ACTIVE" ELSE reader
  IN  /\ Goto("reader", "lock")
      /\ initStatus /\ interrupted
      /\ interrupted' = FALSE
      /\ readerAged' = FALSE
      /\ reader' = IF cmd = "SD_OFF" THEN "IDLE" ELSE started
      /\ waiting' = FALSE
      /\ UNCHANGED <<pwr, execSleep, pressed, pressAged, initStatus, powered, toggled,
                     button, card, attached>>

\* Mutant: the timeout only switches the LED back.
TimeoutForgetsState ==
  /\ Goto("reader", "lock")
  /\ initStatus /\ ~interrupted
  /\ reader = "ACTIVE" /\ readerAged
  /\ UNCHANGED <<pwr, execSleep, pressed, pressAged, readerVars, powered, toggled, envVars>>

ReaderTimeout ==
  /\ Goto("reader", "lock")
  /\ initStatus /\ ~interrupted
  /\ reader = "ACTIVE" /\ readerAged
  /\ reader' = "IDLE"
  /\ UNCHANGED <<pwr, execSleep, pressed, pressAged, interrupted, readerAged, initStatus,
                 powered, toggled, envVars>>

ReaderNothingToDo ==
  /\ Goto("reader", "lock")
  /\ initStatus => ~interrupted /\ ~(reader = "ACTIVE" /\ readerAged)
  /\ UNCHANGED <<pwr, execSleep, pressed, pressAged, readerVars, powered, toggled, envVars>>

\* Mutant: only a request that is pending keeps the logger out.
MayLockInSession == ~interrupted

MayLock == ~interrupted /\ reader # "ACTIVE"

\* bg_pwr_running() && sd_reader_lock()
SdReaderLock ==
  /\ Goto("lock", "logging")
  /\ pwr = "UP" /\ MayLock
  /\ reader' = "DISABLED"
  /\ UNCHANGED <<pwr, execSleep, pressed, pressAged, interrupted, readerAged, initStatus,
                 powered, toggled, envVars>>

\* The else branch: the pulse counter is restarted and the LED switched off.
SdReaderLockFails ==
  /\ Goto("lock", "unlock")
  /\ ~(pwr = "UP" /\ MayLock)
  /\ UNCHANGED <<pwr, execSleep, pressed, pressAged, readerVars, powered, toggled, envVars>>

\* GPS, counting and the writes to the card.
LogBody ==
  /\ Goto("logging", "unlock")
  /\ UNCHANGED <<pwr, execSleep, pressed, pressAged, readerVars, powered, toggled, envVars>>

\* Mutants: the lock is not given back, or given back in the other state machine's terms.
NeverUnlock ==
  /\ Goto("unlock", "battery")
  /\ UNCHANGED <<pwr, execSleep, pressed, pressAged, readerVars, powered, toggled, envVars>>

UnlockToResult ==
  /\ Goto("unlock", "battery")
  /\ reader' = IF reader = "DISABLED" THEN "UP" ELSE reader
  /\ UNCHANGED <<pwr, execSleep, pressed, pressAged, interrupted, readerAged, initStatus,
                 powered, toggled, envVars>>

SdReaderUnlock ==
  /\ Goto("unlock", "battery")
  /\ reader' = IF reader = "DISABLED" THEN "IDLE" ELSE reader
  /\ UNCHANGED <<pwr, execSleep, pressed, pressAged, interrupted, readerAged, initStatus,
                 powered, toggled, envVars>>

Commands == {"SD_ON", "SD_OFF", "READ", "WRITE", "REQ_INFO", "IS_RW", "unknown"}

MainStep ==
  \/ CheckBatteryVoltage
  \/ ButtonHeld \/ ButtonReleased \/ NoButton
  \/ DownTest \/ Shutdown \/ SleepMode
  \/ HeldToWake \/ NotHeldToWake \/ WakeTest
  \/ PowerUpSkipped \/ PowerUpEntered \/ PowerUpBody
  \/ \E cmd \in Commands : ProcessInterrupt(cmd)
  \/ ReaderTimeout \/ ReaderNothingToDo
  \/ SdReaderLock \/ SdReaderLockFails \/ LogBody \/ SdReaderUnlock

-----------------------------------------------------------------------------
(* The environment.  An edge of either pin runs its ISR, and wakes the CPU.  *)

WakeOnEdge == pc' = IF pc = "asleep" THEN "woken" ELSE pc

\* ISR(BG_SWITCH_INT) on the rising edge; the flag is raised only when UP.
PressButton ==
  /\ ~button
  /\ button' = TRUE
  /\ toggled' = FALSE
  /\ WakeOnEdge
  /\ IF pwr = "UP"
       THEN pressed' = TRUE /\ pressAged' = FALSE
       ELSE UNCHANGED <<pressed, pressAged>>
  /\ UNCHANGED <<pwr, execSleep, readerVars, powered, card, attached, waiting>>

ReleaseButton ==
  /\ button
  /\ button' = FALSE
  /\ WakeOnEdge
  /\ UNCHANGED <<pwr, execSleep, pressed, pressAged, readerVars, powered, toggled,
                 card, attached, waiting>>

PressAges ==
  /\ ~pressAged
  /\ pc # "asleep"        \* the timer is stopped while asleep
  /\ pressAged' = TRUE
  /\ UNCHANGED <<pc, pwr, execSleep, pressed, readerVars, powered, toggled, envVars>>

ReaderAges ==
  /\ ~readerAged
  /\ pc # "asleep"
  /\ readerAged' = TRUE
  /\ UNCHANGED <<mainVars, reader, interrupted, initStatus, powered, toggled, envVars>>

ChangeCard ==
  /\ card' \in CardSlot \ {card}
  /\ UNCHANGED <<mainVars, readerVars, powered, toggled, button, attached, waiting>>

PlugUsb ==
  /\ ~attached
  /\ attached' = TRUE
  /\ UNCHANGED <<mainVars, readerVars, powered, toggled, button, card, waiting>>

UnplugUsb ==
  /\ attached
  /\ attached' = FALSE
  /\ UNCHANGED <<mainVars, readerVars, powered, toggled, button, card, waiting>>

\* irq_high() in sd_raw_send_command, and ISR(BG_32U4_IRQ) on the rising edge.
Request ==
  /\ attached /\ ~waiting
  /\ waiting' = TRUE
  /\ interrupted' = TRUE
  /\ toggled' = FALSE
  /\ WakeOnEdge
  /\ UNCHANGED <<pwr, execSleep, pressed, pressAged, reader, readerAged, initStatus,
                 powered, button, card, attached>>

\* The watchdog resets a 32u4 that was not answered; irq_low() in SetupHardware.
\* Four seconds are longer than the few lines between the test of the while
\* and sleep_mode(), so it does not fire there.
Watchdog ==
  /\ waiting
  /\ pc \notin {"down", "dozing"}
  /\ waiting' = FALSE
  /\ toggled' = FALSE
  /\ WakeOnEdge
  /\ UNCHANGED <<pwr, execSleep, pressed, pressAged, readerVars, powered, button, card,
                 attached>>

EnvStep ==
  \/ PressButton \/ ReleaseButton \/ PressAges \/ ReaderAges \/ ChangeCard
  \/ PlugUsb \/ UnplugUsb \/ Request \/ Watchdog

Next == MainStep \/ EnvStep

Spec == Init /\ [][Next]_vars

(***************************************************************************)
(* The CPU executes its next instruction and the timer runs; the 32u4's    *)
(* watchdog is hardware.  Users, hosts, cards and batteries owe nothing.   *)
(***************************************************************************)
Fairness == WF_vars(MainStep) /\ WF_vars(Watchdog) /\ WF_vars(ReaderAges)

FairSpec == Spec /\ Fairness
-----------------------------------------------------------------------------
(* Safety *)

\* The high voltage board, the GPS and the sensors are off whenever the CPU
\* sleeps, however it came to sleep: the flag of bg_pwr_down() never makes it
\* skip a shutdown() that was due.
SleepsPoweredOff == pc = "asleep" => ~powered

\* The lock of the logger is never held when the reader is serviced: a command
\* of the 32u4 is not refused because of the logger (the first branch of
\* sd_reader_process_interrupt is never taken).
NeverRefusedByLock == pc = "reader" => reader # "DISABLED"

\* The CPU does not go to sleep, and does not set the reader up again, with a
\* session of the 32u4 open or the card locked, whatever the ISR does meanwhile.
SleepsWithReaderIdle == pc \in InSleepCall => reader = "IDLE"

\* An open session ends in sd_reader_loop() alone, by a command or by silence:
\* neither the logger's lock nor power_up() takes the card from the 32u4.
SessionNotCut ==
  [][reader = "ACTIVE" /\ reader' # "ACTIVE"
       => pc = "reader" /\ (interrupted \/ readerAged)]_vars

\* A wake-up on behalf of the reader never switches the high voltage on: only
\* the user's button does, even if the request came and went meanwhile.
PowersUpForUserOnly == [][~powered /\ powered' => pwr = "UP"]_vars

\* One hold of the button switches the power at most once, unless the 32u4 wakes
\* the CPU in its middle; else only the battery switches it a second time.
OneSwitchPerHold == [][toggled /\ pwr' # pwr => pc = "battery"]_vars

(* Liveness, under FairSpec, with a reader that came up: initStatus *)

\* A request noted by the ISR is eventually taken up, even when the CPU went to
\* sleep on it: the watchdog of the 32u4 makes the edge that wakes it again.
FlaggedRequestIsHandled == interrupted /\ initStatus ~> ~interrupted

\* Whatever session the host has left open: once it is gone, a device that is switched
\* off reaches sleep, and one that is switched on gets the card back and logs.
OffSleepsOnLogs ==
  <>[](~attached /\ initStatus) =>
    /\ <>[](pwr = "DOWN") => []<>(pc = "asleep")
    /\ <>[](pwr = "UP") => []<>(pc = "logging")

(* What comments of the code say and the code does not do *)

\* Switched on, the device has been through its wake up routine ("execute wake
\* up routine if any is defined", bg_pwr.cpp:215): it logs with its detector on.
LogsPoweredUp == pc = "logging" => powered

\* "as long as the state is down, we turn off" (bg_pwr.cpp:127): with the host
\* gone, a device that is switched off reaches sleep, card or no card.
DownReachesSleep == <>[](pwr = "DOWN" /\ ~attached) => []<>(pc = "asleep")
=============================================================================
