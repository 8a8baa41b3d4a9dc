--------------------------- MODULE MainCpuProofs ---------------------------
(***************************************************************************)
(* Proofs about MainCpu, for every card slot and with or without a host.   *)
(***************************************************************************)
EXTENDS MainCpu, TLAPS

\* The flag of the sleep routine is up whenever something is powered, and down
\* from the moment the routine has run until the wake up routine is behind.
FlagInv ==
  /\ powered => execSleep
  /\ pc \in InSleepCall \ {"down"} => ~execSleep

\* Who may hold the card where.
CardInv ==
  /\ pc \in InSleepCall => reader = "IDLE"
  /\ reader = "DISABLED" => pc \in {"logging", "unlock"}

\* Why power_up() has been called.
WakeInv ==
  /\ pc = "powerUp" => pwr = "UP" \/ interrupted
  /\ pc = "powerBody" => pwr = "UP"

IInv == TypeOK /\ FlagInv /\ CardInv /\ WakeInv

\* Every initial state satisfies the inductive invariant.
LEMMA InitIInv == Init => IInv
  BY CardSlotAssumption DEF Init, IInv, TypeOK, FlagInv, CardInv, WakeInv, Locations, InSleepCall

\* The main thread preserves the inductive invariant.
LEMMA MainStepIInv == IInv /\ MainStep => IInv'
<1> SUFFICES ASSUME IInv, MainStep PROVE IInv'
  OBVIOUS
<1> USE DEF IInv, TypeOK, FlagInv, CardInv, WakeInv, Locations, InSleepCall, Goto,
            readerVars, envVars
<1>1. CASE CheckBatteryVoltage
  BY <1>1 DEF CheckBatteryVoltage
<1>2. CASE ButtonHeld
  BY <1>2 DEF ButtonHeld
<1>3. CASE ButtonReleased
  BY <1>3 DEF ButtonReleased
<1>4. CASE NoButton
  BY <1>4 DEF NoButton
<1>5. CASE DownTest
  BY <1>5 DEF DownTest, MaySleep
<1>6. CASE Shutdown
  BY <1>6 DEF Shutdown
<1>7. CASE SleepMode
  BY <1>7 DEF SleepMode
<1>8. CASE HeldToWake
  BY <1>8 DEF HeldToWake
<1>9. CASE NotHeldToWake
  BY <1>9 DEF NotHeldToWake
<1>10. CASE WakeTest
  BY <1>10 DEF WakeTest
<1>11. CASE PowerUpSkipped
  BY <1>11 DEF PowerUpSkipped
<1>12. CASE PowerUpEntered
  BY <1>12 DEF PowerUpEntered
<1>13. CASE PowerUpBody
  BY <1>13, CardSlotAssumption DEF PowerUpBody
<1>14. ASSUME NEW cmd \in Commands, ProcessInterrupt(cmd)
       PROVE  IInv'
  BY <1>14 DEF ProcessInterrupt
<1>15. CASE ReaderTimeout
  BY <1>15 DEF ReaderTimeout
<1>16. CASE ReaderNothingToDo
  BY <1>16 DEF ReaderNothingToDo
<1>17. CASE SdReaderLock
  BY <1>17 DEF SdReaderLock, MayLock
<1>18. CASE SdReaderLockFails
  BY <1>18 DEF SdReaderLockFails
<1>19. CASE LogBody
  BY <1>19 DEF LogBody
<1>20. CASE SdReaderUnlock
  BY <1>20 DEF SdReaderUnlock
<1> QED
  BY <1>1, <1>2, <1>3, <1>4, <1>5, <1>6, <1>7, <1>8, <1>9, <1>10, <1>11, <1>12, <1>13,
     <1>14, <1>15, <1>16, <1>17, <1>18, <1>19, <1>20 DEF MainStep

\* So do the user, the host, the timer and the 32u4, at any point of the thread.
LEMMA EnvStepIInv == IInv /\ EnvStep => IInv'
<1> SUFFICES ASSUME IInv, EnvStep PROVE IInv'
  OBVIOUS
<1> USE DEF IInv, TypeOK, FlagInv, CardInv, WakeInv, Locations, InSleepCall, WakeOnEdge,
            mainVars, readerVars, envVars
<1>1. CASE PressButton
  <2>1. /\ button' \in BOOLEAN /\ toggled' \in BOOLEAN
        /\ pressed' \in BOOLEAN /\ pressAged' \in BOOLEAN
    BY <1>1 DEF PressButton
  <2>2. /\ pc' = IF pc = "asleep" THEN "woken" ELSE pc
        /\ UNCHANGED <<pwr, execSleep, reader, interrupted, readerAged, initStatus, powered,
                       card, attached, waiting>>
    BY <1>1 DEF PressButton
  <2> QED
    BY <2>1, <2>2
<1>2. CASE ReleaseButton
  <2>1. button' \in BOOLEAN
    BY <1>2 DEF ReleaseButton
  <2>2. /\ pc' = IF pc = "asleep" THEN "woken" ELSE pc
        /\ UNCHANGED <<pwr, execSleep, pressed, pressAged, reader, interrupted, readerAged,
                       initStatus, powered, toggled, card, attached, waiting>>
    BY <1>2 DEF ReleaseButton
  <2> QED
    BY <2>1, <2>2
<1>3. CASE PressAges
  BY <1>3 DEF PressAges
<1>4. CASE ReaderAges
  BY <1>4 DEF ReaderAges
<1>5. CASE ChangeCard
  BY <1>5 DEF ChangeCard
<1>6. CASE PlugUsb
  BY <1>6 DEF PlugUsb
<1>7. CASE UnplugUsb
  <2>1. attached' \in BOOLEAN
    BY <1>7 DEF UnplugUsb
  <2>2. UNCHANGED <<pc, pwr, execSleep, pressed, pressAged, reader, interrupted, readerAged,
                    initStatus, powered, toggled, button, card, waiting>>
    BY <1>7 DEF UnplugUsb
  <2> QED
    BY <2>1, <2>2
<1>8. CASE Request
  <2>1. waiting' \in BOOLEAN /\ interrupted' \in BOOLEAN /\ interrupted' /\ toggled' \in BOOLEAN
    BY <1>8 DEF Request
  <2>2. /\ pc' = IF pc = "asleep" THEN "woken" ELSE pc
        /\ UNCHANGED <<pwr, execSleep, pressed, pressAged, reader, readerAged, initStatus,
                       powered, button, card, attached>>
    BY <1>8 DEF Request
  <2> QED
    BY <2>1, <2>2
<1>9. CASE Watchdog
  <2>1. waiting' \in BOOLEAN /\ toggled' \in BOOLEAN
    BY <1>9 DEF Watchdog
  <2>2. /\ pc' = IF pc = "asleep" THEN "woken" ELSE pc
        /\ UNCHANGED <<pwr, execSleep, pressed, pressAged, reader, interrupted, readerAged,
                       initStatus, powered, button, card, attached>>
    BY <1>9 DEF Watchdog
  <2> QED
    BY <2>1, <2>2
<1> QED
  BY <1>1, <1>2, <1>3, <1>4, <1>5, <1>6, <1>7, <1>8, <1>9 DEF EnvStep

LEMMA StutterIInv == IInv /\ UNCHANGED vars => IInv'
  BY DEF IInv, TypeOK, FlagInv, CardInv, WakeInv, vars, mainVars, readerVars, envVars

\* IInv is an invariant of the controller.
THEOREM Invariance == Spec => []IInv
<1>1. IInv /\ [Next]_vars => IInv'
  BY MainStepIInv, EnvStepIInv, StutterIInv DEF Next
<1> QED
  BY InitIInv, <1>1, PTL DEF Spec

\* Every variable keeps its type.
THEOREM TypeCorrect == Spec => []TypeOK
<1>1. IInv => TypeOK
  BY DEF IInv
<1> QED
  BY <1>1, Invariance, PTL

\* Nothing is powered while the CPU sleeps.
THEOREM SleepsPoweredOffAlways == Spec => []SleepsPoweredOff
<1>1. IInv => SleepsPoweredOff
  BY DEF IInv, FlagInv, InSleepCall, SleepsPoweredOff
<1> QED
  BY <1>1, Invariance, PTL

\* No command of the 32u4 meets the logger's lock.
THEOREM NeverRefusedByLockAlways == Spec => []NeverRefusedByLock
<1>1. IInv => NeverRefusedByLock
  BY DEF IInv, CardInv, NeverRefusedByLock
<1> QED
  BY <1>1, Invariance, PTL

\* Sleeping and waking never meet an open session.
THEOREM SleepsWithReaderIdleAlways == Spec => []SleepsWithReaderIdle
<1>1. IInv => SleepsWithReaderIdle
  BY DEF IInv, CardInv, SleepsWithReaderIdle
<1> QED
  BY <1>1, Invariance, PTL

\* An open session is closed by sd_reader_loop() alone.
THEOREM SessionNotCutAlways == Spec => SessionNotCut
<1> DEFINE Cut == reader = "ACTIVE" /\ reader' # "ACTIVE"
                    => pc = "reader" /\ (interrupted \/ readerAged)
<1>1. ASSUME IInv, [Next]_vars, reader = "ACTIVE", reader' # "ACTIVE"
      PROVE  pc = "reader" /\ (interrupted \/ readerAged)
  <2> USE <1>1 DEF IInv, CardInv, InSleepCall, Goto, readerVars, mainVars
  <2>1. CASE \E cmd \in Commands : ProcessInterrupt(cmd)
    BY <2>1 DEF ProcessInterrupt
  <2>2. CASE ReaderTimeout
    BY <2>2 DEF ReaderTimeout
  <2>3. CASE PowerUpBody
    BY <2>3 DEF PowerUpBody
  <2>4. CASE SdReaderLock
    BY <2>4 DEF SdReaderLock, MayLock
  <2>5. CASE SdReaderUnlock
    BY <2>5 DEF SdReaderUnlock
  <2>6. CASE UNCHANGED reader
    BY <2>6
  <2> QED
    BY <2>1, <2>2, <2>3, <2>4, <2>5, <2>6
    DEF Next, MainStep, EnvStep, vars, CheckBatteryVoltage, ButtonHeld, ButtonReleased,
        NoButton, DownTest, Shutdown, SleepMode, HeldToWake, NotHeldToWake, WakeTest,
        PowerUpSkipped, PowerUpEntered, ReaderNothingToDo, SdReaderLockFails, LogBody,
        PressButton, ReleaseButton, PressAges, ReaderAges, ChangeCard, PlugUsb, UnplugUsb,
        Request, Watchdog
<1>2. IInv /\ [Next]_vars => [Cut]_vars
  BY <1>1
<1> QED
  BY <1>2, Invariance, PTL DEF Spec, SessionNotCut

\* Only the button switches the detector on.
THEOREM PowersUpForUserOnlyAlways == Spec => PowersUpForUserOnly
<1>1. ASSUME IInv, [Next]_vars, ~powered, powered'
      PROVE  pwr = "UP"
  <2> USE <1>1 DEF IInv, WakeInv, Goto, readerVars, mainVars
  <2>1. CASE PowerUpBody
    BY <2>1 DEF PowerUpBody
  <2>2. CASE Shutdown
    BY <2>2 DEF Shutdown
  <2>3. CASE UNCHANGED powered
    BY <2>3
  <2> QED
    BY <2>1, <2>2, <2>3
    DEF Next, MainStep, EnvStep, vars, CheckBatteryVoltage, ButtonHeld, ButtonReleased,
        NoButton, DownTest, SleepMode, HeldToWake, NotHeldToWake, WakeTest, PowerUpSkipped,
        PowerUpEntered, ProcessInterrupt, ReaderTimeout, ReaderNothingToDo, SdReaderLock,
        SdReaderLockFails, LogBody, SdReaderUnlock, PressButton, ReleaseButton, PressAges,
        ReaderAges, ChangeCard, PlugUsb, UnplugUsb, Request, Watchdog
<1>2. IInv /\ [Next]_vars => [~powered /\ powered' => pwr = "UP"]_vars
  BY <1>1
<1> QED
  BY <1>2, Invariance, PTL DEF Spec, PowersUpForUserOnly

(***************************************************************************)
(* The button.  A press that is noted has switched nothing yet, and a hold *)
(* that wakes the CPU began with the press that woke it, or the 32u4 woke  *)
(* it since.                                                               *)
(***************************************************************************)
HoldInv ==
  /\ pressed => ~toggled
  /\ pc = "woken" /\ button => ~toggled

LEMMA InitHoldInv == Init => HoldInv
  BY DEF Init, HoldInv

LEMMA StepHoldInv == TypeOK /\ HoldInv /\ [Next]_vars => HoldInv'
<1> SUFFICES ASSUME TypeOK, HoldInv, [Next]_vars PROVE HoldInv'
  OBVIOUS
<1> USE DEF TypeOK, HoldInv, Goto, mainVars, readerVars, envVars
<1>1. CASE ButtonHeld
  BY <1>1 DEF ButtonHeld
<1>2. CASE ButtonReleased
  BY <1>2 DEF ButtonReleased
<1>3. CASE HeldToWake
  BY <1>3 DEF HeldToWake
<1>4. CASE NotHeldToWake
  BY <1>4 DEF NotHeldToWake
<1>5. CASE PressButton
  <2>1. toggled' = FALSE
    BY <1>5 DEF PressButton
  <2> QED
    BY <2>1
<1>6. CASE ReleaseButton
  <2>1. button' = FALSE /\ UNCHANGED <<pressed, toggled>>
    BY <1>6 DEF ReleaseButton
  <2> QED
    BY <2>1
<1>7. ASSUME NEW cmd \in Commands, ProcessInterrupt(cmd)
      PROVE  HoldInv'
  BY <1>7 DEF ProcessInterrupt
<1>8. CASE pc' # "woken" /\ UNCHANGED <<pressed, toggled, button>>
  BY <1>8
<1>9. CASE PressAges \/ ReaderAges \/ ChangeCard \/ PlugUsb \/ UnplugUsb \/ UNCHANGED vars
  <2>1. UNCHANGED <<pc, pressed, toggled, button>>
    BY <1>9 DEF PressAges, ReaderAges, ChangeCard, PlugUsb, UnplugUsb, vars
  <2> QED
    BY <2>1
<1>10. CASE Request \/ Watchdog
  <2>1. toggled' = FALSE
    BY <1>10 DEF Request, Watchdog
  <2> QED
    BY <2>1
<1> QED
  BY <1>1, <1>2, <1>3, <1>4, <1>5, <1>6, <1>7, <1>8, <1>9, <1>10
  DEF Next, MainStep, EnvStep, CheckBatteryVoltage, NoButton, DownTest, Shutdown, SleepMode,
      WakeTest, PowerUpSkipped, PowerUpEntered, PowerUpBody, ReaderTimeout, ReaderNothingToDo,
      SdReaderLock, SdReaderLockFails, LogBody, SdReaderUnlock

\* One hold of the button, that the 32u4 does not disturb, switches the power at
\* most once.
THEOREM OneSwitchPerHoldAlways == Spec => OneSwitchPerHold
<1>1. ASSUME TypeOK, HoldInv, [Next]_vars, toggled, pwr' # pwr
      PROVE  pc = "battery"
  <2> USE <1>1 DEF TypeOK, HoldInv, Goto, mainVars, readerVars, envVars
  <2>1. CASE ButtonHeld
    BY <2>1 DEF ButtonHeld
  <2>2. CASE HeldToWake
    BY <2>2 DEF HeldToWake
  <2>3. CASE CheckBatteryVoltage
    BY <2>3 DEF CheckBatteryVoltage
  <2>4. CASE UNCHANGED pwr
    BY <2>4
  <2> QED
    BY <2>1, <2>2, <2>3, <2>4
    DEF Next, MainStep, EnvStep, vars, ButtonReleased, NoButton, DownTest, Shutdown,
        SleepMode, NotHeldToWake, WakeTest, PowerUpSkipped, PowerUpEntered, PowerUpBody,
        ProcessInterrupt, ReaderTimeout, ReaderNothingToDo, SdReaderLock, SdReaderLockFails,
        LogBody, SdReaderUnlock, PressButton, ReleaseButton, PressAges, ReaderAges,
        ChangeCard, PlugUsb, UnplugUsb, Request, Watchdog
<1>2. TypeOK /\ HoldInv /\ [Next]_vars => HoldInv'
  BY StepHoldInv
<1>3. TypeOK /\ HoldInv /\ [Next]_vars => [toggled /\ pwr' # pwr => pc = "battery"]_vars
  BY <1>1
<1> QED
  BY InitHoldInv, TypeCorrect, <1>2, <1>3, PTL DEF Spec, OneSwitchPerHold
=============================================================================
