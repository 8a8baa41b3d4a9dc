-------------------------- MODULE HardwareCounter --------------------------
(***************************************************************************)
(* The pulse counter of the Geiger tube (HardwareCounter.cpp): a timer of  *)
(* the ATmega clocked by the tube, an interrupt that counts its overflows, *)
(* and a main thread that restarts the count and reads it.                 *)
(*                                                                         *)
(* A pulse can come between any two instructions of the main thread; the   *)
(* overflow interrupt runs before its next one.  The statements are taken  *)
(* in the order of the source.                                             *)
(***************************************************************************)
EXTENDS Integers

CONSTANTS
  Mod,        \* the timer counts modulo Mod (2^16)
  Clock,      \* millis() counts modulo Clock (2^32)
  Delay,      \* _delay, in ticks of millis()
  MaxPulses,  \* bound: pulses counted between two restarts
  MaxAge      \* bound: ticks followed after a restart

ASSUME ModAssumption == Mod \in Nat \ {0, 1}
ASSUME TimeAssumption == Clock \in Nat /\ Delay \in Nat /\ MaxAge \in Nat /\ MaxAge < Clock
ASSUME PulsesAssumption == MaxPulses \in Nat

VARIABLES
  pc,         \* where the main thread is in start() and count()
  tcnt,       \* TCNTn
  tov,        \* TOVn: the overflow interrupt is pending
  ovf,        \* g_ovf_n
  saved,      \* _count
  result,     \* what count() returned last
  now,        \* millis()
  startTime,  \* _start_time
  crowded,    \* a pulse has already come since the main thread's last step
  seen,       \* history: pulses that came while counting, since TCNTn was reset
  taken,      \* history: seen, when count() closed the gate
  age         \* history: ticks since start() read millis()

timeVars == <<now, startTime, age>>
countVars == <<tcnt, tov, ovf, seen>>
resultVars == <<saved, result, taken>>
vars == <<pc, crowded, timeVars, countVars, resultVars>>

(***************************************************************************)
(* off       before the first start()                                      *)
(* opened    start(): the gate is open, TCNTn not reset yet                *)
(* zeroed    start(): between TCNTn = 0 and g_ovf_n = 0                    *)
(* counting  between the calls                                             *)
(* gated     count(): the gate is closed                                   *)
(* saved     count(): _count is taken, the gate still closed               *)
(* reopened  count(): the gate is open again, g_ovf_n not read yet         *)
(* counted   count() has returned                                          *)
(***************************************************************************)
Counting == {"counting", "gated", "saved", "reopened", "counted"}
Locations == Counting \cup {"off", "opened", "zeroed"}
GateOpen == pc \notin {"off", "gated", "saved"}

TypeOK ==
  /\ pc \in Locations
  /\ tcnt \in 0 .. Mod - 1
  /\ tov \in BOOLEAN
  /\ ovf \in Nat
  /\ saved \in 0 .. Mod - 1
  /\ result \in Nat
  /\ now \in 0 .. Clock - 1
  /\ startTime \in 0 .. Clock - 1
  /\ crowded \in BOOLEAN
  /\ seen \in Nat
  /\ taken \in Nat
  /\ age \in 0 .. MaxAge

Init ==
  /\ pc = "off"
  /\ tcnt = 0 /\ tov = FALSE /\ ovf = 0
  /\ saved = 0 /\ result = 0
  /\ now \in 0 .. Clock - 1
  /\ startTime = 0
  /\ crowded = FALSE
  /\ seen = 0 /\ taken = 0 /\ age = 0

\* The main thread goes on, unless the interrupt is due first.
Goto(from, to) == pc = from /\ ~tov /\ pc' = to /\ crowded' = FALSE

-----------------------------------------------------------------------------
(* start(): the registers, then TCNTn, then g_ovf_n *)

Start ==
  /\ \E from \in {"off", "counting", "counted"} : Goto(from, "opened")
  /\ startTime' = now
  /\ age' = 0
  /\ UNCHANGED <<now, countVars, resultVars>>

ResetTimer ==
  /\ Goto("opened", "zeroed")
  /\ tcnt' = 0
  /\ seen' = 0
  /\ UNCHANGED <<tov, ovf, timeVars, resultVars>>

ResetOverflows ==
  /\ Goto("zeroed", "counting")
  /\ ovf' = 0
  /\ saved' = 0
  /\ UNCHANGED <<tcnt, tov, seen, timeVars, result, taken>>

-----------------------------------------------------------------------------
(* count() *)

CloseGate ==
  /\ Goto("counting", "gated")
  /\ taken' = seen
  /\ UNCHANGED <<timeVars, countVars, saved, result>>

\* Mutant: the sixteen bits of _count take the whole reading.
SaveReading ==
  /\ Goto("gated", "saved")
  /\ saved' = Mod * ovf + tcnt
  /\ UNCHANGED <<timeVars, countVars, result, taken>>

SaveCount ==
  /\ Goto("gated", "saved")
  /\ saved' = tcnt
  /\ UNCHANGED <<timeVars, countVars, result, taken>>

ReopenGate ==
  /\ Goto("saved", "reopened")
  /\ UNCHANGED <<timeVars, countVars, resultVars>>

\* Mutant: the timer is read where it should not be, after the gate is open.
ReturnLiveCount ==
  /\ Goto("reopened", "counted")
  /\ result' = Mod * ovf + tcnt
  /\ UNCHANGED <<timeVars, countVars, saved, taken>>

ReturnCount ==
  /\ Goto("reopened", "counted")
  /\ result' = Mod * ovf + saved
  /\ UNCHANGED <<timeVars, countVars, saved, taken>>

-----------------------------------------------------------------------------
(* available() *)

\* Mutant: millis() is taken never to overflow.
AvailableBeforeWrap == now >= startTime /\ now - startTime >= Delay

\* Unsigned arithmetic: ULONG_MAX is Clock - 1.
Available ==
  IF now >= startTime
    THEN now - startTime >= Delay
    ELSE (Clock - 1 + now - startTime) % Clock >= Delay

-----------------------------------------------------------------------------
(* The tube, the interrupt and the clock *)

\* A pulse on the timer's pin.  Pulses are further apart than the instructions
\* between two of the steps that must not be far apart.
Pulse ==
  /\ GateOpen
  /\ seen < MaxPulses
  /\ ~tov
  /\ pc \in {"zeroed", "reopened"} => ~crowded
  /\ crowded' = TRUE
  /\ tcnt' = (tcnt + 1) % Mod
  /\ tov' = (tcnt = Mod - 1)
  /\ seen' = seen + 1
  /\ UNCHANGED <<pc, ovf, timeVars, resultVars>>

\* ISR(TIMERn_OVF_vect)
CountOverflow ==
  /\ tov
  /\ tov' = FALSE
  /\ ovf' = ovf + 1
  /\ UNCHANGED <<pc, crowded, tcnt, seen, timeVars, resultVars>>

Tick ==
  /\ pc # "off" /\ age < MaxAge
  /\ now' = (now + 1) % Clock
  /\ age' = age + 1
  /\ UNCHANGED <<pc, crowded, startTime, countVars, resultVars>>

Next ==
  \/ Start \/ ResetTimer \/ ResetOverflows
  \/ CloseGate \/ SaveCount \/ ReopenGate \/ ReturnCount
  \/ Pulse \/ CountOverflow \/ Tick

Spec == Init /\ [][Next]_vars

-----------------------------------------------------------------------------
(* Properties *)

\* Timer, pending interrupt and overflow count together hold every pulse since
\* the restart, whenever start() is called and wherever a pulse meets it.
CounterHoldsPulses ==
  pc \in Counting => seen = Mod * ovf + tcnt + (IF tov THEN Mod ELSE 0)

\* count() returns the pulses that came before it closed the gate - or, if the
\* timer stood at its last value there, possibly one turn of the timer too many.
CountIsPulsesOrOneTurnMore ==
  pc = "counted" => result = taken \/ (result = taken + Mod /\ saved = Mod - 1)

\* Across the overflow of millis() the period is never cut short, and is noticed
\* at most one tick late.
AvailableInTime ==
  pc = "counting" => /\ Available => age >= Delay
                     /\ age > Delay => Available
=============================================================================
