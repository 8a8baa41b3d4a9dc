--------------------------- MODULE CountingProofs ---------------------------
(***************************************************************************)
(* From a pulse to a line of the log.  The pulse counter, for every width  *)
(* of the timer, every width of millis() and every number of pulses; then  *)
(* the window and the log file, for every window and every drive.          *)
(*                                                                         *)
(* What the loop of cpm_gen() computes is proved by induction over its     *)
(* bins: the theorems of the library about induction take an operator, so  *)
(* the induction is done here on sets of numbers, from the least element   *)
(* that the well-foundedness of < gives.                                   *)
(***************************************************************************)
EXTENDS HardwareCounter, GeigerLog, WellFoundedInduction, TLAPS

-----------------------------------------------------------------------------
(* The pulse counter *)

\* Between the two resets of start() at most one pulse comes, and it cannot
\* overflow the timer.
ResetInv ==
  pc = "zeroed" => ~tov /\ seen = tcnt /\ tcnt \in {0, 1} /\ (~crowded => tcnt = 0)

\* While count() runs, the overflow it must not see is the one of the pulse that
\* came since the gate was opened again.
ReadInv ==
  /\ pc \in {"gated", "saved"} => ~tov /\ taken = seen
  /\ pc = "saved" => saved = tcnt
  /\ pc = "reopened" =>
       /\ ~crowded => tcnt = saved /\ ~tov
       /\ \/ taken = Mod * ovf + saved /\ (tov => saved = Mod - 1)
          \/ taken = Mod * (ovf - 1) + saved /\ ~tov /\ saved = Mod - 1 /\ crowded

CountInv == TypeOK /\ CounterHoldsPulses /\ ResetInv /\ ReadInv /\ CountIsPulsesOrOneTurnMore

\* millis() is where the age of the count says, one turn of it later or not.
ClockInv ==
  /\ TypeOK
  /\ pc # "off" => now = startTime + age \/ now = startTime + age - Clock

-----------------------------------------------------------------------------

\* Types are kept by every statement of start() and count(), by the tube, the
\* interrupt and the clock.
LEMMA TypesKept == TypeOK /\ [Next]_vars => TypeOK'
<1> SUFFICES ASSUME TypeOK, [Next]_vars PROVE TypeOK'
  OBVIOUS
<1> USE ModAssumption, TimeAssumption, PulsesAssumption DEF TypeOK, Locations, Counting
<1>0. 0 \in 0 .. Mod - 1 /\ 0 \in 0 .. Clock - 1 /\ 0 \in 0 .. MaxAge /\ 0 \in Nat
  OBVIOUS
<1>1. CASE Start
  BY <1>0, <1>1 DEF Start, Goto, countVars, resultVars
<1>2. CASE ResetTimer
  BY <1>0, <1>2 DEF ResetTimer, Goto, timeVars, resultVars
<1>3. CASE ResetOverflows
  BY <1>0, <1>3 DEF ResetOverflows, Goto, timeVars
<1>4. CASE CloseGate
  BY <1>4 DEF CloseGate, Goto, timeVars, countVars
<1>5. CASE SaveCount
  BY <1>5 DEF SaveCount, Goto, timeVars, countVars
<1>6. CASE ReopenGate
  BY <1>6 DEF ReopenGate, Goto, timeVars, countVars, resultVars
<1>7. CASE ReturnCount
  <2>1. result' = Mod * ovf + saved /\ Mod * ovf \in Nat
    BY <1>7 DEF ReturnCount
  <2>2. result' \in Nat
    BY <2>1
  <2>3. QED
    BY <1>7, <2>2 DEF ReturnCount, Goto, timeVars, countVars
<1>8. CASE Pulse
  <2>1. (tcnt + 1) % Mod \in 0 .. Mod - 1
    OBVIOUS
  <2>2. tov' \in BOOLEAN
    BY <1>8 DEF Pulse
  <2>3. QED
    BY <1>8, <2>1, <2>2 DEF Pulse, timeVars, resultVars
<1>9. CASE CountOverflow
  <2>1. tov' \in BOOLEAN /\ ovf' = ovf + 1
    BY <1>9, Zenon DEF CountOverflow
  <2>2. pc' = pc /\ tcnt' = tcnt /\ seen' = seen /\ UNCHANGED timeVars /\ UNCHANGED resultVars
    BY <1>9 DEF CountOverflow
  <2>3. crowded' \in BOOLEAN
    BY <1>9 DEF CountOverflow
  <2>4. QED
    BY <2>1, <2>2, <2>3 DEF timeVars, resultVars
<1>10. CASE Tick
  <2>1. (now + 1) % Clock \in 0 .. Clock - 1
    OBVIOUS
  <2>2. QED
    BY <1>10, <2>1 DEF Tick, countVars, resultVars
<1>11. CASE UNCHANGED vars
  BY <1>11 DEF vars, timeVars, countVars, resultVars
<1>12. QED
  BY <1>1, <1>2, <1>3, <1>4, <1>5, <1>6, <1>7, <1>8, <1>9, <1>10, <1>11 DEF Next

LEMMA TypesInit == Init => TypeOK
<1>1. 0 \in 0 .. Mod - 1 /\ 0 \in 0 .. Clock - 1 /\ 0 \in 0 .. MaxAge
  BY ModAssumption, TimeAssumption
<1>2. ASSUME Init PROVE (tov \in BOOLEAN /\ crowded \in BOOLEAN) /\ pc \in Locations
  BY <1>2 DEF Init, Locations
<1>3. ASSUME Init PROVE ovf \in Nat /\ result \in Nat /\ seen \in Nat /\ taken \in Nat
  BY <1>3 DEF Init
<1>4. QED
  BY <1>1, <1>2, <1>3 DEF Init, TypeOK

\* Every variable keeps its type, for every width of the counters.
THEOREM TypeCorrect == Spec => []TypeOK
BY TypesInit, TypesKept, PTL DEF Spec

-----------------------------------------------------------------------------

\* The next value of a counter of width W: no turn, or one.
LEMMA NextModulo ==
  ASSUME NEW W \in Nat \ {0}, NEW x \in 0 .. W - 1
  PROVE  (x + 1) % W = IF x = W - 1 THEN 0 ELSE x + 1
<1>1. CASE x = W - 1
  <2>1. W % W = 0
    OBVIOUS
  <2>2. QED
    BY <1>1, <2>1
<1>2. CASE x # W - 1
  <2>1. x + 1 \in 0 .. W - 1
    BY <1>2
  <2>2. QED
    BY <1>2, <2>1
<1>3. QED
  BY <1>1, <1>2

\* One more turn of the timer.
LEMMA OneTurn == ASSUME NEW n \in Int, NEW W \in Int PROVE W * (n + 1) = W * n + W
OBVIOUS

LEMMA CountKept == CountInv /\ [Next]_vars => CountInv'
<1> SUFFICES ASSUME CountInv, [Next]_vars PROVE CountInv'
  OBVIOUS
<1>t. TypeOK' /\ TypeOK
  BY TypesKept DEF CountInv
<1>m. Mod * ovf \in Int /\ Mod * (ovf - 1) \in Int /\ Mod * ovf = Mod * (ovf - 1) + Mod
  <2>1. ovf - 1 \in Int /\ (ovf - 1) + 1 = ovf /\ Mod \in Int
    BY <1>t, ModAssumption DEF TypeOK
  <2>2. QED
    BY <2>1, OneTurn
<1> USE ModAssumption DEF CountInv, CounterHoldsPulses, ResetInv, ReadInv,
      CountIsPulsesOrOneTurnMore, Counting
<1>1. CASE Start
  BY <1>1, <1>t DEF Start, Goto, countVars, resultVars, TypeOK
<1>2. CASE ResetTimer
  BY <1>2, <1>t DEF ResetTimer, Goto, timeVars, resultVars, TypeOK
<1>3. CASE ResetOverflows
  <2>1. Mod * 0 = 0
    OBVIOUS
  <2>2. QED
    BY <1>3, <1>t, <2>1 DEF ResetOverflows, Goto, timeVars, TypeOK
<1>4. CASE CloseGate
  BY <1>4, <1>t DEF CloseGate, Goto, timeVars, countVars, TypeOK
<1>5. CASE SaveCount
  BY <1>5, <1>t DEF SaveCount, Goto, timeVars, countVars, TypeOK
<1>6. CASE ReopenGate
  BY <1>6, <1>t DEF ReopenGate, Goto, timeVars, countVars, resultVars, TypeOK
<1>7. CASE ReturnCount
  BY <1>7, <1>t, <1>m DEF ReturnCount, Goto, timeVars, countVars, TypeOK
<1>8. CASE Pulse
  <2>1. tcnt' = IF tcnt = Mod - 1 THEN 0 ELSE tcnt + 1
    BY <1>8, <1>t, NextModulo DEF Pulse, TypeOK
  <2>2. CASE tcnt = Mod - 1
    <3>1. tov' = TRUE /\ ~tov
      BY <1>8, <2>2 DEF Pulse
    <3>2. QED
      BY <1>8, <1>t, <1>m, <2>1, <2>2, <3>1 DEF Pulse, timeVars, resultVars, TypeOK, GateOpen
  <2>3. CASE tcnt # Mod - 1
    <3>1. tov' = FALSE /\ ~tov
      BY <1>8, <2>3 DEF Pulse
    <3>2. QED
      BY <1>8, <1>t, <1>m, <2>1, <2>3, <3>1 DEF Pulse, timeVars, resultVars, TypeOK, GateOpen
  <2>4. QED
    BY <2>2, <2>3
<1>9. CASE CountOverflow
  <2>1. tov /\ ~tov' /\ ovf' = ovf + 1
    BY <1>9 DEF CountOverflow
  <2>2. Mod * ovf' = Mod * ovf + Mod /\ Mod * (ovf' - 1) = Mod * ovf /\ Mod * ovf' \in Int
    BY <2>1, <1>t, OneTurn DEF TypeOK
  <2>3. QED
    BY <1>9, <1>t, <1>m, <2>1, <2>2 DEF CountOverflow, timeVars, resultVars, TypeOK
<1>10. CASE Tick
  BY <1>10, <1>t DEF Tick, countVars, resultVars, TypeOK
<1>11. CASE UNCHANGED vars
  BY <1>11, <1>t DEF vars, timeVars, countVars, resultVars, TypeOK
<1>12. QED
  BY <1>1, <1>2, <1>3, <1>4, <1>5, <1>6, <1>7, <1>8, <1>9, <1>10, <1>11 DEF Next

LEMMA CountInit == Init => CountInv
BY TypesInit DEF Init, CountInv, CounterHoldsPulses, ResetInv, ReadInv,
  CountIsPulsesOrOneTurnMore, Counting

\* The timer, the pending interrupt and the overflow count hold every pulse.
THEOREM CounterHoldsPulsesAlways == Spec => []CounterHoldsPulses
BY CountInit, CountKept, PTL DEF Spec, CountInv

\* A reading is exact, or one turn of the timer too high and then only if the
\* timer stood at its last value.
THEOREM CountIsPulsesOrOneTurnMoreAlways == Spec => []CountIsPulsesOrOneTurnMore
BY CountInit, CountKept, PTL DEF Spec, CountInv

-----------------------------------------------------------------------------

LEMMA ClockKept == ClockInv /\ [Next]_vars => ClockInv'
<1> SUFFICES ASSUME ClockInv, [Next]_vars PROVE ClockInv'
  OBVIOUS
<1>t. TypeOK' /\ TypeOK
  BY TypesKept DEF ClockInv
<1> USE TimeAssumption DEF ClockInv
<1>1. CASE Start
  BY <1>1, <1>t DEF Start, Goto, TypeOK
<1>2. CASE UNCHANGED timeVars /\ pc # "off"
  BY <1>2, <1>t DEF timeVars, TypeOK
<1>3. CASE UNCHANGED timeVars /\ pc = "off" /\ pc' = "off"
  BY <1>3, <1>t DEF timeVars, TypeOK
<1>4. CASE Tick
  <2>1. now' = IF now = Clock - 1 THEN 0 ELSE now + 1
    <3>1. Clock \in Nat \ {0} /\ now \in 0 .. Clock - 1 /\ now' = (now + 1) % Clock
      BY <1>4, <1>t DEF Tick, TypeOK
    <3>2. QED
      BY <3>1, NextModulo
  <2>2. QED
    BY <1>4, <1>t, <2>1 DEF Tick, TypeOK
<1>5. QED
  BY <1>1, <1>2, <1>3, <1>4 DEF Next, vars, Goto, ResetTimer, ResetOverflows, CloseGate,
     SaveCount, ReopenGate, ReturnCount, Pulse, CountOverflow, GateOpen

LEMMA ClockInit == Init => ClockInv
BY TypesInit DEF Init, ClockInv

\* A number below W is its own remainder.
LEMMA SmallModulo ==
  ASSUME NEW W \in Nat \ {0}, NEW x \in 0 .. W - 1
  PROVE  x % W = x
OBVIOUS

\* What the comparison of available() needs of the clock: across the overflow of
\* millis() it computes one tick less than has passed.
LEMMA PeriodMeasured == ClockInv => AvailableInTime
<1> SUFFICES ASSUME ClockInv, pc = "counting"
             PROVE  (Available => age >= Delay) /\ (age > Delay => Available)
  BY DEF AvailableInTime
<1> USE TimeAssumption DEF ClockInv, TypeOK
<1>1. CASE now >= startTime
  <2>1. age = now - startTime
    BY <1>1
  <2>2. QED
    BY <1>1, <2>1 DEF Available
<1>2. CASE ~(now >= startTime)
  <2>1. Clock - 1 + now - startTime \in 0 .. Clock - 1
    BY <1>2
  <2>2. (Clock - 1 + now - startTime) % Clock = Clock - 1 + now - startTime
    BY <2>1, SmallModulo
  <2>3. age = Clock + now - startTime
    BY <1>2
  <2>4. QED
    BY <1>2, <2>2, <2>3 DEF Available
<1>3. QED
  BY <1>1, <1>2

\* The period is measured across the overflow of millis(), to one tick.
THEOREM AvailableInTimeAlways == Spec => []AvailableInTime
BY ClockInit, ClockKept, PeriodMeasured, PTL DEF Spec

-----------------------------------------------------------------------------
(* The window and the log file *)

\* The register and the history of bins are arrays of the window's length.
ArraysInv ==
  /\ regIndex \in Bins
  /\ DOMAIN shiftReg = Bins
  /\ shiftReg = [b \in Bins |-> shiftReg[b]]

\* Where the k-th last bin is in the register.
Place(k) == IF k <= regIndex THEN regIndex - k ELSE regIndex - k + NX

\* The register is a ring: before regIndex come the last NX bins of the drive, latest
\* first, however it has been turned and cleared; cpm_gen() sums these and no others.
WindowIsRing == \A k \in 1 .. NX : shiftReg[Place(k)] = recent[k]

RingInv == ArraysInv /\ WindowIsRing

\* str_count never runs ahead of the bins that are in the window.
StatusInv ==
  /\ done \in 0 .. MaxRun /\ strCount \in 0 .. NX
  /\ strCount <= done
  /\ ValidAfterFullWindow

\* Every line went to the file that has its name now.
FileInv == files \subseteq {filename} /\ (files # {} => rtcAcq)

-----------------------------------------------------------------------------

\* Where the ring goes on after its index.
LEMMA NextIndex ==
  ASSUME NEW i \in Bins
  PROVE  (i + 1) % NX = IF i = NX - 1 THEN 0 ELSE i + 1
<1> USE WindowAssumption DEF Bins
<1>1. CASE i = NX - 1
  <2>1. NX % NX = 0
    OBVIOUS
  <2>2. QED
    BY <1>1, <2>1
<1>2. CASE i # NX - 1
  <2>1. i + 1 \in 0 .. NX - 1
    BY <1>2
  <2>2. QED
    BY <1>2, <2>1
<1>3. QED
  BY <1>1, <1>2

LEMMA RingInit == LogInit => RingInv
<1> SUFFICES ASSUME LogInit PROVE RingInv
  OBVIOUS
<1>1. ArraysInv
  BY WindowAssumption DEF LogInit, ArraysInv, Bins
<1>2. WindowIsRing
  BY WindowAssumption DEF LogInit, WindowIsRing, Place, Bins
<1>3. QED
  BY <1>1, <1>2 DEF RingInv

\* A new bin takes the place of the oldest one, and all others grow older by one.
LEMMA RingBin ==
  ASSUME RingInv, NEW count \in Counts, Bin(count)
  PROVE  RingInv'
<1> USE WindowAssumption DEF RingInv, ArraysInv
<1>1. regIndex' = IF regIndex = NX - 1 THEN 0 ELSE regIndex + 1
  <2>1. regIndex' = (regIndex + 1) % NX
    BY DEF Bin, InsertBin
  <2>2. QED
    BY <2>1, NextIndex
<1>2. shiftReg' = [shiftReg EXCEPT ![regIndex] = count]
  BY DEF Bin, InsertBin
<1>3. ArraysInv'
  <2>1. regIndex' \in Bins
    BY <1>1 DEF Bins
  <2>2. QED
    BY <1>2, <2>1
<1>4. ASSUME NEW k \in 1 .. NX PROVE shiftReg'[Place(k)'] = recent'[k]
  <2>1. recent' = [m \in 1 .. NX |-> IF m = 1 THEN count ELSE recent[m - 1]]
    BY DEF Bin
  <2>2. CASE k = 1
    <3>1. Place(k)' = regIndex
      BY <1>1, <2>2 DEF Place, Bins
    <3>2. QED
      BY <1>2, <2>1, <2>2, <3>1
  <2>3. CASE k # 1
    <3>1. k - 1 \in 1 .. NX
      BY <2>3
    <3>2. Place(k)' = Place(k - 1) /\ Place(k - 1) \in Bins /\ Place(k - 1) # regIndex
      BY <1>1, <2>3 DEF Place, Bins
    <3>3. shiftReg[Place(k - 1)] = recent[k - 1]
      BY <3>1 DEF WindowIsRing
    <3>4. QED
      BY <1>2, <2>1, <2>3, <3>2, <3>3
  <2>4. QED
    BY <2>2, <2>3
<1>5. WindowIsRing'
  BY <1>4 DEF WindowIsRing
<1>6. QED
  BY <1>3, <1>5

LEMMA RingKept == RingInv /\ [LogNext]_logVars => RingInv'
<1> SUFFICES ASSUME RingInv, [LogNext]_logVars PROVE RingInv'
  OBVIOUS
<1>1. ASSUME NEW count \in Counts, Bin(count) PROVE RingInv'
  BY <1>1, RingBin
<1>2. CASE PowerUp
  <2>1. ArraysInv'
    BY <1>2, WindowAssumption DEF PowerUp, GlobalVariablesInit, ArraysInv, Bins
  <2>2. WindowIsRing'
    BY <1>2, WindowAssumption DEF PowerUp, GlobalVariablesInit, WindowIsRing, Place, Bins
  <2>3. QED
    BY <2>1, <2>2 DEF RingInv
<1>3. CASE UNCHANGED <<shiftReg, regIndex, recent>>
  BY <1>3 DEF RingInv, ArraysInv, WindowIsRing, Place
<1>4. QED
  BY <1>1, <1>2, <1>3 DEF LogNext, logVars, GpsCharacters, GpsRmc, GpsOtherLine,
     windowVars, historyVars

\* The register is a ring that holds the last bins of the drive, latest first; what
\* CpmIsLastBins says of the sum rests on it.
THEOREM WindowIsRingAlways == LogSpec => []WindowIsRing
BY RingInit, RingKept, PTL DEF LogSpec, RingInv

-----------------------------------------------------------------------------

LEMMA StatusKept == StatusInv /\ [LogNext]_logVars => StatusInv'
<1> SUFFICES ASSUME StatusInv, [LogNext]_logVars PROVE StatusInv'
  OBVIOUS
<1> USE WindowAssumption, BoundsAssumption DEF StatusInv, ValidAfterFullWindow
<1>1. ASSUME NEW count \in Counts, Bin(count) PROVE StatusInv'
  <2>1. done' = IF done + 1 < MaxRun THEN done + 1 ELSE MaxRun
    BY <1>1 DEF Bin, AtMost
  <2>2. SetStatus
    BY <1>1 DEF Bin
  <2>3. CASE strCount < NX
    BY <2>1, <2>2, <2>3 DEF SetStatus
  <2>4. CASE ~(strCount < NX)
    <3>1. strCount' = strCount /\ strCount = NX /\ done >= NX
      BY <2>2, <2>4 DEF SetStatus
    <3>2. done' > NX /\ done' \in 0 .. MaxRun
      BY <2>1, <3>1
    <3>3. status' = IF cpm' = 0 THEN "V" ELSE "A"
      BY <2>2, <2>4 DEF SetStatus
    <3>4. QED
      BY <3>1, <3>2, <3>3
  <2>5. QED
    BY <2>3, <2>4
<1>2. CASE PowerUp
  BY <1>2 DEF PowerUp, GlobalVariablesInit
<1>3. CASE UNCHANGED <<done, strCount, status, cpm>>
  BY <1>3
<1>4. QED
  BY <1>1, <1>2, <1>3 DEF LogNext, logVars, GpsCharacters, GpsRmc, GpsOtherLine,
     windowVars, historyVars

LEMMA StatusInit == LogInit => StatusInv
BY WindowAssumption, BoundsAssumption DEF LogInit, StatusInv, ValidAfterFullWindow

\* A line is valid only after more bins than the window holds, and not when empty.
THEOREM ValidAfterFullWindowAlways == LogSpec => []ValidAfterFullWindow
BY StatusInit, StatusKept, PTL DEF LogSpec, StatusInv

-----------------------------------------------------------------------------

LEMMA FileKept == FileInv /\ [LogNext]_logVars => FileInv'
<1> SUFFICES ASSUME FileInv, [LogNext]_logVars PROVE FileInv'
  OBVIOUS
<1>1. ASSUME NEW count \in Counts, Bin(count) PROVE FileInv'
  <2>1. NameFile /\ files' = IF rtcAcq' THEN files \cup {filename'} ELSE files
    BY <1>1 DEF Bin
  <2>2. CASE rtcAcq
    BY <2>1, <2>2 DEF NameFile, FileInv
  <2>3. CASE ~rtcAcq
    <3>1. files = {}
      BY <2>3 DEF FileInv
    <3>2. QED
      BY <2>1, <3>1 DEF FileInv
  <2>4. QED
    BY <2>2, <2>3
<1>2. CASE PowerUp
  BY <1>2 DEF PowerUp, GlobalVariablesInit, FileInv
<1>3. CASE UNCHANGED <<files, filename, rtcAcq>>
  BY <1>3 DEF FileInv
<1>4. QED
  BY <1>1, <1>2, <1>3 DEF LogNext, logVars, GpsCharacters, GpsRmc, GpsOtherLine,
     fileVars, historyVars

LEMMA FileInit == LogInit => FileInv
BY DEF LogInit, FileInv

\* The lines of a drive are in one file.
THEOREM OneFilePerDriveAlways == LogSpec => []OneFilePerDrive
<1>1. FileInv => OneFilePerDrive
  BY DEF FileInv, OneFilePerDrive
<1>2. QED
  BY <1>1, FileInit, FileKept, PTL DEF LogSpec
-----------------------------------------------------------------------------

\* A set of numbers that is not empty has a least one.
LEMMA LeastNumber ==
  ASSUME NEW S \in SUBSET Nat, S # {}
  PROVE  \E m \in S : \A n \in S : m <= n
<1>1. PICK m \in S : \A n \in S : ~ (<<n, m>> \in OpToRel(<, Nat))
  BY WFMin, NatLessThanWellFounded
<1>2. \A n \in S : ~ (n < m)
  BY <1>1 DEF OpToRel
<1>3. QED
  BY <1>2

\* Induction from 0 to n.
LEMMA InductionUpTo ==
  ASSUME NEW n \in Nat, NEW S, 0 \in S,
         \A i \in 0 .. n : i + 1 \in 0 .. n /\ i \in S => i + 1 \in S
  PROVE  0 .. n \subseteq S
<1> DEFINE Out == {i \in 0 .. n : i \notin S}
<1> SUFFICES ASSUME Out # {} PROVE FALSE
  OBVIOUS
<1>1. Out \in SUBSET Nat
  OBVIOUS
<1>2. PICK m \in Out : \A i \in Out : m <= i
  <2> HIDE DEF Out
  <2> QED
    BY <1>1, LeastNumber
<1>3. m - 1 \in 0 .. n /\ m - 1 \notin Out
  BY <1>2
<1>4. QED
  BY <1>2, <1>3

\* The sums that the loop of cpm_gen() goes through.
IsSums(s, reg, n) == s = [i \in 0 .. n |-> IF i = 0 THEN 0 ELSE s[i - 1] + reg[i - 1]]
Sums(reg) == CHOOSE s : IsSums(s, reg, NX)

LEMMA SumsExist == ASSUME NEW reg PROVE IsSums(Sums(reg), reg, NX)
<1> DEFINE Summed == {n \in Nat : \E s : IsSums(s, reg, n)}
<1>1. 0 \in Summed
  <2>1. IsSums([i \in 0 .. 0 |-> 0], reg, 0)
    BY DEF IsSums
  <2>2. QED
    BY <2>1
<1>2. ASSUME NEW n \in 0 .. NX, n \in Summed PROVE n + 1 \in Summed
  <2>1. PICK s : IsSums(s, reg, n)
    BY <1>2
  <2> DEFINE t == [i \in 0 .. n + 1 |-> IF i = n + 1 THEN s[n] + reg[n] ELSE s[i]]
  <2>2. ASSUME NEW i \in 0 .. n + 1
        PROVE  t[i] = IF i = 0 THEN 0 ELSE t[i - 1] + reg[i - 1]
    BY <2>1, WindowAssumption DEF IsSums
  <2>3. IsSums(t, reg, n + 1)
    BY <2>2 DEF IsSums
  <2>4. QED
    BY <2>3
<1>3. NX \in Summed
  <2> HIDE DEF Summed
  <2>1. 0 .. NX \subseteq Summed
    BY <1>1, <1>2, WindowAssumption, InductionUpTo
  <2>2. QED
    BY <2>1, WindowAssumption
<1>4. QED
  BY <1>3 DEF Sums

LEMMA CpmGenIsLastSum ==
  ASSUME NEW reg
  PROVE  /\ CpmGen(reg) = Sums(reg)[NX]
         /\ Sums(reg)[0] = 0
         /\ \A i \in Bins : Sums(reg)[i + 1] = Sums(reg)[i] + reg[i]
<1>1. CpmGen(reg) = Sums(reg)[NX]
  BY DEF CpmGen, Sums, IsSums
<1>2. IsSums(Sums(reg), reg, NX)
  BY SumsExist
<1>3. Sums(reg)[0] = 0
  BY <1>2, WindowAssumption DEF IsSums
<1>4. ASSUME NEW i \in Bins PROVE Sums(reg)[i + 1] = Sums(reg)[i] + reg[i]
  BY <1>2, WindowAssumption DEF IsSums, Bins
<1>5. QED
  BY <1>1, <1>3, <1>4

\* The sums of bins that hold numbers are numbers.
LEMMA SumsAreNumbers ==
  ASSUME NEW reg \in [Bins -> Nat]
  PROVE  \A i \in 0 .. NX : Sums(reg)[i] \in Nat
<1> DEFINE S == {i \in 0 .. NX : Sums(reg)[i] \in Nat}
<1>1. 0 \in S
  BY CpmGenIsLastSum, WindowAssumption
<1>2. ASSUME NEW i \in 0 .. NX, i + 1 \in 0 .. NX, i \in S PROVE i + 1 \in S
  <2>1. i \in Bins
    BY <1>2, WindowAssumption DEF Bins
  <2>2. Sums(reg)[i + 1] = Sums(reg)[i] + reg[i]
    BY <2>1, CpmGenIsLastSum
  <2>3. QED
    BY <1>2, <2>1, <2>2
<1>3. 0 .. NX \subseteq S
  <2> HIDE DEF S
  <2> QED
    BY <1>1, <1>2, InductionUpTo, WindowAssumption
<1>4. QED
  BY <1>3

\* A bin that is put in the place of another changes the sum by their difference.
LEMMA SumOfReplaced ==
  ASSUME NEW reg \in [Bins -> Nat], NEW b \in Bins, NEW count \in Nat
  PROVE  CpmGen([reg EXCEPT ![b] = count]) = CpmGen(reg) - reg[b] + count
<1> DEFINE new == [reg EXCEPT ![b] = count]
           S == {i \in 0 .. NX : Sums(new)[i] = IF i <= b THEN Sums(reg)[i]
                                                 ELSE Sums(reg)[i] - reg[b] + count}
<1> USE WindowAssumption DEF Bins
<1>1. new \in [Bins -> Nat] /\ new[b] = count /\ \A i \in Bins : i # b => new[i] = reg[i]
  OBVIOUS
<1>2. /\ \A i \in 0 .. NX : Sums(reg)[i] \in Nat /\ Sums(new)[i] \in Nat
      /\ \A i \in Bins : reg[i] \in Nat
  BY <1>1, SumsAreNumbers
<1> HIDE DEF new
<1>3. 0 \in S
  BY CpmGenIsLastSum
<1>4. ASSUME NEW i \in 0 .. NX, i + 1 \in 0 .. NX, i \in S PROVE i + 1 \in S
  <2>0. i \in Bins
    BY <1>4
  <2>1. Sums(new)[i + 1] = Sums(new)[i] + new[i] /\ Sums(reg)[i + 1] = Sums(reg)[i] + reg[i]
    BY <2>0, CpmGenIsLastSum
  <2>2. Sums(reg)[i] \in Nat /\ Sums(reg)[i + 1] \in Nat /\ reg[i] \in Nat /\ reg[b] \in Nat
    BY <1>2, <1>4
  <2>3. Sums(new)[i] = IF i <= b THEN Sums(reg)[i] ELSE Sums(reg)[i] - reg[b] + count
    BY <1>4
  <2>4. new[i] = IF i = b THEN count ELSE reg[i]
    BY <1>1, <1>4
  <2>5. Sums(new)[i + 1] = IF i + 1 <= b THEN Sums(reg)[i + 1]
                            ELSE Sums(reg)[i + 1] - reg[b] + count
    <3>1. CASE i = b
      BY <2>1, <2>2, <2>3, <2>4, <3>1
    <3>2. CASE i # b
      BY <2>1, <2>2, <2>3, <2>4, <3>2
    <3>3. QED
      BY <3>1, <3>2
  <2>6. QED
    BY <1>4, <2>5
<1>5. NX \in S
  <2> HIDE DEF S
  <2>1. 0 .. NX \subseteq S
    BY <1>3, <1>4, InductionUpTo
  <2>2. QED
    BY <2>1
<1>6. CpmGen(new) = Sums(new)[NX] /\ CpmGen(reg) = Sums(reg)[NX]
  BY CpmGenIsLastSum
<1>7. QED
  BY <1>5, <1>6 DEF new

\* Bins that grow older by one: a new first one, and the last one gone.
LEMMA SumOfShifted ==
  ASSUME NEW reg \in [Bins -> Nat], NEW count \in Nat
  PROVE  CpmGen([b \in Bins |-> IF b = 0 THEN count ELSE reg[b - 1]])
           = CpmGen(reg) - reg[NX - 1] + count
<1> DEFINE new == [b \in Bins |-> IF b = 0 THEN count ELSE reg[b - 1]]
           S == {i \in 0 .. NX - 1 : Sums(new)[i + 1] = Sums(reg)[i] + count}
<1> USE WindowAssumption DEF Bins
<1>1. /\ new \in [Bins -> Nat] /\ new[0] = count
      /\ \A i \in 0 .. NX - 2 : new[i + 1] = reg[i]
  OBVIOUS
<1>2. /\ \A i \in 0 .. NX : Sums(reg)[i] \in Nat /\ Sums(new)[i] \in Nat
      /\ \A i \in Bins : reg[i] \in Nat
  BY <1>1, SumsAreNumbers
<1> HIDE DEF new
<1>3. 0 \in S
  <2>1. Sums(new)[0 + 1] = Sums(new)[0] + new[0] /\ Sums(new)[0] = 0 /\ Sums(reg)[0] = 0
    BY CpmGenIsLastSum
  <2>2. QED
    BY <1>1, <2>1
<1>4. ASSUME NEW i \in 0 .. NX - 1, i + 1 \in 0 .. NX - 1, i \in S PROVE i + 1 \in S
  <2>1. /\ Sums(new)[(i + 1) + 1] = Sums(new)[i + 1] + new[i + 1]
        /\ Sums(reg)[i + 1] = Sums(reg)[i] + reg[i]
    BY <1>4, CpmGenIsLastSum
  <2>2. /\ Sums(new)[i + 1] = Sums(reg)[i] + count
        /\ new[i + 1] = reg[i]
    BY <1>1, <1>4
  <2>3. Sums(reg)[i] \in Nat /\ reg[i] \in Nat
    BY <1>2, <1>4
  <2>4. QED
    BY <1>4, <2>1, <2>2, <2>3
<1>5. NX - 1 \in S
  <2> HIDE DEF S
  <2>1. NX - 1 \in Nat
    OBVIOUS
  <2>2. 0 .. NX - 1 \subseteq S
    BY <1>3, <1>4, <2>1, InductionUpTo
  <2>3. QED
    BY <2>2
<1>6. CpmGen(new) = Sums(new)[NX] /\ CpmGen(reg) = Sums(reg)[NX]
  BY CpmGenIsLastSum
<1>7. Sums(reg)[(NX - 1) + 1] = Sums(reg)[NX - 1] + reg[NX - 1]
  BY CpmGenIsLastSum
<1>8. Sums(new)[(NX - 1) + 1] = Sums(reg)[NX - 1] + count
  BY <1>5
<1>9. QED
  BY <1>2, <1>6, <1>7, <1>8 DEF new
-----------------------------------------------------------------------------

LEMMA LogTypesInit == LogInit => LogTypeOK
<1> SUFFICES ASSUME LogInit PROVE LogTypeOK
  OBVIOUS
<1> USE WindowAssumption, BoundsAssumption DEF LogInit
<1>1. shiftReg \in [Bins -> Nat] /\ recent \in [1 .. NX -> Nat]
  OBVIOUS
<1>2. regIndex \in Bins /\ strCount \in 0 .. NX /\ done \in 0 .. MaxRun
  BY DEF Bins
<1>3. total \in Nat /\ cpm \in Nat
  OBVIOUS
<1>4. /\ status \in {"A", "V"} /\ filename \in GpsDates /\ date \in GpsDates
      /\ files \in SUBSET GpsDates
  BY DEF GpsDates
<1>5. {rtcAcq, fix, updating, lastWrite, running} \subseteq BOOLEAN
  BY DEF Diagnostics, SdLogCardDiagnostic
<1>6. QED
  BY <1>1, <1>2, <1>3, <1>4, <1>5 DEF LogTypeOK

\* The sum that cpm_gen() returns is a number.
LEMMA LogTypesBin ==
  ASSUME LogTypeOK, NEW count \in Counts, Bin(count)
  PROVE  LogTypeOK'
<1> USE WindowAssumption, BoundsAssumption
<1>1. count \in Nat
  OBVIOUS
<1>2. shiftReg' \in [Bins -> Nat]
  BY <1>1 DEF LogTypeOK, Bin, InsertBin
<1>3. regIndex' \in Bins
  BY NextIndex DEF LogTypeOK, Bin, InsertBin, Bins
<1>4. cpm' \in Nat
  <2>1. CpmGen(shiftReg') = Sums(shiftReg')[NX]
    BY CpmGenIsLastSum
  <2>2. Sums(shiftReg')[NX] \in Nat
    BY <1>2, SumsAreNumbers
  <2>3. QED
    BY <2>1, <2>2 DEF Bin
<1>5. total' \in Nat
  BY <1>1 DEF LogTypeOK, Bin
<1>6. strCount' \in 0 .. NX /\ status' \in {"A", "V"}
  BY DEF LogTypeOK, Bin, SetStatus
<1>7. rtcAcq' \in BOOLEAN /\ filename' \in GpsDates /\ lastWrite' \in BOOLEAN
  BY DEF LogTypeOK, Bin, NameFile
<1>8. date' \in GpsDates /\ fix' \in BOOLEAN /\ updating' \in BOOLEAN /\ running' \in BOOLEAN
  BY DEF LogTypeOK, Bin, gpsVars
<1>9. recent' \in [1 .. NX -> Nat]
  <2>1. ASSUME NEW k \in 1 .. NX, k # 1 PROVE recent[k - 1] \in Nat
    BY <2>1 DEF LogTypeOK
  <2>2. QED
    BY <1>1, <2>1 DEF Bin
<1>10. done' \in 0 .. MaxRun
  BY DEF LogTypeOK, Bin, AtMost
<1>11. files' \in SUBSET GpsDates
  BY <1>7 DEF LogTypeOK, Bin
<1>12. QED
  BY <1>2, <1>3, <1>4, <1>5, <1>6, <1>7, <1>8, <1>9, <1>10, <1>11 DEF LogTypeOK

LEMMA LogTypesKept == LogTypeOK /\ [LogNext]_logVars => LogTypeOK'
<1> SUFFICES ASSUME LogTypeOK, [LogNext]_logVars PROVE LogTypeOK'
  OBVIOUS
<1> USE DEF windowVars, fileVars, gpsVars, historyVars
<1>1. ASSUME NEW count \in Counts, Bin(count) PROVE LogTypeOK'
  BY <1>1, LogTypesBin
<1>2. CASE GpsCharacters
  BY <1>2 DEF GpsCharacters, LogTypeOK
<1>3. CASE GpsRmc
  BY <1>3 DEF GpsRmc, LogTypeOK, GpsDates
<1>4. CASE GpsOtherLine
  BY <1>4 DEF GpsOtherLine, LogTypeOK
<1>5. CASE PowerUp
  <2>1. /\ shiftReg' = [b \in Bins |-> 0] /\ recent' = [k \in 1 .. NX |-> 0]
        /\ regIndex' = 0 /\ total' = 0 /\ strCount' = 0 /\ status' = "V" /\ rtcAcq' = FALSE
        /\ lastWrite' = TRUE /\ running' = TRUE /\ done' = 0 /\ files' = {}
        /\ UNCHANGED <<filename, cpm, date, fix, updating>>
    BY <1>5 DEF PowerUp, GlobalVariablesInit
  <2>2. 0 \in Bins /\ 0 \in 0 .. NX /\ 0 \in 0 .. MaxRun
    BY WindowAssumption, BoundsAssumption DEF Bins
  <2>3. shiftReg' \in [Bins -> Nat] /\ recent' \in [1 .. NX -> Nat]
    BY <2>1
  <2>4. QED
    BY <2>1, <2>2, <2>3 DEF LogTypeOK
<1>6. CASE UNCHANGED logVars
  BY <1>6 DEF logVars, LogTypeOK
<1>7. QED
  BY <1>1, <1>2, <1>3, <1>4, <1>5, <1>6 DEF LogNext

\* The window, its sum and the histories keep their types, whatever the bins hold.
THEOREM LogTypeCorrect == LogSpec => []LogTypeOK
BY LogTypesInit, LogTypesKept, PTL DEF LogSpec

-----------------------------------------------------------------------------

\* The register and the last bins have the same sum, since in the ring a new bin takes
\* the place of the one that is no longer among the last.
SumInv ==
  /\ LogTypeOK /\ WindowIsRing
  /\ CpmGen(shiftReg) = CpmGen(LastBins)
  /\ CpmIsLastBins

LEMMA SumInit == LogInit => SumInv
<1> SUFFICES ASSUME LogInit PROVE SumInv
  OBVIOUS
<1>1. LogTypeOK /\ WindowIsRing
  BY LogTypesInit, RingInit DEF RingInv
<1>2. shiftReg = LastBins
  BY WindowAssumption DEF LogInit, LastBins, Bins
<1>3. done = 0
  BY DEF LogInit
<1>4. QED
  BY <1>1, <1>2, <1>3 DEF SumInv, CpmIsLastBins

LEMMA SumBin ==
  ASSUME SumInv, NEW count \in Counts, Bin(count)
  PROVE  SumInv'
<1> USE WindowAssumption
<1>1. LogTypeOK'
  BY LogTypesBin DEF SumInv
<1>2. RingInv
  BY DEF SumInv, RingInv, ArraysInv, LogTypeOK
<1>3. WindowIsRing'
  BY <1>2, RingBin DEF RingInv
<1>4. count \in Nat /\ shiftReg \in [Bins -> Nat] /\ regIndex \in Bins /\ LastBins \in [Bins -> Nat]
  BY DEF SumInv, LogTypeOK, LastBins, Bins
<1>5. shiftReg[regIndex] = LastBins[NX - 1]
  <2>1. NX \in 1 .. NX /\ Place(NX) = regIndex
    BY <1>4 DEF Place, Bins
  <2>2. shiftReg[regIndex] = recent[NX]
    BY <2>1 DEF SumInv, WindowIsRing
  <2>3. LastBins[NX - 1] = recent[NX]
    BY DEF LastBins, Bins
  <2>4. QED
    BY <2>2, <2>3
<1>6. CpmGen(shiftReg') = CpmGen(shiftReg) - shiftReg[regIndex] + count
  <2>1. shiftReg' = [shiftReg EXCEPT ![regIndex] = count]
    BY DEF Bin, InsertBin
  <2>2. QED
    BY <1>4, <2>1, SumOfReplaced
<1>7. CpmGen(LastBins') = CpmGen(LastBins) - LastBins[NX - 1] + count
  <2>1. recent' = [k \in 1 .. NX |-> IF k = 1 THEN count ELSE recent[k - 1]]
    BY DEF Bin
  <2>2. LastBins' = [b \in Bins |-> IF b = 0 THEN count ELSE LastBins[b - 1]]
    BY <2>1 DEF LastBins, Bins
  <2>3. QED
    BY <1>4, <2>2, SumOfShifted
<1>8. CpmGen(shiftReg') = CpmGen(LastBins')
  BY <1>5, <1>6, <1>7 DEF SumInv
<1>9. cpm' = CpmGen(shiftReg')
  BY DEF Bin
<1>10. QED
  BY <1>1, <1>3, <1>8, <1>9 DEF SumInv, CpmIsLastBins

LEMMA SumKept == SumInv /\ [LogNext]_logVars => SumInv'
<1> SUFFICES ASSUME SumInv, [LogNext]_logVars PROVE SumInv'
  OBVIOUS
<1>1. ASSUME NEW count \in Counts, Bin(count) PROVE SumInv'
  BY <1>1, SumBin
<1>2. LogTypeOK' /\ WindowIsRing'
  BY LogTypesKept, RingKept DEF SumInv, RingInv, ArraysInv, LogTypeOK
<1>3. CASE PowerUp
  <2>1. shiftReg' = [b \in Bins |-> 0] /\ recent' = [k \in 1 .. NX |-> 0] /\ done' = 0
    BY <1>3 DEF PowerUp, GlobalVariablesInit
  <2>2. shiftReg' = LastBins'
    BY <2>1, WindowAssumption DEF LastBins, Bins
  <2>3. QED
    BY <1>2, <2>1, <2>2 DEF SumInv, CpmIsLastBins
<1>4. CASE UNCHANGED <<shiftReg, recent, cpm, done>>
  BY <1>2, <1>4 DEF SumInv, CpmIsLastBins, LastBins
<1>5. QED
  BY <1>1, <1>3, <1>4 DEF LogNext, logVars, GpsCharacters, GpsRmc, GpsOtherLine,
     windowVars, historyVars

\* What a line says is the pulses of the last bins of the drive, for any window.
THEOREM CpmIsLastBinsAlways == LogSpec => []CpmIsLastBins
BY SumInit, SumKept, PTL DEF LogSpec, SumInv
=============================================================================
