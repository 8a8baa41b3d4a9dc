--------------------------- MODULE MiniLoopProofs ---------------------------
(***************************************************************************)
(* The bGeigieMini for every size of its line buffer, its window and the   *)
(* bytes of its count, for every table of grids and any number of dates.   *)
(***************************************************************************)
EXTENDS MiniLoop, TLAPS

\* A count of two bytes that fits in them: the high byte is one.
LEMMA HighFits ==
  ASSUME NEW p \in Nat \ {0}, NEW l \in 0 .. p - 1, NEW h \in 0 .. p - 1
  PROVE  p * h \in Nat /\ p * h <= p * p - p /\ l + p * h \in 0 .. p * p - 1
<1>1. p * h \in Nat /\ p * h <= p * (p - 1)
  OBVIOUS
<1>2. p * (p - 1) = p * p - p
  OBVIOUS
<1>3. QED
  BY <1>1, <1>2

\* Adding one to the low byte carries exactly from its last value.
LEMMA NextByte ==
  ASSUME NEW p \in Nat \ {0}, NEW l \in 0 .. p - 1
  PROVE  (l + 1) % p = IF l = p - 1 THEN 0 ELSE l + 1
<1>1. CASE l = p - 1
  <2>1. p % p = 0
    OBVIOUS
  <2>2. QED
    BY <1>1, <2>1
<1>2. CASE l # p - 1
  <2>1. l + 1 \in 0 .. p - 1
    BY <1>2
  <2>2. QED
    BY <1>2, <2>1
<1>3. QED
  BY <1>1, <1>2

\* A count below the square of a byte leaves room for the carry.
LEMMA CarryFits ==
  ASSUME NEW p \in Nat \ {0}, NEW h \in 0 .. p - 1, p - 1 + p * h + 1 < p * p
  PROVE  h + 1 \in 0 .. p - 1 /\ p * (h + 1) = p + p * h
<1>1. p * (h + 1) = p + p * h
  OBVIOUS
<1>2. p * (h + 1) < p * p
  BY <1>1
<1>3. h + 1 # p
  BY <1>2
<1>4. QED
  BY <1>1, <1>3

\* One below a multiple of a byte.
LEMMA LastOfPage ==
  ASSUME NEW p \in Nat \ {0}, NEW h \in Nat, h # 0
  PROVE  (p * h - 1) % p = p - 1
<1>1. p * h - 1 = p * (h - 1) + (p - 1)
  OBVIOUS
<1>2. (p * (h - 1) + (p - 1)) % p = p - 1
  OBVIOUS
<1>3. QED
  BY <1>1, <1>2

\* A number is truncated to a multiple, which is truncated to itself.
LEMMA TruncatedIsNat ==
  ASSUME NEW x \in Nat, NEW g \in Nat \ {0}
  PROVE  Truncated(x, g) \in Nat /\ Truncated(Truncated(x, g), g) = Truncated(x, g)
<1> DEFINE y == x - (x % g)
<1>1. x % g \in 0 .. g - 1 /\ x = g * (x \div g) + (x % g) /\ x \div g \in Nat
  OBVIOUS
<1>2. y = g * (x \div g)
  BY <1>1
<1>3. y \in Nat
  BY <1>1, <1>2
<1>4. (g * (x \div g)) % g = 0
  BY <1>1
<1>5. QED
  BY <1>2, <1>3, <1>4 DEF Truncated

\* A position is truncated to a position, and to the same one however often.
LEMMA TruncateOnce ==
  ASSUME NEW p \in (DOMAIN LonGrid) \X Nat
  PROVE  /\ TruncateJP(p) \in (DOMAIN LonGrid) \X Nat
         /\ TruncateJP(TruncateJP(p)) = TruncateJP(p)
<1> DEFINE lat == Truncated(p[1], LatGrid)
           lon == Truncated(p[2], LonGrid[lat])
<1>1. p[1] \in Nat /\ p[2] \in Nat /\ LatGrid \in Nat \ {0}
  BY PlacesAssumption
<1>2. lat \in Nat /\ Truncated(lat, LatGrid) = lat
  BY <1>1, TruncatedIsNat
<1>3. lat \in DOMAIN LonGrid
  BY PlacesAssumption DEF Truncated
<1>4. LonGrid[lat] \in Nat \ {0}
  BY <1>3, PlacesAssumption
<1>5. lon \in Nat /\ Truncated(lon, LonGrid[lat]) = lon
  BY <1>1, <1>4, TruncatedIsNat
<1>6. TruncateJP(p) = <<lat, lon>>
  BY DEF TruncateJP
<1>7. TruncateJP(<<lat, lon>>) = <<Truncated(lat, LatGrid), Truncated(lon, LonGrid[Truncated(lat, LatGrid)])>>
  BY DEF TruncateJP
<1>8. QED
  BY <1>2, <1>3, <1>5, <1>6, <1>7

\* The types, and that the byte read first is one.
TypeInv == TypeOK /\ (pc = "high" => cpb \in Bytes)

LEMMA TypeInit == Init => TypeInv
<1> SUFFICES ASSUME Init PROVE TypeInv
  OBVIOUS
<1> USE SizesAssumption DEF Init
<1>1. low \in Bytes /\ high \in Bytes /\ cpb \in 0 .. Page * Page - 1 /\ cpb \in Bytes
  <2>1. Page * Page > 0
    OBVIOUS
  <2>2. QED
    BY <2>1 DEF Bytes
<1>2. place \in (DOMAIN LonGrid) \X Nat /\ sentPlace \in (DOMAIN LonGrid) \X Nat
  BY PlacesAssumption
<1>3. shiftReg \in [Bins -> Nat] /\ regIndex \in Bins /\ strCount \in 0 .. NX
  BY DEF Bins
<1>4. {lastWrite, card, begun} \subseteq BOOLEAN /\ stored \in {"whole", "damaged"}
  BY DEF SdLogInit, Diagnostics, SdDiagnostic
<1>5. index \in 0 .. LineSz /\ pulses \in 0 .. MaxPulses /\ expected \in 0 .. MaxPulses
  OBVIOUS
<1>6. {due, updating, whole, atStart, fix, rtcAcq, long, lowAtStart} \subseteq BOOLEAN
  OBVIOUS
<1>7. date \in GpsDates /\ filename \in FileNames /\ files \subseteq FileNames /\ writing = "nothing"
  BY DEF GpsDates, FileNames
<1>8. pc \in Locations /\ status \in {"A", "V"}
  BY DEF Locations
<1>9. QED
  BY <1>1, <1>2, <1>3, <1>4, <1>5, <1>6, <1>7, <1>8 DEF TypeInv, TypeOK

\* Every step keeps the types.
LEMMA TypesKept == TypeInv /\ [Next]_vars => TypeInv'
<1> SUFFICES ASSUME TypeInv, [Next]_vars PROVE TypeInv'
  OBVIOUS
<1> USE SizesAssumption DEF TypeInv, TypeOK, Locations
<1>1. CASE StartBin
  BY <1>1 DEF StartBin, counterVars, gpsVars, binVars, fileVars, cardVars
<1>2. CASE ReadLow
  <2>1. cpb' \in Bytes /\ 0 .. Page - 1 \subseteq 0 .. Page * Page - 1
    <3>1. Page <= Page * Page
      OBVIOUS
    <3>2. QED
      BY <1>2, <3>1 DEF ReadLow, Bytes
  <2>2. QED
    BY <1>2, <2>1 DEF ReadLow, Bytes, counterVars, gpsVars, binVars, fileVars, cardVars
<1>3. CASE ReadHigh
  <2>1. cpb + Page * high \in 0 .. Page * Page - 1
    <3>1. cpb \in 0 .. Page - 1 /\ high \in 0 .. Page - 1 /\ Page \in Nat \ {0}
      BY <1>3 DEF ReadHigh, Bytes
    <3>2. QED
      BY <3>1, HighFits
  <2>2. QED
    BY <1>3, <2>1 DEF ReadHigh, counterVars, gpsVars, binVars, fileVars, cardVars
<1>4. CASE ResetStartTime
  BY <1>4 DEF ResetStartTime, counterVars, gpsVars, binVars, fileVars, cardVars
<1>5. CASE ResetLow
  BY <1>5 DEF ResetLow, Bytes, gpsVars, binVars, fileVars, cardVars
<1>6. CASE ResetHigh
  BY <1>6 DEF ResetHigh, Bytes, gpsVars, binVars, fileVars, cardVars
<1>7. CASE Bin
  <2>1. shiftReg' \in [Bins -> Nat] /\ regIndex' \in Bins /\ strCount' \in 0 .. NX /\ status' \in {"A", "V"}
    <3>1. regIndex' \in Bins
      BY <1>7 DEF Bin, InsertBin, Bins
    <3>2. strCount' \in 0 .. NX
      BY <1>7 DEF Bin, InsertBin
    <3>3. shiftReg' \in [Bins -> Nat]
      BY <1>7 DEF Bin, InsertBin
    <3>4. status' \in {"A", "V"}
      BY <1>7 DEF Bin, InsertBin
    <3>5. QED
      BY <3>1, <3>2, <3>3, <3>4
  <2>2. place' \in (DOMAIN LonGrid) \X Nat /\ whole' \in BOOLEAN
    BY <1>7, TruncateOnce DEF Bin, GpsGenTimestamp
  <2>3. rtcAcq' \in BOOLEAN /\ filename' \in FileNames /\ lowAtStart' \in BOOLEAN /\ writing' \in {"header", "line", "nothing"}
    BY <1>7 DEF Bin, NameFile, Writing, FileNames
  <2>4. pc' \in {"loop", "open"} /\ long' \in BOOLEAN
    BY <1>7 DEF Bin
  <2>5. cpb' \in 0 .. Page * Page - 1 /\ expected' \in 0 .. MaxPulses
    <3>1. Page * Page > 0
      OBVIOUS
    <3>2. QED
      BY <1>7, <3>1 DEF Bin
  <2>6. QED
    BY <1>7, <2>1, <2>2, <2>3, <2>4, <2>5 DEF Bin, counterVars, cardVars
<1>8. CASE OpenFails
  BY <1>8 DEF OpenFails, Written, WriteHeader2SD, counterVars, gpsVars, binVars, fileVars
<1>9. CASE OpenFile
  BY <1>9 DEF OpenFile, counterVars, gpsVars, binVars, fileVars, cardVars
<1>10. CASE PrintLine
  <2>1. pc' \in {"loop", "open", "verify"} /\ writing' \in {"header", "line", "nothing"} /\ long' \in BOOLEAN
    BY <1>10 DEF PrintLine, Written, WriteHeader2SD
  <2>2. files' \subseteq FileNames /\ stored' \in {"whole", "damaged"}
    BY <1>10 DEF PrintLine
  <2>3. QED
    BY <1>10, <2>1, <2>2 DEF PrintLine, counterVars, gpsVars, binVars, fileVars
<1>11. CASE VerifyLine
  BY <1>11 DEF VerifyLine, Written, WriteHeader2SD, counterVars, gpsVars, binVars, fileVars
<1>12. CASE ReceiveCharacter
  <2>1. index' \in 0 .. LineSz
    BY <1>12 DEF ReceiveCharacter, NextIndex
  <2>2. {updating', whole', atStart'} \subseteq BOOLEAN
    BY <1>12 DEF ReceiveCharacter
  <2>3. UNCHANGED <<pc, counterVars, cpb, date, fix, place, sentPlace, binVars, fileVars,
                    writing, long, card, begun, cardVars, pulses, expected>>
    BY <1>12 DEF ReceiveCharacter
  <2>4. QED
    BY <2>1, <2>2, <2>3 DEF counterVars, binVars, fileVars, cardVars
<1>13. CASE ReceiveNewline
  <2>1. date' \in GpsDates /\ fix' \in BOOLEAN /\ {place', sentPlace'} \subseteq (DOMAIN LonGrid) \X Nat
    BY <1>13, PlacesAssumption DEF ReceiveNewline, ParseRmc
  <2>2. index' = 0 /\ updating' = FALSE /\ whole' = TRUE /\ atStart' = TRUE
    BY <1>13 DEF ReceiveNewline, ClearUpdating
  <2>3. UNCHANGED <<pc, counterVars, cpb, binVars, fileVars, writing, long, card, begun,
                    cardVars, pulses, expected>>
    BY <1>13 DEF ReceiveNewline
  <2>4. index' \in 0 .. LineSz
    BY <2>2
  <2>5. updating' \in BOOLEAN /\ whole' \in BOOLEAN /\ atStart' \in BOOLEAN
    BY <2>2, Zenon
  <2>6. pc' # "high" \/ cpb' \in Bytes
    BY <1>13, <2>3 DEF ReceiveNewline
  <2>7. QED
    BY <2>1, <2>3, <2>4, <2>5, <2>6 DEF counterVars, binVars, fileVars, cardVars
<1>14. CASE LoseCharacters
  BY <1>14 DEF LoseCharacters, counterVars, gpsVars, binVars, fileVars, cardVars
<1>15. CASE InterruptRoutine
  <2>1. low' \in Bytes /\ high' \in Bytes
    BY <1>15 DEF InterruptRoutine, Bytes
  <2>2. QED
    BY <1>15, <2>1 DEF InterruptRoutine, gpsVars, binVars, fileVars, cardVars
<1>16. CASE PeriodEnds
  BY <1>16 DEF PeriodEnds, counterVars, gpsVars, binVars, fileVars, cardVars
<1>17. CASE ChangeCard
  BY <1>17 DEF ChangeCard, counterVars, gpsVars, binVars, fileVars, cardVars
<1>18. CASE UNCHANGED vars
  BY <1>18 DEF vars, counterVars, gpsVars, binVars, fileVars, cardVars
<1>19. QED
  BY <1>1, <1>2, <1>3, <1>4, <1>5, <1>6, <1>7, <1>8, <1>9, <1>10, <1>11, <1>12, <1>13, <1>14, <1>15, <1>16, <1>17, <1>18 DEF Next, MainStep, SdLogWriteln

-----------------------------------------------------------------------------

\* While no sentence is half received, the buffer is empty.
BufferInv == (~updating => index = 0) /\ LineTakesEmptyBuffer

LEMMA BufferInit == Init => BufferInv
  BY DEF Init, BufferInv, LineTakesEmptyBuffer

\* The buffer is begun and ended in gps_update() only, and taken between two sentences.
LEMMA BufferKept == BufferInv /\ [Next]_vars => BufferInv'
<1> SUFFICES ASSUME BufferInv, [Next]_vars PROVE BufferInv'
  OBVIOUS
<1> USE DEF BufferInv, LineTakesEmptyBuffer, Locations
<1>1. CASE StartBin
  BY <1>1 DEF StartBin, MayLog, gpsVars
<1>2. CASE ReadLow
  BY <1>2 DEF ReadLow, gpsVars
<1>3. CASE ReadHigh
  BY <1>3 DEF ReadHigh, gpsVars
<1>4. CASE ResetStartTime
  BY <1>4 DEF ResetStartTime, gpsVars
<1>5. CASE ResetLow
  BY <1>5 DEF ResetLow, gpsVars
<1>6. CASE ResetHigh
  BY <1>6 DEF ResetHigh, gpsVars
<1>7. CASE Bin
  BY <1>7 DEF Bin, gpsVars
<1>8. CASE OpenFails
  BY <1>8 DEF OpenFails, gpsVars
<1>9. CASE OpenFile
  BY <1>9 DEF OpenFile, gpsVars
<1>10. CASE PrintLine
  BY <1>10 DEF PrintLine, gpsVars
<1>11. CASE VerifyLine
  BY <1>11 DEF VerifyLine, gpsVars
<1>12. CASE ReceiveCharacter
  BY <1>12 DEF ReceiveCharacter, gpsVars
<1>13. CASE ReceiveNewline
  BY <1>13 DEF ReceiveNewline, ClearUpdating
<1>14. CASE LoseCharacters
  BY <1>14 DEF LoseCharacters, gpsVars
<1>15. CASE InterruptRoutine
  BY <1>15 DEF InterruptRoutine, gpsVars
<1>16. CASE PeriodEnds
  BY <1>16 DEF PeriodEnds, gpsVars
<1>17. CASE ChangeCard
  BY <1>17 DEF ChangeCard, gpsVars
<1>18. CASE UNCHANGED vars
  BY <1>18 DEF vars, counterVars, gpsVars, binVars, fileVars, cardVars
<1>19. QED
  BY <1>1, <1>2, <1>3, <1>4, <1>5, <1>6, <1>7, <1>8, <1>9, <1>10, <1>11, <1>12, <1>13, <1>14, <1>15, <1>16, <1>17, <1>18 DEF Next, MainStep, SdLogWriteln

-----------------------------------------------------------------------------

\* The two bytes hold the pulses since the reset, but for the high byte between the
\* two halves of the reset; and what has come between the two halves of a reading.
CountInv ==
  /\ pc = "clearHigh" => pulses \in {0, 1} /\ low = pulses
  /\ pc # "clearHigh" => pulses = low + Page * high
  /\ pc = "high" =>
       \/ pulses = expected /\ low = cpb
       \/ pulses = expected + 1 /\ (low = cpb + 1 \/ (low = 0 /\ cpb = Page - 1))
  /\ CpbIsPulsesOrOnePageMore

LEMMA CountInit == Init => CountInv
<1>1. Page * 0 = 0
  BY SizesAssumption
<1>2. QED
  BY <1>1 DEF Init, CountInv, CpbIsPulsesOrOnePageMore

\* Interrupts come between the bytes of a reading and of a reset.
LEMMA CountKept == TypeInv /\ CountInv /\ [Next]_vars => CountInv'
<1> SUFFICES ASSUME TypeInv, CountInv, [Next]_vars PROVE CountInv'
  OBVIOUS
<1> DEFINE h1 == high + 1
<1> USE SizesAssumption DEF TypeInv, TypeOK, CountInv, CpbIsPulsesOrOnePageMore
<1>1. CASE StartBin
  BY <1>1 DEF StartBin, counterVars
<1>2. CASE ReadLow
  BY <1>2 DEF ReadLow, counterVars
<1>3. CASE ReadHigh
  <2>1. Page \in Nat \ {0} /\ high \in Nat /\ cpb \in 0 .. Page - 1 /\ expected \in Nat /\ Page * high \in Nat
    BY <1>3 DEF ReadHigh, Bytes
  <2>2. cpb' = expected \/ (cpb' = expected + Page /\ expected % Page = Page - 1)
    <3>1. CASE pulses = expected /\ low = cpb
      BY <1>3, <2>1, <3>1 DEF ReadHigh
    <3>2. CASE pulses = expected + 1 /\ low = cpb + 1
      BY <1>3, <2>1, <3>2 DEF ReadHigh
    <3>3. CASE pulses = expected + 1 /\ low = 0 /\ cpb = Page - 1
      <4>1. expected = Page * high - 1 /\ cpb' = Page - 1 + Page * high
        BY <1>3, <2>1, <3>3 DEF ReadHigh
      <4>2. high # 0
        BY <2>1, <4>1
      <4>3. expected % Page = Page - 1
        BY <2>1, <4>1, <4>2, LastOfPage
      <4>4. QED
        BY <2>1, <4>1, <4>3
    <3>4. QED
      BY <1>3, <3>1, <3>2, <3>3 DEF ReadHigh
  <2>3. QED
    BY <1>3, <2>2 DEF ReadHigh, counterVars
<1>4. CASE ResetStartTime
  BY <1>4 DEF ResetStartTime, counterVars
<1>5. CASE ResetLow
  BY <1>5 DEF ResetLow, counterVars
<1>6. CASE ResetHigh
  <2>1. Page * 0 = 0 /\ low \in Nat
    BY DEF Bytes
  <2>2. QED
    BY <1>6, <2>1 DEF ResetHigh
<1>7. CASE Bin
  BY <1>7 DEF Bin, counterVars
<1>8. CASE OpenFails
  BY <1>8 DEF OpenFails, counterVars, Written, WriteHeader2SD
<1>9. CASE OpenFile
  BY <1>9 DEF OpenFile, counterVars
<1>10. CASE PrintLine
  BY <1>10 DEF PrintLine, counterVars, Written, WriteHeader2SD
<1>11. CASE VerifyLine
  BY <1>11 DEF VerifyLine, counterVars, Written, WriteHeader2SD
<1>12. CASE ReceiveCharacter
  BY <1>12 DEF ReceiveCharacter, counterVars
<1>13. CASE ReceiveNewline
  BY <1>13 DEF ReceiveNewline, counterVars
<1>14. CASE LoseCharacters
  BY <1>14 DEF LoseCharacters, counterVars
<1>15. CASE InterruptRoutine
  <2>1. Page \in Nat \ {0, 1} /\ low \in 0 .. Page - 1 /\ high \in 0 .. Page - 1 /\ pulses \in Nat
    BY DEF Bytes
  <2>2. low' = IF low = Page - 1 THEN 0 ELSE low + 1
    BY <1>15, <2>1, NextByte DEF InterruptRoutine
  <2>3. pc' = pc /\ cpb' = cpb /\ expected' = expected /\ pulses' = pulses + 1
    BY <1>15 DEF InterruptRoutine
  <2>4. CASE pc = "clearHigh"
    BY <1>15, <2>1, <2>2, <2>3, <2>4 DEF InterruptRoutine
  <2>5. CASE pc # "clearHigh"
    <3>1. pulses' = low' + Page * high'
      <4>1. CASE low = Page - 1
        <5>1. Page - 1 + Page * high + 1 < Page * Page
          BY <1>15, <2>1, <2>5, <4>1 DEF InterruptRoutine
        <5>2. h1 \in 0 .. Page - 1 /\ Page * h1 = Page + Page * high
          BY <2>1, <5>1, CarryFits
        <5>3. h1 % Page = h1
          BY <2>1, <5>2
        <5>4. high' = h1
          BY <1>15, <4>1, <5>3 DEF InterruptRoutine
        <5>5. Page * high \in Nat
          BY <2>1
        <5>6. pulses = Page - 1 + Page * high /\ low' = 0
          BY <2>2, <2>5, <4>1
        <5>7. QED
          BY <2>1, <2>3, <5>2, <5>4, <5>5, <5>6
      <4>2. CASE low # Page - 1
        <5>1. high' = high /\ low' = low + 1 /\ Page * high \in Nat
          BY <1>15, <2>1, <2>2, <4>2 DEF InterruptRoutine
        <5>2. QED
          BY <2>1, <2>3, <2>5, <5>1
      <4>3. QED
        BY <4>1, <4>2
    <3>2. ASSUME pc = "high"
          PROVE  pulses' = expected + 1 /\ (low' = cpb + 1 \/ (low' = 0 /\ cpb = Page - 1))
      <4>1. pulses = expected
        BY <1>15, <3>2 DEF InterruptRoutine
      <4>2. expected + 1 # expected /\ expected \in Nat
        BY <2>1, <4>1
      <4>3. low = cpb
        BY <2>5, <3>2, <4>1, <4>2
      <4>4. CASE low = Page - 1
        BY <2>1, <2>2, <2>3, <4>1, <4>3, <4>4
      <4>5. CASE low # Page - 1
        BY <2>1, <2>2, <2>3, <4>1, <4>3, <4>5
      <4>6. QED
        BY <4>4, <4>5
    <3>3. QED
      BY <2>3, <2>5, <3>1, <3>2
  <2>6. QED
    BY <2>4, <2>5
<1>16. CASE PeriodEnds
  BY <1>16 DEF PeriodEnds, counterVars
<1>17. CASE ChangeCard
  BY <1>17 DEF ChangeCard, counterVars
<1>18. CASE UNCHANGED vars
  BY <1>18 DEF vars, counterVars, gpsVars, binVars, fileVars, cardVars
<1>19. QED
  BY <1>1, <1>2, <1>3, <1>4, <1>5, <1>6, <1>7, <1>8, <1>9, <1>10, <1>11, <1>12, <1>13, <1>14, <1>15, <1>16, <1>17, <1>18 DEF Next, MainStep, SdLogWriteln

-----------------------------------------------------------------------------

\* Before the date is flagged nothing is written; then the file has a name, or the
\* supply was low; and a line that is being written is not yet said to be.
FileInv ==
  /\ LinesGoToDriveFile
  /\ ~rtcAcq => files = {}
  /\ rtcAcq /\ filename = Unnamed => lowAtStart
  /\ writing # "nothing" => rtcAcq
  /\ pc \in {"open", "print", "verify"} <=> writing # "nothing"
  /\ pc = "print" => ~lastWrite

LEMMA FileInit == Init => FileInv
  BY DEF Init, FileInv, LinesGoToDriveFile, SdLogInit, Diagnostics, SdDiagnostic

\* Every bin and every write keeps the drive to its file.
LEMMA FileKept == TypeInv /\ FileInv /\ [Next]_vars => FileInv'
<1> SUFFICES ASSUME TypeInv, FileInv, [Next]_vars PROVE FileInv'
  OBVIOUS
<1> USE DEF TypeInv, TypeOK, FileInv, LinesGoToDriveFile
<1>1. CASE StartBin
  BY <1>1 DEF StartBin, fileVars, cardVars
<1>2. CASE ReadLow
  BY <1>2 DEF ReadLow, fileVars, cardVars
<1>3. CASE ReadHigh
  BY <1>3 DEF ReadHigh, fileVars, cardVars
<1>4. CASE ResetStartTime
  BY <1>4 DEF ResetStartTime, fileVars, cardVars
<1>5. CASE ResetLow
  BY <1>5 DEF ResetLow, fileVars, cardVars
<1>6. CASE ResetHigh
  BY <1>6 DEF ResetHigh, fileVars, cardVars
<1>7. CASE Bin
  <2>1. date # Unnamed
    BY MiniDatesAssumption DEF GpsDates, Unnamed
  <2>2. PICK vccOk \in BOOLEAN : NameFile(vccOk) /\ writing' = Writing(vccOk)
    BY <1>7 DEF Bin
  <2>3. files' = files /\ lastWrite' = lastWrite /\ stored' = stored
    BY <1>7 DEF Bin, cardVars
  <2>4. ~rtcAcq' => ~rtcAcq /\ filename' = filename
    BY <2>2 DEF NameFile
  <2>5. rtcAcq /\ rtcAcq' => filename' = filename /\ lowAtStart' = lowAtStart
    BY <2>2 DEF NameFile
  <2>6. ~rtcAcq /\ rtcAcq' => lowAtStart' = ~vccOk /\ (vccOk => filename' = date)
    BY <2>2 DEF NameFile
  <2>7. rtcAcq => rtcAcq'
    BY <2>2 DEF NameFile
  <2>8. writing' # "nothing" => rtcAcq'
    BY <2>2 DEF Writing
  <2>9. pc' = IF writing' = "nothing" THEN "loop" ELSE "open"
    BY <1>7 DEF Bin
  <2>10. LinesGoToDriveFile' /\ (~rtcAcq' => files' = {}) /\ (rtcAcq' /\ filename' = Unnamed => lowAtStart')
    BY <2>1, <2>3, <2>4, <2>5, <2>6, <2>7
  <2>11. QED
    BY <2>8, <2>9, <2>10
<1>8. CASE OpenFails
  BY <1>8 DEF OpenFails, Written, WriteHeader2SD, fileVars
<1>9. CASE OpenFile
  BY <1>9 DEF OpenFile, fileVars, cardVars
<1>10. CASE PrintLine
  <2>1. files' = (IF writing = "line" THEN files \cup {filename} ELSE files) /\ rtcAcq
    BY <1>10 DEF PrintLine
  <2>2. UNCHANGED <<rtcAcq, filename, lowAtStart, lastWrite>> /\ ~lastWrite
    BY <1>10 DEF PrintLine, fileVars
  <2>3. LinesGoToDriveFile'
    BY <2>1, <2>2
  <2>4. (pc' = "verify" /\ writing' = writing) \/ Written
    BY <1>10 DEF PrintLine
  <2>5. writing # "nothing"
    BY <1>10 DEF PrintLine
  <2>6. (pc' \in {"open", "print", "verify"} <=> writing' # "nothing") /\ pc' # "print"
    BY <2>4, <2>5 DEF Written, WriteHeader2SD
  <2>7. QED
    BY <2>1, <2>2, <2>3, <2>6
<1>11. CASE VerifyLine
  BY <1>11 DEF VerifyLine, Written, WriteHeader2SD, fileVars
<1>12. CASE ReceiveCharacter
  BY <1>12 DEF ReceiveCharacter, fileVars, cardVars
<1>13. CASE ReceiveNewline
  BY <1>13 DEF ReceiveNewline, fileVars, cardVars
<1>14. CASE LoseCharacters
  BY <1>14 DEF LoseCharacters, fileVars, cardVars
<1>15. CASE InterruptRoutine
  BY <1>15 DEF InterruptRoutine, fileVars, cardVars
<1>16. CASE PeriodEnds
  BY <1>16 DEF PeriodEnds, fileVars, cardVars
<1>17. CASE ChangeCard
  BY <1>17 DEF ChangeCard, fileVars, cardVars
<1>18. CASE UNCHANGED vars
  BY <1>18 DEF vars, counterVars, gpsVars, binVars, fileVars, cardVars
<1>19. QED
  BY <1>1, <1>2, <1>3, <1>4, <1>5, <1>6, <1>7, <1>8, <1>9, <1>10, <1>11, <1>12, <1>13, <1>14, <1>15, <1>16, <1>17, <1>18 DEF Next, MainStep, SdLogWriteln

-----------------------------------------------------------------------------

\* The position in memory is the sentence's, or what is left of it after a line.
PlaceInv ==
  /\ place \in {sentPlace, TruncateJP(sentPlace)}
  /\ SamePlaceSameLine
  /\ pc = "loop" => writing = "nothing"

LEMMA PlaceInit == Init => PlaceInv
  BY DEF Init, PlaceInv, SamePlaceSameLine

\* A line truncates the position in memory, a sentence replaces it between two lines.
LEMMA PlaceKept == TypeInv /\ PlaceInv /\ [Next]_vars => PlaceInv'
<1> SUFFICES ASSUME TypeInv, PlaceInv, [Next]_vars PROVE PlaceInv'
  OBVIOUS
<1> USE DEF PlaceInv, SamePlaceSameLine
<1>1. CASE StartBin
  BY <1>1 DEF StartBin, gpsVars
<1>2. CASE ReadLow
  BY <1>2 DEF ReadLow, gpsVars
<1>3. CASE ReadHigh
  BY <1>3 DEF ReadHigh, gpsVars
<1>4. CASE ResetStartTime
  BY <1>4 DEF ResetStartTime, gpsVars
<1>5. CASE ResetLow
  BY <1>5 DEF ResetLow, gpsVars
<1>6. CASE ResetHigh
  BY <1>6 DEF ResetHigh, gpsVars
<1>7. CASE Bin
  <2>1. place' = TruncateJP(place) /\ sentPlace' = sentPlace
    BY <1>7 DEF Bin, GpsGenTimestamp
  <2>2. place' = TruncateJP(sentPlace)
    BY <2>1, TruncateOnce DEF TypeInv, TypeOK
  <2>3. pc' = "loop" => writing' = "nothing"
    BY <1>7 DEF Bin
  <2>4. TruncateJP(sentPlace)' = TruncateJP(sentPlace)
    BY <2>1
  <2>5. QED
    BY <2>1, <2>2, <2>3, <2>4
<1>8. CASE OpenFails
  BY <1>8 DEF OpenFails, Written, WriteHeader2SD, gpsVars
<1>9. CASE OpenFile
  BY <1>9 DEF OpenFile, gpsVars
<1>10. CASE PrintLine
  BY <1>10 DEF PrintLine, Written, WriteHeader2SD, gpsVars
<1>11. CASE VerifyLine
  BY <1>11 DEF VerifyLine, Written, WriteHeader2SD, gpsVars
<1>12. CASE ReceiveCharacter
  BY <1>12 DEF ReceiveCharacter, gpsVars
<1>13. CASE ReceiveNewline
  BY <1>13 DEF ReceiveNewline, ParseRmc, gpsVars
<1>14. CASE LoseCharacters
  BY <1>14 DEF LoseCharacters, gpsVars
<1>15. CASE InterruptRoutine
  BY <1>15 DEF InterruptRoutine, gpsVars
<1>16. CASE PeriodEnds
  BY <1>16 DEF PeriodEnds, gpsVars
<1>17. CASE ChangeCard
  BY <1>17 DEF ChangeCard, gpsVars
<1>18. CASE UNCHANGED vars
  BY <1>18 DEF vars, counterVars, gpsVars, binVars, fileVars, cardVars
<1>19. QED
  BY <1>1, <1>2, <1>3, <1>4, <1>5, <1>6, <1>7, <1>8, <1>9, <1>10, <1>11, <1>12, <1>13, <1>14, <1>15, <1>16, <1>17, <1>18 DEF Next, MainStep, SdLogWriteln

-----------------------------------------------------------------------------

\* The state of the bGeigieMini stays well typed: a reading of the count fits the two
\* bytes, the window's index the window, and a truncated position the table of grids.
THEOREM TypeCorrect == Spec => []TypeOK
<1>1. Spec => []TypeInv
  BY TypeInit, TypesKept, PTL DEF Spec
<1>2. TypeInv => TypeOK
  BY DEF TypeInv
<1>3. QED
  BY <1>1, <1>2, PTL

\* interruptCounterCount() is right up to one carry, for a byte of any size and any
\* number of pulses that fits in the count.
THEOREM CpbIsPulsesOrOnePageMoreAlways == Spec => []CpbIsPulsesOrOnePageMore
<1>1. CountInv => CpbIsPulsesOrOnePageMore
  BY DEF CountInv
<1>2. QED
  BY TypeInit, TypesKept, CountInit, CountKept, <1>1, PTL DEF Spec

\* The log line is made in an empty buffer, for every size of the buffer.
THEOREM LineTakesEmptyBufferAlways == Spec => []LineTakesEmptyBuffer
<1>1. BufferInv => LineTakesEmptyBuffer
  BY DEF BufferInv
<1>2. QED
  BY BufferInit, BufferKept, <1>1, PTL DEF Spec

\* The lines of a drive go to its one file, and what is said to be written is whole.
THEOREM LinesGoToDriveFileAlways == Spec => []LinesGoToDriveFile
<1>1. FileInv => LinesGoToDriveFile
  BY DEF FileInv
<1>2. QED
  BY TypeInit, TypesKept, FileInit, FileKept, <1>1, PTL DEF Spec

\* What a line says of a position does not depend on how often it was truncated, for
\* every table of grids that has an entry for each latitude.
THEOREM SamePlaceSameLineAlways == Spec => []SamePlaceSameLine
<1>1. PlaceInv => SamePlaceSameLine
  BY DEF PlaceInv
<1>2. QED
  BY TypeInit, TypesKept, PlaceInit, PlaceKept, <1>1, PTL DEF Spec
=============================================================================
