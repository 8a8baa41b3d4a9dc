------------------------------ MODULE MiniLoop ------------------------------
(***************************************************************************)
(* The bGeigie-mini (bGeigieMini.ino) with the parts it is made of: the    *)
(* interrupt pulse counter (InterruptCounter.cpp), the GPS receiver        *)
(* (GPS.cpp) and the SD card logger (sd_logger.cpp).  One thread, loop(),  *)
(* reads GPS characters, and at the end of every period reads and restarts *)
(* the counter, makes a log line and writes it to the card.                *)
(*                                                                         *)
(* GPS sentences are received into the very buffer the log line is made    *)
(* in, RAM being scarce: gps_init(&Serial, line).                          *)
(*                                                                         *)
(* A character is told apart only as far as gps_update() and the checksum  *)
(* do: the newline, and whether the buffer holds the sentence from its     *)
(* start without a gap.  What a reset leaves behind is Init again.         *)
(***************************************************************************)
EXTENDS Integers, Functions

CONSTANTS
  LineSz,     \* LINE_SZ
  NX,         \* bins of the window
  Page,       \* values of a byte of _count, 2^8 in the code
  MaxPulses,  \* bound: pulses between two resets of the counter
  Dates,      \* dates the GPS module gives once its clock runs
  Year80,     \* the date it gives before
  NoDate,     \* no date: the zeros of gps_init, or an empty field
  Places,     \* positions in RMC sentences, <<latitude, longitude>>
  LatGrid,    \* 546, the truncation factor of the latitude
  LonGrid     \* the truncation factor of the longitude, by truncated latitude

ASSUME SizesAssumption ==
  /\ LineSz \in Nat \ {0} /\ NX \in Nat \ {0} /\ Page \in Nat \ {0, 1}
  /\ MaxPulses \in Nat /\ MaxPulses < Page * Page
ASSUME MiniDatesAssumption ==
  /\ Year80 \notin Dates /\ NoDate \notin Dates /\ Year80 # NoDate
  /\ <<"unnamed">> \notin Dates \cup {Year80, NoDate}
ASSUME PlacesAssumption ==
  /\ LatGrid \in Nat \ {0}
  /\ Places \subseteq (DOMAIN LonGrid) \X Nat /\ Places # {}
  /\ \A lat \in DOMAIN LonGrid :
       lat \in Nat /\ lat - (lat % LatGrid) \in DOMAIN LonGrid /\ LonGrid[lat] \in Nat \ {0}
  /\ 0 \in DOMAIN LonGrid

Bins == 0 .. NX - 1
Bytes == 0 .. Page - 1
GpsDates == Dates \cup {Year80, NoDate}
Unnamed == <<"unnamed">>        \* filename, before it is made
FileNames == {Unnamed} \cup GpsDates

\* Places of loop() between which an interrupt, a character or the card can come.
Locations == {"loop", "low", "high", "start", "clearLow", "clearHigh", "bin",
              "open", "print", "verify"}

VARIABLES
  pc,
  low, high,   \* the two bytes of _count that matter
  due,         \* interruptCounterAvailable()
  cpb,         \* the bytes of _count read so far; 0 when out of scope
  index,       \* _index
  updating,    \* _updating
  whole,       \* the buffer holds the present sentence from its start
  atStart,     \* the next character is the first of a sentence
  date, fix,   \* _gps_data: date and status
  place,       \* _gps_data: latitude and longitude
  shiftReg, regIndex, strCount, status,
  rtcAcq, filename,
  writing,     \* what sd_log_writeln() writes: "header", "line" or "nothing"
  long,        \* the line being written is longer than LINE_MAX_SIZE
  card,        \* a card is in the slot
  begun,       \* sd_log_initialized
  lastWrite,   \* sd_log_last_write
  stored,      \* what the last call has left on the card: "whole", or "damaged"
  pulses,      \* history: interrupts since the last reset of the counter
  expected,    \* history: interrupts until count() began to read
  sentPlace,   \* history: the position in the last RMC sentence
  files,       \* history: names the lines were written under
  lowAtStart   \* history: the supply was low in the bin that set rtc_acq

counterVars == <<low, high, due>>
gpsVars == <<index, updating, whole, atStart, date, fix, place, sentPlace>>
binVars == <<shiftReg, regIndex, strCount, status>>
fileVars == <<rtcAcq, filename, lowAtStart>>
cardVars == <<lastWrite, stored, files>>
vars == <<pc, counterVars, cpb, gpsVars, binVars, fileVars, writing, long,
          card, begun, cardVars, pulses, expected>>

TypeOK ==
  /\ pc \in Locations
  /\ low \in Bytes /\ high \in Bytes /\ due \in BOOLEAN
  /\ cpb \in 0 .. Page * Page - 1
  /\ index \in 0 .. LineSz
  /\ {updating, whole, atStart, fix} \subseteq BOOLEAN
  /\ date \in GpsDates
  /\ {place, sentPlace} \subseteq (DOMAIN LonGrid) \X Nat
  /\ shiftReg \in [Bins -> Nat] /\ regIndex \in Bins
  /\ strCount \in 0 .. NX /\ status \in {"A", "V"}
  /\ rtcAcq \in BOOLEAN /\ filename \in FileNames
  /\ {long, card, begun, lastWrite, lowAtStart} \subseteq BOOLEAN
  /\ writing \in {"header", "line", "nothing"}
  /\ stored \in {"whole", "damaged"}
  /\ pulses \in 0 .. MaxPulses /\ expected \in 0 .. MaxPulses
  /\ files \subseteq FileNames

\* sd_log_init(): the card that is in the slot, if any, is begun, or not.
SdLogInit == card \in BOOLEAN /\ begun \in BOOLEAN /\ (begun => card)

\* sd_diagnostic() tries to write a test file.
SdDiagnostic ==
  /\ lastWrite \in BOOLEAN /\ (lastWrite => begun)
  /\ stored = IF lastWrite THEN "whole" ELSE "damaged"

\* diagnostics(): all else in it is printed.
Diagnostics == SdDiagnostic

\* setup(): the counter is reset last, the GPS data are zero.
Init ==
  /\ pc = "loop"
  /\ low = 0 /\ high = 0 /\ due = FALSE /\ cpb = 0
  /\ index = 0 /\ updating = FALSE /\ whole = TRUE /\ atStart \in BOOLEAN
  /\ date = NoDate /\ fix = FALSE /\ place = <<0, 0>> /\ sentPlace = <<0, 0>>
  /\ shiftReg = [b \in Bins |-> 0] /\ regIndex = 0 /\ strCount = 0 /\ status = "V"
  /\ rtcAcq = FALSE /\ filename = Unnamed /\ lowAtStart = FALSE
  /\ writing = "nothing" /\ long = FALSE
  /\ SdLogInit
  /\ Diagnostics
  /\ files = {} /\ pulses = 0 /\ expected = 0

-----------------------------------------------------------------------------
(* gps_update(), at the top of loop() *)

\* Mutant: the test lets one character more into the buffer.
NextIndexBeyond == IF index <= LineSz THEN index + 1 ELSE 1

\* _index++, from 0 again when the buffer is full.
NextIndex == IF index < LineSz THEN index + 1 ELSE 1

\* A character other than the newline.  A full buffer is begun anew with it, in
\* the middle of the sentence; the updating flag is left as it is.
ReceiveCharacter ==
  /\ pc = "loop"
  /\ index' = NextIndex
  /\ whole' = IF index = 0 THEN atStart ELSE (whole /\ index # LineSz)
  /\ updating' = TRUE
  /\ atStart' = FALSE
  /\ UNCHANGED <<pc, counterVars, cpb, date, fix, place, sentPlace, binVars, fileVars,
                 writing, long, card, begun, cardVars, pulses, expected>>

\* parse_line_rmc() and parse_datetime(): all the fields of one sentence.
ParseRmc ==
  /\ date' \in GpsDates
  /\ fix' \in BOOLEAN
  /\ place' \in Places
  /\ sentPlace' = place'

\* Mutant: the flag is cleared for valid sentences only.
ClearWhenValid == updating' = (updating /\ ~whole)

\* The newline ends the line, valid or not: data are okay to read.
ClearUpdating == updating' = FALSE

\* The newline.  The buffer is a valid sentence if nothing of it is missing; of
\* those an RMC changes the data below, a GGA others, and the rest none.
ReceiveNewline ==
  /\ pc = "loop"
  /\ \/ /\ whole /\ index \in 1 .. LineSz - 1
        /\ ParseRmc
     \/ UNCHANGED <<date, fix, place, sentPlace>>
  /\ ClearUpdating
  /\ index' = 0
  /\ whole' = TRUE
  /\ atStart' = TRUE
  /\ UNCHANGED <<pc, counterVars, cpb, binVars, fileVars, writing, long,
                 card, begun, cardVars, pulses, expected>>

\* The serial port's buffer overflows while loop() is busy: some characters are
\* gone, and the next one is or is not the first of a sentence.
LoseCharacters ==
  /\ pc # "loop"
  /\ atStart' = ~atStart
  /\ UNCHANGED <<pc, counterVars, cpb, index, updating, whole, date, fix, place, sentPlace,
                 binVars, fileVars, writing, long, card, begun, cardVars, pulses, expected>>

-----------------------------------------------------------------------------
(* The interrupt pulse counter *)

\* interrupt_routine(): _count++, all bytes at once.  sd_log_writeln() prints with
\* interrupts disabled.  Between the accesses to two bytes of _count, adjacent
\* instructions, one interrupt can run: after it the CPU executes the next instruction.
InterruptRoutine ==
  /\ pc # "print" /\ pulses < MaxPulses
  /\ pc = "high" => pulses = expected
  /\ pc = "clearHigh" => pulses = 0
  /\ pulses' = pulses + 1
  /\ low' = (low + 1) % Page
  /\ high' = IF low = Page - 1 THEN (high + 1) % Page ELSE high
  /\ UNCHANGED <<pc, due, cpb, gpsVars, binVars, fileVars, writing, long,
                 card, begun, cardVars, expected>>

\* The period ends.
PeriodEnds ==
  /\ ~due
  /\ due' = TRUE
  /\ UNCHANGED <<pc, low, high, cpb, gpsVars, binVars, fileVars, writing, long,
                 card, begun, cardVars, pulses, expected>>

\* Mutant: the line buffer is taken while a sentence is being received.
MayLogAnyTime == due

\* interruptCounterAvailable() and gps_available().
MayLog == due /\ ~updating

\* loop() goes into the block under both tests; it resets the watchdog on the way.
StartBin ==
  /\ pc = "loop" /\ MayLog
  /\ pc' = "low"
  /\ UNCHANGED <<counterVars, cpb, gpsVars, binVars, fileVars, writing, long,
                 card, begun, cardVars, pulses, expected>>

\* interruptCounterCount() reads _count byte by byte, the low byte first.
ReadLow ==
  /\ pc = "low" /\ pc' = "high"
  /\ cpb' = low
  /\ expected' = pulses
  /\ UNCHANGED <<counterVars, gpsVars, binVars, fileVars, writing, long,
                 card, begun, cardVars, pulses>>

ReadHigh ==
  /\ pc = "high" /\ pc' = "start"
  /\ cpb' = cpb + Page * high
  /\ UNCHANGED <<counterVars, gpsVars, binVars, fileVars, writing, long,
                 card, begun, cardVars, pulses, expected>>

\* interruptCounterReset(): the start time, then the bytes of _count.
ResetStartTime ==
  /\ pc = "start" /\ pc' = "clearLow"
  /\ due' = FALSE
  /\ UNCHANGED <<low, high, cpb, gpsVars, binVars, fileVars, writing, long,
                 card, begun, cardVars, pulses, expected>>

\* Only what is counted from here on belongs to the next bin.
ResetLow ==
  /\ pc = "clearLow" /\ pc' = "clearHigh"
  /\ low' = 0 /\ pulses' = 0
  /\ UNCHANGED <<high, due, cpb, gpsVars, binVars, fileVars, writing, long,
                 card, begun, cardVars, expected>>

\* Mutant: one byte is cleared.
ResetLowOnly ==
  /\ pc = "clearHigh" /\ pc' = "bin"
  /\ UNCHANGED <<counterVars, cpb, gpsVars, binVars, fileVars, writing, long,
                 card, begun, cardVars, pulses, expected>>

ResetHigh ==
  /\ pc = "clearHigh" /\ pc' = "bin"
  /\ high' = 0
  /\ UNCHANGED <<low, due, cpb, gpsVars, binVars, fileVars, writing, long,
                 card, begun, cardVars, pulses, expected>>

-----------------------------------------------------------------------------
(* The line of a bin *)

CpmGen(reg) == SumFunction(reg)

\* The window and its flag.
InsertBin ==
  /\ shiftReg' = [shiftReg EXCEPT ![regIndex] = cpb]
  /\ regIndex' = (regIndex + 1) % NX
  /\ strCount' = IF strCount < NX THEN strCount + 1 ELSE strCount
  /\ status' = IF strCount < NX \/ CpmGen(shiftReg') = 0 THEN "V" ELSE "A"

Truncated(minutes, grid) == minutes - (minutes % grid)

\* Mutant: the longitude's factor is that of the latitude before its truncation.
TruncateByRaw(p) == <<Truncated(p[1], LatGrid), Truncated(p[2], LonGrid[p[1]])>>

\* truncate_JP(), in place: what is logged twice is truncated twice.
TruncateJP(p) ==
  LET lat == Truncated(p[1], LatGrid)
  IN  <<lat, Truncated(p[2], LonGrid[lat])>>

\* The clock of the GPS module runs, with or without a fix.
Acquired == fix \/ date # Year80

\* Mutant: the drive's file is named again with every date.
NameFileDaily(vccOk) ==
  IF Acquired
    THEN /\ rtcAcq' = TRUE
         /\ filename' = IF vccOk THEN date ELSE filename
         /\ lowAtStart' = IF rtcAcq THEN lowAtStart ELSE ~vccOk
    ELSE UNCHANGED <<rtcAcq, filename, lowAtStart>>

\* The first bin with a date flags it; the file is named then, if the supply is high.
NameFile(vccOk) ==
  IF ~rtcAcq /\ Acquired
    THEN /\ rtcAcq' = TRUE
         /\ filename' = IF vccOk THEN date ELSE filename
         /\ lowAtStart' = ~vccOk
    ELSE UNCHANGED <<rtcAcq, filename, lowAtStart>>

\* What goes to the card in this bin: a header first if the file is new.
Writing(vccOk) ==
  IF ~(rtcAcq' /\ vccOk) THEN "nothing" ELSE IF filename' # filename THEN "header" ELSE "line"

\* gps_gen_timestamp(): the position is truncated, and the line written over whatever the
\* buffer holds; a sentence of which a part was there is lost.
GpsGenTimestamp ==
  /\ place' = TruncateJP(place)
  /\ whole' = (index = 0)

\* The rest of the block up to the card.
Bin ==
  /\ pc = "bin"
  /\ InsertBin
  /\ GpsGenTimestamp
  /\ \E vccOk \in BOOLEAN : NameFile(vccOk) /\ writing' = Writing(vccOk)
  /\ IF writing' = "nothing" THEN pc' = "loop" /\ UNCHANGED long
                            ELSE pc' = "open" /\ long' \in BOOLEAN
  /\ cpb' = 0 /\ expected' = 0
  /\ UNCHANGED <<counterVars, index, updating, atStart, date, fix, sentPlace,
                 card, begun, cardVars, pulses>>

-----------------------------------------------------------------------------
(* sd_log_writeln() *)

\* writeHeader2SD(): its lines stand for one, since none of them looks at what became of
\* the others, and neither does what follows: the line of the bin.
WriteHeader2SD == pc' = "open" /\ writing' = "line" /\ UNCHANGED long

\* After a header comes the line, then loop().
Written ==
  IF writing = "header"
    THEN WriteHeader2SD
    ELSE pc' = "loop" /\ writing' = "nothing" /\ long' = FALSE

\* Card missing, or the file does not open: always so if the card was not begun.
OpenFails ==
  /\ pc = "open"
  /\ lastWrite' = FALSE /\ stored' = "damaged"
  /\ Written
  /\ UNCHANGED <<counterVars, cpb, gpsVars, binVars, fileVars,
                 card, begun, files, pulses, expected>>

OpenFile ==
  /\ pc = "open" /\ card /\ begun
  /\ pc' = "print"
  /\ lastWrite' = FALSE /\ stored' = "damaged"
  /\ UNCHANGED <<counterVars, cpb, gpsVars, binVars, fileVars, writing, long,
                 card, begun, files, pulses, expected>>

\* The bytes written are len + 1 unless the card fails, or the line is longer than
\* strnlen() counts, a case of the line alone.
LengthRight == ~(long /\ writing = "line")

\* print() and close(), with interrupts off.  A short count ends the matter.
PrintLine ==
  /\ pc = "print"
  /\ stored' \in {"whole", "damaged"}
  /\ stored' = "whole" => card
  /\ files' = IF writing = "line" THEN files \cup {filename} ELSE files
  /\ \/ LengthRight /\ pc' = "verify" /\ UNCHANGED <<writing, long>>
     \/ (stored' = "damaged" \/ ~LengthRight) /\ Written
  /\ UNCHANGED <<counterVars, cpb, gpsVars, binVars, fileVars,
                 card, begun, lastWrite, pulses, expected>>

\* The file is opened again and compared character by character.
VerifyLine ==
  /\ pc = "verify"
  /\ lastWrite' \in BOOLEAN /\ (lastWrite' => card /\ stored = "whole")
  /\ Written
  /\ UNCHANGED <<counterVars, cpb, gpsVars, binVars, fileVars,
                 card, begun, stored, files, pulses, expected>>

\* A card goes out or comes in.  One that comes in is detected and never begun; the
\* one that is put back is the card that was begun.
ChangeCard ==
  /\ card' = ~card
  /\ UNCHANGED <<pc, counterVars, cpb, gpsVars, binVars, fileVars, writing, long,
                 begun, cardVars, pulses, expected>>

-----------------------------------------------------------------------------
SdLogWriteln == OpenFails \/ OpenFile \/ PrintLine \/ VerifyLine

MainStep ==
  \/ ReadLow \/ ReadHigh \/ ResetStartTime \/ ResetLow \/ ResetHigh
  \/ Bin \/ SdLogWriteln

Next ==
  \/ StartBin \/ MainStep
  \/ ReceiveCharacter \/ ReceiveNewline \/ LoseCharacters
  \/ InterruptRoutine \/ PeriodEnds
  \/ ChangeCard

Spec == Init /\ [][Next]_vars

\* The CPU goes on; the GPS module completes its sentences; and as it sends them in
\* one burst a second, loop() finds the line idle again and again (hence SF).
FairSpec ==
  /\ Spec
  /\ WF_vars(MainStep)
  /\ WF_vars(ReceiveNewline)
  /\ SF_vars(StartBin)

-----------------------------------------------------------------------------
(* Properties *)

\* The buffer has two users.  When the log line is made in it (memset, sprintf), no
\* sentence is half received: the flag _updating, cleared by the newline alone, stands
\* for the buffer even over lines that are cut and lost characters.
LineTakesEmptyBuffer == pc \in Locations \ {"loop"} => index = 0

\* A reading is the number of pulses, or a page more when the interrupt carried
\* into the next byte after the low byte had been read.
CpbIsPulsesOrOnePageMore ==
  pc \in {"start", "clearLow", "clearHigh", "bin"} =>
    \/ cpb = expected
    \/ cpb = expected + Page /\ expected % Page = Page - 1

\* The lines of a drive go to one file, the one that was named; it has no name only if
\* the supply was low in the bin that flagged the date (bGeigieMini.ino:337-367).  And
\* what sd_log_last_write says was written, the card has, whole.
LinesGoToDriveFile ==
  /\ files \subseteq {filename}
  /\ Unnamed \in files => lowAtStart
  /\ lastWrite => stored = "whole"

\* The position of a line depends on the sentence it comes from and not on how often
\* it was logged, although every line truncates the data in place.
SamePlaceSameLine == writing # "nothing" => place = TruncateJP(sentPlace)

\* A period that is over is logged, whatever the GPS module sends.
DueBinIsLogged == due ~> pc = "bin"

=============================================================================
