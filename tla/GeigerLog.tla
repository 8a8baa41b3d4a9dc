----------------------------- MODULE GeigerLog -----------------------------
(***************************************************************************)
(* What loop() of the bGeigie3 does under the card's lock (bGeigie3.ino):  *)
(* every few seconds the pulses of a bin go into a sliding window, and a   *)
(* line with the window's sum, the running total, a validity flag and the  *)
(* GPS data goes to the log file of the drive, named by the first date the *)
(* GPS module gives.                                                       *)
(*                                                                         *)
(* The bins are bounded by hwc.available(); between them the GPS module    *)
(* sends sentences and the user switches the device off and on.  While the *)
(* SD card reader has the card, loop() restarts the pulse counter: no bin  *)
(* is added, and nothing below changes.                                    *)
(***************************************************************************)
EXTENDS Integers

CONSTANTS
  NX,        \* bins of the window
  Counts,    \* pulses of a bin
  Dates,     \* dates the GPS module gives once its clock runs
  Year80,    \* the date it gives before
  NoDate,    \* no date: the zeros of gps_init, or an empty field
  MaxTotal,  \* bound: pulses counted in a drive
  MaxRun     \* bound: bins told apart by the histories

ASSUME WindowAssumption == NX \in Nat \ {0} /\ Counts \subseteq Nat /\ Counts # {}
ASSUME DatesAssumption == Year80 \notin Dates /\ NoDate \notin Dates /\ Year80 # NoDate
ASSUME BoundsAssumption == MaxTotal \in Nat /\ MaxRun \in Nat /\ MaxRun > NX

Bins == 0 .. NX - 1
GpsDates == Dates \cup {Year80, NoDate}

VARIABLES
  shiftReg,   \* shift_reg
  regIndex,   \* reg_index
  total,      \* total_count
  strCount,   \* str_count
  status,     \* geiger_status
  rtcAcq,     \* rtc_acq
  filename,   \* the date in filename
  date,       \* _gps_data.datetime
  fix,        \* _gps_data.status is 'A'
  updating,   \* _updating: the GPS sentence is not complete
  lastWrite,  \* sd_log_last_write
  cpm,        \* the window's sum in the last line
  running,    \* bg_pwr_running(): the device has been switched on
  recent,     \* history: the last NX bins since power_up(), latest first
  done,       \* history: bins since power_up(), up to MaxRun
  files       \* history: files the drive's lines went to

windowVars == <<shiftReg, regIndex, total, strCount, status, cpm>>
fileVars == <<rtcAcq, filename, lastWrite>>
gpsVars == <<date, fix, updating>>
historyVars == <<recent, done, files>>
logVars == <<windowVars, fileVars, gpsVars, running, historyVars>>

LogTypeOK ==
  /\ shiftReg \in [Bins -> Nat]
  /\ regIndex \in Bins
  /\ total \in Nat
  /\ strCount \in 0 .. NX
  /\ status \in {"A", "V"}
  /\ rtcAcq \in BOOLEAN
  /\ filename \in GpsDates
  /\ date \in GpsDates
  /\ fix \in BOOLEAN
  /\ updating \in BOOLEAN
  /\ lastWrite \in BOOLEAN
  /\ cpm \in Nat
  /\ running \in BOOLEAN
  /\ recent \in [1 .. NX -> Nat]
  /\ done \in 0 .. MaxRun
  /\ files \in SUBSET GpsDates

\* sd_log_card_diagnostic(): a test file is written, and removed if it could be opened.
SdLogCardDiagnostic == lastWrite \in BOOLEAN

\* diagnostics(): all else in it is printed.
Diagnostics == SdLogCardDiagnostic

\* The state setup() leaves behind: gps_init() has zeroed the GPS data, the device is
\* down until the button is held, and diagnostics() comes last.
LogInit ==
  /\ shiftReg = [b \in Bins |-> 0]
  /\ regIndex = 0
  /\ total = 0
  /\ strCount = 0
  /\ status = "V"
  /\ rtcAcq = FALSE
  /\ filename = NoDate
  /\ date = NoDate
  /\ fix = FALSE
  /\ updating = FALSE
  /\ Diagnostics
  /\ cpm = 0
  /\ running = FALSE
  /\ recent = [k \in 1 .. NX |-> 0]
  /\ done = 0
  /\ files = {}

AtMost(n, bound) == IF n < bound THEN n ELSE bound

-----------------------------------------------------------------------------
(* A bin *)

\* cpm_gen(): the first i bins are summed in turn.
CpmGen(reg) ==
  LET sum[i \in 0 .. NX] == IF i = 0 THEN 0 ELSE sum[i - 1] + reg[i - 1] IN sum[NX]

\* Mutant: the index is not taken modulo the size of the register.
InsertBinBeyond(count) ==
  /\ shiftReg' = [shiftReg EXCEPT ![regIndex] = count]
  /\ regIndex' = regIndex + 1

InsertBin(count) ==
  /\ shiftReg' = [shiftReg EXCEPT ![regIndex] = count]
  /\ regIndex' = (regIndex + 1) % NX

\* The flag that goes with the window: void until it is full, and when empty.
SetStatus ==
  IF strCount < NX
    THEN status' = "V" /\ strCount' = strCount + 1
    ELSE status' = (IF cpm' = 0 THEN "V" ELSE "A") /\ UNCHANGED strCount

\* Mutant: the file is named again with every new date.
NameFileDaily ==
  IF fix \/ date # Year80
    THEN rtcAcq' = TRUE /\ filename' = date
    ELSE UNCHANGED <<rtcAcq, filename>>

\* "the system starts recording when year is not '80'", or with a fix.
NameFile ==
  IF ~rtcAcq /\ (fix \/ date # Year80)
    THEN rtcAcq' = TRUE /\ filename' = date
    ELSE UNCHANGED <<rtcAcq, filename>>

\* hwc.available() && gps_available(): the bin is counted, and logged if the file
\* has its name.  A write of the card succeeds or not.
Bin(count) ==
  /\ running /\ ~updating
  /\ total + count <= MaxTotal
  /\ InsertBin(count)
  /\ cpm' = CpmGen(shiftReg')
  /\ total' = total + count
  /\ SetStatus
  /\ NameFile
  /\ lastWrite' \in (IF rtcAcq' THEN BOOLEAN ELSE {FALSE})
  /\ recent' = [k \in 1 .. NX |-> IF k = 1 THEN count ELSE recent[k - 1]]
  /\ done' = AtMost(done + 1, MaxRun)
  /\ files' = IF rtcAcq' THEN files \cup {filename'} ELSE files
  /\ UNCHANGED <<gpsVars, running>>

-----------------------------------------------------------------------------
(* What comes between two bins *)

\* gps_update(): some characters of a sentence.
GpsCharacters ==
  /\ running /\ ~updating
  /\ updating' = TRUE
  /\ UNCHANGED <<windowVars, fileVars, date, fix, running, historyVars>>

\* gps_update(): the end of an RMC sentence; without a fix its date can be missing.
GpsRmc ==
  /\ running
  /\ fix' \in BOOLEAN
  /\ date' \in (IF fix' THEN Dates ELSE GpsDates)
  /\ updating' = FALSE
  /\ UNCHANGED <<windowVars, fileVars, running, historyVars>>

\* gps_update(): the end of any other line.
GpsOtherLine ==
  /\ running /\ updating
  /\ updating' = FALSE
  /\ UNCHANGED <<windowVars, fileVars, date, fix, running, historyVars>>

\* Mutant: str_count is forgotten.
GlobalVariablesInitExceptStrCount ==
  /\ shiftReg' = [b \in Bins |-> 0]
  /\ regIndex' = 0
  /\ total' = 0
  /\ status' = "V"
  /\ rtcAcq' = FALSE
  /\ UNCHANGED strCount

\* Mutant: the register is not cleared.
GlobalVariablesInitExceptRegister ==
  /\ regIndex' = 0
  /\ total' = 0
  /\ strCount' = 0
  /\ status' = "V"
  /\ rtcAcq' = FALSE
  /\ UNCHANGED shiftReg

\* global_variables_init()
GlobalVariablesInit ==
  /\ shiftReg' = [b \in Bins |-> 0]
  /\ regIndex' = 0
  /\ total' = 0
  /\ strCount' = 0
  /\ status' = "V"
  /\ rtcAcq' = FALSE

\* On, or off and on again: power_up(), of which sd_log_init() is a part.  The GPS module
\* is switched off and on, its data in memory are what they were.
PowerUp ==
  /\ GlobalVariablesInit
  /\ lastWrite' = TRUE
  /\ running' = TRUE
  /\ recent' = [k \in 1 .. NX |-> 0]
  /\ done' = 0
  /\ files' = {}
  /\ UNCHANGED <<filename, cpm, gpsVars>>

LogNext ==
  \/ \E count \in Counts : Bin(count)
  \/ GpsCharacters \/ GpsRmc \/ GpsOtherLine
  \/ PowerUp

LogSpec == LogInit /\ [][LogNext]_logVars

-----------------------------------------------------------------------------
(* Properties *)

\* The last bins of the drive, latest first, as a register would hold them.
LastBins == [b \in Bins |-> recent[b + 1]]

\* What a line says of the last minute is the pulses of the last NX bins of the drive,
\* wherever the ring stands, and those of an earlier drive never count.
CpmIsLastBins == done > 0 => cpm = CpmGen(LastBins)

\* "'A' indicates the counter has been running for more than one minute and the 1
\* minute count is not zero" (README.md:33), in bins since the device came up.
ValidAfterFullWindow == status = "A" => done > NX /\ cpm # 0

\* The lines between two power_ups go to one file, over midnight and whatever the
\* GPS module says of the date later.
OneFilePerDrive == \A f, g \in files : f = g
=============================================================================
