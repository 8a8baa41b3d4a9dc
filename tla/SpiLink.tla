------------------------------ MODULE SpiLink ------------------------------
(***************************************************************************)
(* The commands that the 32u4 (sd_raw.c, SPI slave) gives to the 1284p     *)
(* (sd_reader_int.cpp, SPI master), byte by byte.  The slave raises a line *)
(* and loads the first byte; the master's interrupt sets a flag, and when  *)
(* its main loop comes by it clocks the command in, serves it, and clocks  *)
(* the answer out.  Nothing frames the bytes: the two sides agree on a     *)
(* position only as long as each exchanges as many bytes as the other.     *)
(*                                                                         *)
(* Every transfer swaps a byte in both directions and leaves it, marked by *)
(* the flag SPIF, in the slave's receive buffer, also when the slave waits *)
(* for nothing: it then takes it for the first byte of what comes next.    *)
(***************************************************************************)
EXTENDS Integers, Sequences

CONSTANTS
  NArg,        \* bytes of an argument (4)
  BlockLen,    \* bytes of a block (512)
  InfoLen,     \* bytes of a register of the card (16)
  MaxTries,    \* n_try at which sd_raw_send_command() gives up (255)
  Byte,        \* the values of a byte that occur
  Noise,       \* what the master reads from a slave without SPI
  Addresses,   \* the arguments of READ and WRITE
  Blocks,      \* the contents of a block that the host writes
  Registers,   \* what CMD_REQ_INFO answers with: CID and CSD with their CRC
  Writable,    \* theConfig.sd_rw == 1
  MaxResets    \* bound on the resets by a watchdog that did not wait for nothing

\* Command bytes, 0x40 | CMD_..., and answers.
ON == 124   OFF == 125   READ == 81   WRITE == 88   INFO == 126   IS_RW == 120
Commands == {ON, OFF, READ, WRITE, INFO, IS_RW}
SUCCESS == 0   RETRY == 250   FAILURE == 255

InfoBytes == 2 * (InfoLen + 2)
Block == [1 .. BlockLen -> Byte]
Argument == [1 .. NArg -> Byte]
ZeroArg == [i \in 1 .. NArg |-> 0]
ZeroBlock == [i \in 1 .. BlockLen |-> 0]
ZeroInfo == [i \in 1 .. InfoBytes |-> 0]

ASSUME LengthsAssumption ==
  {NArg, BlockLen, InfoLen} \subseteq Nat \ {0} /\ MaxTries \in Nat \ {0, 1} /\ MaxResets \in Nat
ASSUME BytesAssumption ==
  /\ {0, 18, 52, 86, 102, 120, 171, 205, 239, 254, 255, RETRY} \cup Commands \subseteq Byte
  /\ Noise \subseteq Byte
  /\ Addresses \subseteq Argument /\ ZeroArg \in Addresses
  /\ Blocks \subseteq Block /\ Blocks # {}
  /\ Registers \in [1 .. InfoBytes -> Byte] /\ Writable \in BOOLEAN

VARIABLES
  (* the 1284p *)
  flag,      \* sd_reader_interrupted
  reader,    \* sd_reader_state
  mphase,    \* what the master does: "away" from sd_reader_process_interrupt(), ...
  mi,        \* ... and its next transfer in that phase
  mcmd, marg, \* cmd, arg
  mcode,     \* the single byte it answers with
  mbuf,      \* buffer
  card,
  slot,      \* the card is "out", "in", or "begun": initialised since it came in
  (* the 32u4 *)
  spc,       \* "boot" since a reset, "ready", "pause" in a delay(), "xfer"
  sphase,    \* "cmd", "read", "write" or "info": the transfers of sd_raw.c
  si,        \* the transfer it has loaded a byte for
  scmd, sarg, tries,
  todo,      \* SDCardManager_Init goes on with ON or IS_RW; or the host decides
  cache,     \* raw_block
  sinfo,     \* the registers as received
  result,    \* how the last command ended
  dog,       \* the watchdog is armed
  (* between them *)
  spi,       \* the slave's SPI is enabled
  shift,     \* the byte the slave has loaded
  rx, spif,  \* its receive buffer, and whether that holds a byte not taken yet
  (* history *)
  torn,      \* what may have set the two sides apart since the last boot
  asked,     \* the address of the last WRITE the slave has sent
  lost,      \* the card did not take the block of the last WRITE
  resets

masterVars == <<mphase, mi, mcmd, marg, mcode, mbuf>>
cardVars == <<card, slot>>
slaveVars == <<spc, sphase, si, scmd, sarg, tries, todo, cache, sinfo, result, dog>>
wireVars == <<spi, shift, rx, spif>>
historyVars == <<torn, asked, lost, resets>>
vars == <<flag, reader, masterVars, cardVars, slaveVars, wireVars, historyVars>>

\* Transfers of the master in a phase, and of the slave.
MasterLen == [cmd |-> NArg + 1, refuse |-> 1, status |-> 1, readback |-> BlockLen + 4,
              writein |-> BlockLen + 4, info |-> InfoBytes + 1]
Clocking == DOMAIN MasterLen
MasterPhases == Clocking \cup {"away", "dispatch", "serve", "store"}

SlaveLen == [cmd |-> NArg + 2, read |-> BlockLen + 3, write |-> BlockLen + 4, info |-> InfoBytes]

Init ==
  /\ flag = FALSE /\ reader = "IDLE"
  /\ mphase = "away" /\ mi = 1 /\ mcmd = 0 /\ marg = ZeroArg /\ mcode = 0 /\ mbuf = ZeroBlock
  /\ card = [a \in Addresses |-> ZeroBlock] /\ slot \in {"out", "begun"}
  /\ spc = "boot" /\ sphase = "cmd" /\ si = 1 /\ scmd = ON /\ sarg = ZeroArg /\ tries = 0
  /\ todo = "ON" /\ cache = ZeroBlock /\ sinfo = ZeroInfo /\ result = "none" /\ dog = FALSE
  /\ spi = FALSE /\ shift = 0 /\ rx = 0 /\ spif = FALSE
  /\ torn = {} /\ asked = ZeroArg /\ lost = FALSE /\ resets = 0

-----------------------------------------------------------------------------
(* The 32u4 *)

\* Mutant: a trial goes on with the transfer the last one has ended at.
TrialKeepsPlace(c, a) ==
  /\ spc' = "xfer" /\ sphase' = "cmd" /\ UNCHANGED si
  /\ scmd' = c /\ sarg' = a
  /\ dog' = TRUE
  /\ flag' = TRUE
  /\ spi' = TRUE /\ shift' = c
  /\ UNCHANGED <<rx, spif>>

\* One trial of sd_raw_send_command(): the watchdog, irq_high(), the first byte.
\* The interrupt of the master sets its flag at once.
Trial(c, a) ==
  /\ spc' = "xfer" /\ sphase' = "cmd" /\ si' = 1
  /\ scmd' = c /\ sarg' = a
  /\ dog' = TRUE
  /\ flag' = TRUE
  /\ spi' = TRUE /\ shift' = c
  /\ UNCHANGED <<rx, spif>>

Send(c, a, data) ==
  /\ spc = "ready"
  /\ Trial(c, a)
  /\ tries' = 1 /\ result' = "none" /\ cache' = data /\ sinfo' = ZeroInfo
  /\ lost' = FALSE /\ asked' = IF c = WRITE THEN a ELSE asked
  /\ UNCHANGED <<reader, masterVars, cardVars, todo, torn, resets>>

\* SDCardManager_Init(): sd_raw_init() until it succeeds, then sd_raw_is_readonly().
InitStep ==
  \/ todo = "ON" /\ Send(ON, ZeroArg, ZeroBlock)
  \/ todo = "RW" /\ Send(IS_RW, ZeroArg, ZeroBlock)

\* What the host makes sd_raw.c ask for; a WRITE sends the cached block.  (What
\* the cache held before is the business of SdRaw.)
HostAsks ==
  /\ todo = "host"
  /\ \/ \E a \in Addresses : Send(READ, a, ZeroBlock)
     \/ \E a \in Addresses, d \in Blocks : Send(WRITE, a, d)
     \/ Send(INFO, ZeroArg, ZeroBlock)

\* The cable out and in again: GoToSleep() makes the main loop start over.
Reconnect ==
  /\ spc = "ready" /\ todo = "host"
  /\ todo' = "ON" /\ result' = "none"
  /\ UNCHANGED <<flag, reader, masterVars, cardVars, spc, sphase, si, scmd, sarg, tries, cache,
                 sinfo, dog, wireVars, historyVars>>

\* The end of delay(50) before another trial, and of delay(100) before block 0.
PauseEnds ==
  /\ spc = "pause"
  /\ Trial(scmd, sarg)
  /\ UNCHANGED <<reader, masterVars, cardVars, tries, todo, cache, sinfo, result, historyVars>>

\* Mutant: sd_raw_write() without its start byte.
LoadedWithoutStart(phase, i) ==
  CASE phase = "cmd" -> IF i \in 2 .. NArg + 1 THEN sarg[i - 1] ELSE 0
    [] phase = "read" -> IF i = 1 THEN 239 ELSE IF i <= BlockLen + 1 THEN 0
                         ELSE IF i = BlockLen + 2 THEN 171 ELSE 205
    [] phase = "write" -> IF i <= BlockLen THEN cache[i] ELSE 255
    [] phase = "info" -> 0

\* The byte loaded for transfer i of a phase.
Loaded(phase, i) ==
  CASE phase = "cmd" -> IF i \in 2 .. NArg + 1 THEN sarg[i - 1] ELSE 0
    [] phase = "read" -> IF i = 1 THEN 239 ELSE IF i <= BlockLen + 1 THEN 0
                         ELSE IF i = BlockLen + 2 THEN 171 ELSE 205
    [] phase = "write" -> IF i = 1 THEN 254 ELSE IF i <= BlockLen + 1 THEN cache[i - 1]
                          ELSE IF i <= BlockLen + 3 THEN 255 ELSE 0
    [] phase = "info" -> 0

Enter(phase) == sphase' = phase /\ si' = 1 /\ shift' = Loaded(phase, 1)

\* Back to the caller, which goes on with sd_raw_is_readonly() or the host.
Done(r) ==
  /\ spc' = "ready" /\ result' = r
  /\ todo' = CASE todo = "ON" -> IF r = "ok" THEN "RW" ELSE "ON"
               [] OTHER -> "host"
  /\ UNCHANGED <<sphase, si, shift, scmd, sarg, tries>>

GoOn == UNCHANGED <<spc, result, todo, scmd, sarg, tries>>

\* Every wait for SPIF: a byte is there, the slave takes it.
Taking == spc = "xfer" /\ spif

\* sd_raw_read() stores a byte of the block, without a look at the start byte.
StoreBlock ==
  cache' = IF sphase = "read" /\ si \in 2 .. BlockLen + 1 THEN [cache EXCEPT ![si - 1] = rx]
           ELSE cache

\* sd_raw_get_info() stores a byte of the CID, the CSD or their CRC.
StoreInfo == sinfo' = IF sphase = "info" THEN [sinfo EXCEPT ![si] = rx] ELSE sinfo

\* A byte in the middle of a phase: stored where it belongs, and the next loaded.
\* The watchdog of a READ is disarmed when the block is in.
TakeByte ==
  /\ Taking /\ si < SlaveLen[sphase]
  /\ spif' = FALSE
  /\ si' = si + 1 /\ shift' = Loaded(sphase, si + 1)
  /\ StoreBlock
  /\ StoreInfo
  /\ dog' = (dog /\ ~(sphase = "read" /\ si = BlockLen + 1))
  /\ GoOn
  /\ UNCHANGED <<flag, reader, masterVars, cardVars, sphase, spi, rx, historyVars>>

\* Mutant: no watchdog in sd_raw_write().
ReadWatched(c) == c = READ

\* wdt_enable() before the data of a READ and a WRITE.
Watched(c) == c # INFO

\* The response of a command.  After 255 trials it counts as a failure, whatever
\* it was.
Response == IF tries = MaxTries THEN FAILURE ELSE rx

TakeResponse ==
  /\ Taking /\ sphase = "cmd" /\ si = SlaveLen["cmd"]
  /\ spif' = FALSE
  /\ CASE Response = RETRY ->
            /\ spc' = "pause" /\ tries' = tries + 1
            /\ dog' = FALSE
            /\ UNCHANGED <<sphase, si, shift, scmd, sarg, result, todo>>
       [] Response # RETRY /\ scmd = ON /\ Response # FAILURE ->  \* goes on with block 0
            /\ spc' = "pause" /\ scmd' = READ /\ sarg' = ZeroArg /\ tries' = 1
            /\ dog' = FALSE
            /\ UNCHANGED <<sphase, si, shift, result, todo>>
       [] Response = SUCCESS /\ scmd = IS_RW -> Done("ok") /\ dog' = FALSE
       [] Response = SUCCESS /\ scmd \in {READ, WRITE, INFO} ->
            /\ Enter(CASE scmd = READ -> "read" [] scmd = WRITE -> "write" [] OTHER -> "info")
            /\ dog' = Watched(scmd)
            /\ GoOn
       [] OTHER -> Done("failed") /\ dog' = FALSE
  /\ UNCHANGED <<flag, reader, masterVars, cardVars, cache, sinfo, spi, rx, historyVars>>

\* The last byte of the data: for a WRITE the status, and 0 leaves with the
\* watchdog armed.
TakeLast ==
  /\ Taking /\ sphase # "cmd" /\ si = SlaveLen[sphase]
  /\ spif' = FALSE
  /\ StoreInfo
  /\ IF sphase = "write" /\ rx = 0
       THEN Done("failed") /\ UNCHANGED dog
       ELSE Done("ok") /\ dog' = FALSE
  /\ UNCHANGED <<flag, reader, masterVars, cardVars, cache, spi, rx, historyVars>>

SlaveStep == InitStep \/ PauseEnds \/ TakeByte \/ TakeResponse \/ TakeLast

-----------------------------------------------------------------------------
(* The 1284p *)

\* sd_reader_loop() finds the flag raised.
StartProcess ==
  /\ mphase = "away" /\ flag
  /\ flag' = FALSE
  /\ mphase' = "cmd" /\ mi' = 1 /\ mcmd' = 0 /\ marg' = ZeroArg
  /\ mbuf' = ZeroBlock  \* overwritten before it is used
  /\ UNCHANGED <<reader, mcode, cardVars, slaveVars, wireVars, historyVars>>

\* The byte the master sends in transfer i of a phase.
Sent(phase, i) ==
  CASE phase = "refuse" -> RETRY
    [] phase = "status" -> mcode
    [] phase = "readback" /\ i = 2 -> 254
    [] phase = "readback" /\ i \in 3 .. BlockLen + 2 -> mbuf[i - 2]
    [] phase = "readback" /\ i = BlockLen + 3 -> 18
    [] phase = "readback" /\ i = BlockLen + 4 -> 52
    [] phase = "writein" /\ i = BlockLen + 3 -> 171
    [] phase = "writein" /\ i = BlockLen + 4 -> 205
    [] phase = "info" /\ i > 1 -> Registers[i - 1]
    [] OTHER -> 0

AfterPhase == CASE mphase = "cmd" -> "dispatch" [] mphase = "refuse" -> "serve"
                [] mphase = "writein" -> "store" [] OTHER -> "away"

\* Mutant: the bytes of the argument are not shifted together.
ArgLast(b) == [ZeroArg EXCEPT ![NArg] = b]

\* arg = (arg << 8) + b: byte mi - 1 of the argument, first the highest.
ArgPlus(b) == [marg EXCEPT ![mi - 1] = b]

\* (History.)  A refused command is out of step; so is noise that spells a command.
Tears(b) ==
  (IF mphase = "refuse" THEN {"refusal"} ELSE {}) \cup
  (IF mphase = "cmd" /\ mi = 1 /\ ~spi /\ b \in Commands THEN {"noise"} ELSE {})

\* One transfer.  spi_delay() gives a slave that waits for bytes the time to take
\* the last one.  A slave without SPI leaves the line to itself.
Transfer ==
  /\ mphase \in Clocking
  /\ ~Taking
  /\ \E b \in IF spi THEN {shift} ELSE Noise :
       /\ mcmd' = IF mphase = "cmd" /\ mi = 1 THEN b ELSE mcmd
       /\ marg' = IF mphase = "cmd" /\ mi > 1 THEN ArgPlus(b) ELSE marg
       /\ mbuf' = IF mphase = "writein" /\ mi \in 3 .. BlockLen + 2
                    THEN [mbuf EXCEPT ![mi - 2] = b] ELSE mbuf
       /\ torn' = torn \cup Tears(b)
  /\ IF spi THEN shift' = Sent(mphase, mi) /\ rx' = Sent(mphase, mi) /\ spif' = TRUE
            ELSE UNCHANGED <<shift, rx, spif>>
  /\ IF mi < MasterLen[mphase] THEN mi' = mi + 1 /\ UNCHANGED mphase
                               ELSE mi' = 1 /\ mphase' = AfterPhase
  /\ mcode' = IF mphase = "status" THEN 0 ELSE mcode
  /\ UNCHANGED <<flag, reader, cardVars, slaveVars, spi, asked, lost, resets>>

\* sd_reader_init() finds no card.  (It also refuses when the reader is locked,
\* which no request meets: NeverRefusedByLock in MainCpu.)
Refused == reader = "IDLE" /\ slot = "out"

\* Where the reader is IDLE the card is initialised.
Accept ==
  /\ mphase' = "serve" /\ reader' = "ACTIVE"
  /\ slot' = IF reader = "IDLE" THEN "begun" ELSE slot
  /\ UNCHANGED mcode

\* A refused command is answered with "retry" - and, if (SD_READER_ACTIVE) being
\* a constant, served all the same.
Dispatch ==
  /\ mphase = "dispatch"
  /\ \/ Refused /\ mphase' = "refuse" /\ UNCHANGED <<reader, slot, mcode>>
     \/ ~Refused /\ Accept
  /\ UNCHANGED <<flag, mi, mcmd, marg, mbuf, card, slaveVars, wireVars, historyVars>>

Answer(code) == mphase' = "status" /\ mcode' = code /\ UNCHANGED <<reader, mbuf>>

\* The switch over cmd.  A block outside the modelled ones holds anything.
Serve ==
  /\ mphase = "serve"
  /\ CASE mcmd = ON -> Answer(SUCCESS)
       [] mcmd = OFF ->
            mphase' = "status" /\ mcode' = SUCCESS /\ reader' = "IDLE" /\ UNCHANGED mbuf
       [] mcmd = IS_RW -> Answer(IF Writable THEN SUCCESS ELSE FAILURE)
       [] mcmd = READ /\ slot = "begun" ->
            /\ mphase' = "readback"
            /\ mbuf' \in IF marg \in Addresses THEN {card[marg]} ELSE Blocks
            /\ UNCHANGED <<reader, mcode>>
       [] mcmd = WRITE -> mphase' = "writein" /\ UNCHANGED <<reader, mcode, mbuf>>
       [] mcmd = INFO /\ slot = "begun" -> mphase' = "info" /\ UNCHANGED <<reader, mcode, mbuf>>
       [] OTHER -> Answer(FAILURE)
  /\ UNCHANGED <<flag, mi, mcmd, marg, cardVars, slaveVars, wireVars, historyVars>>

\* card.writeBlock(), and the answer that says success in either case.
Store ==
  /\ mphase = "store"
  /\ mphase' = "status" /\ mcode' = FAILURE
  /\ card' = IF slot = "begun" /\ marg \in Addresses THEN [card EXCEPT ![marg] = mbuf] ELSE card
  /\ lost' = (slot # "begun")
  /\ UNCHANGED <<flag, reader, mi, mcmd, marg, mbuf, slot, slaveVars, wireVars, torn, asked, resets>>

\* SD_READER_TIMEOUT without an interrupt.
ReaderTimeout ==
  /\ mphase = "away" /\ ~flag /\ reader = "ACTIVE"
  /\ reader' = "IDLE"
  /\ UNCHANGED <<flag, masterVars, cardVars, slaveVars, wireVars, historyVars>>

MasterStep == StartProcess \/ Transfer \/ Dispatch \/ Serve \/ Store

\* (Between two phases only: a transfer does not look at the card.)
CardSlot ==
  /\ mphase \notin Clocking
  /\ slot' = IF slot = "out" THEN "in" ELSE "out"
  /\ UNCHANGED <<flag, reader, masterVars, card, slaveVars, wireVars, historyVars>>

-----------------------------------------------------------------------------
(* The watchdog *)

\* Everything the 32u4 has in memory is gone, and its pins are inputs.
Reset ==
  /\ spc' = "boot" /\ dog' = FALSE
  /\ spi' = FALSE /\ shift' = 0 /\ rx' = 0 /\ spif' = FALSE
  /\ cache' = ZeroBlock /\ sinfo' = ZeroInfo /\ todo' = "ON" /\ result' = "none"
  /\ sphase' = "cmd" /\ si' = 1 /\ scmd' = ON /\ sarg' = ZeroArg /\ tries' = 0
  /\ torn' = torn \cup {"reset"}
  /\ UNCHANGED <<flag, reader, masterVars, cardVars, asked, lost>>

\* The slave waits for a byte that nobody is going to clock.
Starved == spc = "xfer" /\ ~spif /\ mphase = "away" /\ ~flag

DogBites == dog /\ (Starved \/ spc = "ready") /\ Reset /\ UNCHANGED resets

\* It bites while the master is late: asleep or in its own code with the flag
\* raised, or waiting for the card.
DogBitesEarly ==
  /\ dog /\ spc = "xfer" /\ ~spif /\ ~Starved
  /\ mphase \in {"away", "dispatch", "serve", "store"}
  /\ resets < MaxResets /\ resets' = resets + 1
  /\ Reset

\* The host has found the device again: the master has long finished what it was
\* doing when the watchdog bit, but its flag may still be raised.
BootEnds ==
  /\ spc = "boot" /\ mphase = "away"
  /\ spc' = "ready"
  /\ torn' = IF flag THEN {"late"} ELSE {}
  /\ UNCHANGED <<flag, reader, masterVars, cardVars, sphase, si, scmd, sarg, tries, todo, cache,
                 sinfo, result, dog, wireVars, asked, lost, resets>>

Next ==
  \/ SlaveStep \/ HostAsks \/ Reconnect
  \/ MasterStep \/ ReaderTimeout \/ CardSlot
  \/ DogBites \/ DogBitesEarly \/ BootEnds

Spec == Init /\ [][Next]_vars

\* Both programs run; the main loop of the master comes by when it is flagged; the
\* watchdog counts on.  Nothing is asked of the host, the cable or the card.
FairSpec == Spec /\ WF_vars(SlaveStep) /\ WF_vars(MasterStep) /\ WF_vars(DogBites)

-----------------------------------------------------------------------------
(* Properties *)

TypeOK ==
  /\ flag \in BOOLEAN /\ reader \in {"IDLE", "ACTIVE"}
  /\ mphase \in MasterPhases /\ mi \in Nat \ {0}
  /\ mphase \in Clocking => mi <= MasterLen[mphase]
  /\ mcmd \in Byte /\ marg \in Argument /\ mcode \in Byte /\ mbuf \in Block
  /\ card \in [Addresses -> Block] /\ slot \in {"out", "in", "begun"}
  /\ spc \in {"boot", "ready", "pause", "xfer"}
  /\ sphase \in DOMAIN SlaveLen /\ si \in 1 .. SlaveLen[sphase]
  /\ scmd \in Commands /\ sarg \in Addresses /\ tries \in 0 .. MaxTries
  /\ todo \in {"ON", "RW", "host"}
  /\ cache \in Block /\ sinfo \in [1 .. InfoBytes -> Byte]
  /\ result \in {"none", "ok", "failed"} /\ dog \in BOOLEAN
  /\ spi \in BOOLEAN /\ shift \in Byte /\ rx \in Byte /\ spif \in BOOLEAN
  /\ torn \in SUBSET {"refusal", "noise", "reset", "late"} /\ asked \in Addresses
  /\ lost \in BOOLEAN /\ resets \in Nat

\* Past its response, the 32u4 is served the very command it sent.
AnswerIsForCommand ==
  spc = "xfer" /\ sphase # "cmd" => mcmd = scmd /\ marg = sarg

\* What a command that ended well has brought: the block of the card that was
\* asked for, the host's block on the card unless the card did not take it, the
\* registers, and whether the card may be written.
DataIsWhole ==
  spc = "ready" /\ result # "none" =>
    CASE scmd = READ /\ result = "ok" -> cache = card[sarg]
      [] scmd = WRITE /\ result = "ok" -> lost \/ cache = card[sarg]
      [] scmd = INFO /\ result = "ok" -> sinfo = Registers
      [] scmd = IS_RW -> (result = "ok") = Writable
      [] OTHER -> TRUE

\* As long as no command has been refused and no boot has ended with the flag of the
\* master still raised, the two sides stay in step over commands that fail,
\* cards that go and come, reconnections and resets of a starved 32u4.
ExchangeIsWhole == torn = {} => AnswerIsForCommand /\ DataIsWhole

\* A card is written only at the address of the WRITE the 32u4 sent last, also when it
\* has been reset in the middle of one, unless a command was refused, noise was taken
\* for one, or the 32u4 was up again before the master had seen that its flag is raised:
\* that flag then stands for no command, and an address may be taken for one.
WriteGoesWhereAsked ==
  [][ \A a \in Addresses :
        card'[a] # card[a] /\ torn \subseteq {"reset"} => a = asked ]_vars

\* Whatever has set the two sides apart, a 32u4 that waits for a byte nobody is going to
\* clock is reset, and the trial of the command ends: in an answer, a boot, or the pause
\* before the next one; MaxTries bounds the trials.  (Two commands have waits without a
\* watchdog, sd_raw_get_info() all of them and sd_raw_read() those for the CRC.)
CommandEnds == (spc = "xfer" /\ scmd \notin {INFO, READ}) ~> spc # "xfer"

\* Not true: the same after a boot that the master's flag outlived, when a byte of an
\* address is the one of WRITE.
LateWriteGoesWhereAsked ==
  [][ \A a \in Addresses :
        card'[a] # card[a] /\ torn \subseteq {"reset", "late"} => a = asked ]_vars

(* What a comment of the code says and the code does not do *)

\* "indicate to 32u4 to wait and retry" (sd_reader_int.cpp:78): a refused command
\* is not taken for one that is served.
RefusedIsRetried == torn \subseteq {"refusal"} => AnswerIsForCommand
=============================================================================
