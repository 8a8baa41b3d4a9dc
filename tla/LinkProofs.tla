----------------------------- MODULE LinkProofs -----------------------------
(***************************************************************************)
(* The two lines of the 32u4: the SPI to the 1284p (SpiLink), byte by byte *)
(* for every length of arguments, blocks and registers; and the bridge     *)
(* between USB and the serial line (SerialBridge), for every size of its   *)
(* rings.                                                                  *)
(***************************************************************************)
EXTENDS SpiLink, SerialBridge, SequenceTheorems, TLAPS

-----------------------------------------------------------------------------
(* The types of the SPI link, in parts.  Place and SlavePlace say how far each side is
   in the phase it is in; outside a phase the master is at its first transfer, so that
   the phase it enters begins there.                                                 *)

MasterTyped ==
  /\ flag \in BOOLEAN /\ reader \in {"IDLE", "ACTIVE"}
  /\ mcmd \in Byte /\ marg \in Argument /\ mcode \in Byte /\ mbuf \in Block
Place ==
  /\ mphase \in {"away", "dispatch", "serve", "store", "cmd", "refuse", "status", "readback",
                 "writein", "info"}
  /\ mi \in Nat \ {0}
  /\ mphase = "cmd" => mi <= NArg + 1
  /\ mphase \in {"readback", "writein"} => mi <= BlockLen + 4
  /\ mphase = "info" => mi <= InfoBytes + 1
  /\ mphase \notin {"cmd", "readback", "writein", "info"} => mi = 1
CardTyped == card \in [Addresses -> Block] /\ slot \in {"out", "in", "begun"}
SlaveTyped ==
  /\ spc \in {"boot", "ready", "pause", "xfer"}
  /\ scmd \in Commands /\ sarg \in Addresses /\ tries \in 0 .. MaxTries
  /\ todo \in {"ON", "RW", "host"} /\ result \in {"none", "ok", "failed"} /\ dog \in BOOLEAN
SlavePlace ==
  /\ sphase \in {"cmd", "read", "write", "info"} /\ si \in Nat \ {0}
  /\ sphase = "cmd" => si <= NArg + 2
  /\ sphase = "read" => si <= BlockLen + 3
  /\ sphase = "write" => si <= BlockLen + 4
  /\ sphase = "info" => si <= InfoBytes
DataTyped == cache \in Block /\ sinfo \in [1 .. InfoBytes -> Byte]
WireTyped ==  spi \in BOOLEAN /\ shift \in Byte /\ rx \in Byte /\ spif \in BOOLEAN
HistoryTyped ==
  /\ torn \in SUBSET {"refusal", "noise", "reset", "late"} /\ asked \in Addresses
  /\ lost \in BOOLEAN /\ resets \in Nat

LinkTyped ==
  /\ MasterTyped /\ Place /\ CardTyped
  /\ SlaveTyped /\ SlavePlace /\ DataTyped /\ WireTyped /\ HistoryTyped

(* Constants *)

LEMMA Phases ==
  /\ Clocking = {"cmd", "refuse", "status", "readback", "writein", "info"}
  /\ MasterPhases = Clocking \cup {"away", "dispatch", "serve", "store"}
  /\ MasterLen["cmd"] = NArg + 1 /\ MasterLen["refuse"] = 1 /\ MasterLen["status"] = 1
  /\ MasterLen["readback"] = BlockLen + 4 /\ MasterLen["writein"] = BlockLen + 4
  /\ MasterLen["info"] = InfoBytes + 1
  /\ DOMAIN SlaveLen = {"cmd", "read", "write", "info"}
  /\ SlaveLen["cmd"] = NArg + 2 /\ SlaveLen["read"] = BlockLen + 3
  /\ SlaveLen["write"] = BlockLen + 4 /\ SlaveLen["info"] = InfoBytes
  /\ InfoBytes \in Nat /\ InfoBytes > 5
BY LengthsAssumption DEF Clocking, MasterPhases, MasterLen, SlaveLen, InfoBytes

LEMMA Sizes ==
  /\ NArg \in Nat /\ NArg > 0 /\ BlockLen \in Nat /\ BlockLen > 0
  /\ MaxTries \in Nat /\ MaxTries > 1 /\ MaxResets \in Nat
BY LengthsAssumption

LEMMA BytesTyped ==
  /\ 0 \in Byte /\ 18 \in Byte /\ 52 \in Byte /\ 171 \in Byte /\ 205 \in Byte
  /\ 239 \in Byte /\ 254 \in Byte /\ 255 \in Byte /\ RETRY \in Byte
  /\ Commands \subseteq Byte /\ Noise \subseteq Byte
BY BytesAssumption

LEMMA InfoSize == InfoBytes \in Nat /\ InfoBytes > 5
BY LengthsAssumption DEF InfoBytes

LEMMA RegistersTyped == Registers \in [1 .. InfoBytes -> Byte] /\ Writable \in BOOLEAN
BY BytesAssumption

LEMMA CommandsTyped ==
  /\ Commands = {124, 125, 81, 88, 126, 120}
  /\ ZeroArg \in Addresses /\ Addresses \subseteq Argument /\ Blocks \subseteq Block
  /\ \A a \in Addresses : a \in Argument
BY BytesAssumption DEF Commands, ON, OFF, READ, WRITE, INFO, IS_RW

LEMMA ZeroTyped ==
  /\ ZeroArg \in Argument /\ ZeroBlock \in Block /\ ZeroInfo \in [1 .. InfoBytes -> Byte]
BY BytesTyped, Phases, Sizes DEF ZeroArg, ZeroBlock, ZeroInfo, Argument, Block

(* Types are kept *)

LEMMA LoadedTyped ==
  ASSUME cache \in Block, sarg \in Argument,
         NEW phase \in {"cmd", "read", "write", "info"}, NEW i \in Nat \ {0}
  PROVE  Loaded(phase, i) \in Byte
<1>1. CASE phase = "cmd"
  BY <1>1, BytesTyped, Sizes DEF Loaded, Argument
<1>2. CASE phase = "read"
  BY <1>2, BytesTyped, Sizes DEF Loaded
<1>3. CASE phase = "write"
  BY <1>3, BytesTyped, Sizes DEF Loaded, Block
<1>4. CASE phase = "info"
  BY <1>4, BytesTyped, Sizes DEF Loaded
<1> QED BY <1>1, <1>2, <1>3, <1>4

LEMMA SentTyped ==
  ASSUME MasterTyped, Place
  PROVE  Sent(mphase, mi) \in Byte
<1>1. CASE mphase \in {"cmd", "refuse", "status", "writein", "away", "dispatch", "serve", "store"}
  BY <1>1, BytesTyped, Sizes DEF Sent, MasterTyped
<1>2. CASE mphase = "readback"
  <2>1. mbuf \in Block /\ mi \in Nat \ {0} /\ mi <= BlockLen + 4
    BY <1>2 DEF MasterTyped, Place
  <2>2. mi \in 3 .. BlockLen + 2 => mi - 2 \in 1 .. BlockLen
    BY <2>1, Sizes
  <2>3. mi \in 3 .. BlockLen + 2 => mbuf[mi - 2] \in Byte
    BY <2>1, <2>2 DEF Block
  <2> QED BY <2>1, <2>3, <1>2, BytesTyped DEF Sent
<1>3. CASE mphase = "info"
  <2>1. mi \in Nat \ {0} /\ mi <= InfoBytes + 1
    BY <1>3 DEF MasterTyped, Place
  <2>2. mi > 1 => mi - 1 \in 1 .. InfoBytes
    BY <2>1, InfoSize
  <2>3. mi > 1 => Registers[mi - 1] \in Byte
    BY <2>1, <2>2, RegistersTyped
  <2> QED BY <2>1, <2>3, <1>3, BytesTyped DEF Sent
<1> QED BY <1>1, <1>2, <1>3 DEF Place

\* The parts are the type invariant, and say more.
LEMMA TypesMean == LinkTyped => TypeOK
<1> SUFFICES ASSUME LinkTyped PROVE TypeOK OBVIOUS
<1>1. mphase \in MasterPhases /\ (mphase \in Clocking => mi <= MasterLen[mphase])
  BY Phases DEF LinkTyped, Place
<1>2. sphase \in DOMAIN SlaveLen /\ si \in 1 .. SlaveLen[sphase]
  BY Phases, Sizes DEF LinkTyped, SlavePlace
<1> QED BY <1>1, <1>2 DEF TypeOK, LinkTyped, MasterTyped, Place, CardTyped, SlaveTyped,
    DataTyped, WireTyped, HistoryTyped

LEMMA InitTyped == Init => LinkTyped
<1> SUFFICES ASSUME Init PROVE LinkTyped OBVIOUS
<1>1. MasterTyped
  BY BytesTyped, CommandsTyped, ZeroTyped DEF Init, MasterTyped
<1>5. Place
  BY DEF Init, Place
<1>2. CardTyped /\ DataTyped
  BY ZeroTyped DEF Init, CardTyped, DataTyped
<1>3. SlaveTyped /\ SlavePlace
  <2>1. ON \in Commands /\ 0 \in 0 .. MaxTries
    BY Sizes DEF Commands
  <2>2. SlavePlace
    BY Sizes DEF Init, SlavePlace
  <2> QED BY <2>1, <2>2, CommandsTyped DEF Init, SlaveTyped
<1>4. WireTyped /\ HistoryTyped
  BY BytesTyped, CommandsTyped DEF Init, WireTyped, HistoryTyped
<1> QED BY <1>1, <1>2, <1>3, <1>4, <1>5 DEF LinkTyped

\* The 32u4 asks.
LEMMA TrialTyped ==
  ASSUME LinkTyped, NEW c \in Commands, NEW a \in Addresses, Trial(c, a)
  PROVE  /\ SlavePlace' /\ WireTyped' /\ flag' \in BOOLEAN
         /\ spc' = "xfer" /\ scmd' \in Commands /\ sarg' \in Addresses /\ dog' \in BOOLEAN
BY BytesTyped, Sizes, Phases DEF Trial, LinkTyped, SlavePlace, WireTyped

LEMMA SendTyped ==
  ASSUME LinkTyped, NEW c \in Commands, NEW a \in Addresses, NEW d \in Block, Send(c, a, d)
  PROVE  LinkTyped'
<1>1. Trial(c, a)
  BY DEF Send
<1>2. SlavePlace' /\ WireTyped' /\ MasterTyped' /\ Place'
  BY <1>1, TrialTyped DEF Send, masterVars, LinkTyped, MasterTyped, Place
<1>3. SlaveTyped'
  BY <1>1, TrialTyped, Sizes DEF Send, LinkTyped, SlaveTyped
<1>4. CardTyped' /\ DataTyped' /\ HistoryTyped'
  BY ZeroTyped DEF Send, cardVars, LinkTyped, CardTyped, DataTyped, HistoryTyped
<1> QED BY <1>2, <1>3, <1>4 DEF LinkTyped

LEMMA AskTyped ==
  ASSUME LinkTyped, InitStep \/ HostAsks \/ Reconnect \/ PauseEnds
  PROVE  LinkTyped'
<1>1. CASE InitStep
  BY <1>1, SendTyped, ZeroTyped, CommandsTyped DEF InitStep, ON, IS_RW
<1>2. CASE HostAsks
  BY <1>2, SendTyped, ZeroTyped, CommandsTyped DEF HostAsks, READ, WRITE, INFO
<1>3. CASE Reconnect
  BY <1>3 DEF Reconnect, masterVars, cardVars, wireVars, historyVars, LinkTyped, MasterTyped,
      Place,
              CardTyped, SlaveTyped, SlavePlace, DataTyped, WireTyped, HistoryTyped
<1>4. CASE PauseEnds
  <2>1. Trial(scmd, sarg) /\ scmd \in Commands /\ sarg \in Addresses
    BY <1>4 DEF PauseEnds, LinkTyped, SlaveTyped
  <2>2. SlavePlace' /\ WireTyped' /\ SlaveTyped'
    BY <1>4, <2>1, TrialTyped DEF PauseEnds, LinkTyped, SlaveTyped
  <2>3. MasterTyped'
    BY <1>4, <2>1, TrialTyped DEF PauseEnds, masterVars, LinkTyped, MasterTyped
  <2>4. Place' /\ CardTyped' /\ DataTyped' /\ HistoryTyped'
    BY <1>4 DEF PauseEnds, masterVars, cardVars, historyVars, LinkTyped, Place, CardTyped,
        DataTyped, HistoryTyped
  <2> QED BY <2>2, <2>3, <2>4 DEF LinkTyped
<1> QED BY <1>1, <1>2, <1>3, <1>4

\* It takes a byte.
LEMMA TakeTyped ==
  ASSUME LinkTyped, TakeByte \/ TakeResponse \/ TakeLast
  PROVE  LinkTyped'
<1>. cache \in Block /\ sarg \in Argument /\ rx \in Byte
  BY CommandsTyped DEF LinkTyped, DataTyped, SlaveTyped, WireTyped
<1>1. MasterTyped' /\ Place' /\ CardTyped' /\ HistoryTyped'
  BY DEF TakeByte, TakeResponse, TakeLast, masterVars, cardVars, historyVars, LinkTyped,
      MasterTyped,
         Place, CardTyped, HistoryTyped
<1>2. CASE TakeByte
  <2>1. SlavePlace'
    BY <1>2, Sizes, Phases DEF TakeByte, LinkTyped, SlavePlace
  <2>2. Loaded(sphase, si + 1) \in Byte
    BY LoadedTyped DEF LinkTyped, SlavePlace
  <2>3. WireTyped'
    BY <1>2, <2>2 DEF TakeByte, LinkTyped, WireTyped
  <2>4. SlaveTyped'
    BY <1>2 DEF TakeByte, GoOn, LinkTyped, SlaveTyped
  <2>5. DataTyped'
    BY <1>2, Sizes DEF TakeByte, StoreBlock, StoreInfo, LinkTyped, DataTyped, Block
  <2> QED BY <1>1, <2>1, <2>3, <2>4, <2>5 DEF LinkTyped
<1>3. CASE TakeResponse
  <2>1. \A p \in {"cmd", "read", "write", "info"} : Loaded(p, 1) \in Byte
    BY LoadedTyped
  <2>2. SlavePlace' /\ WireTyped'
    <3>1. \/ UNCHANGED <<sphase, si, shift>>
          \/ \E p \in {"read", "write", "info"} : sphase' = p /\ si' = 1 /\ shift' = Loaded(p, 1)
      BY <1>3 DEF TakeResponse, Enter, Done
    <3>2. SlavePlace'
      BY <3>1, Sizes, InfoSize DEF LinkTyped, SlavePlace
    <3> QED BY <1>3, <2>1, <3>1, <3>2 DEF TakeResponse, LinkTyped, WireTyped
  <2>3. SlaveTyped'
    <3>1. Response = RETRY => tries < MaxTries
      BY Sizes DEF Response, RETRY, FAILURE, LinkTyped, SlaveTyped
    <3>2. dog' \in BOOLEAN
      BY <1>3 DEF TakeResponse, Watched
    <3> QED BY <1>3, <3>1, <3>2, CommandsTyped, Sizes DEF TakeResponse, Done, GoOn, READ,
        LinkTyped, SlaveTyped
  <2>4. DataTyped'
    BY <1>3 DEF TakeResponse, LinkTyped, DataTyped
  <2> QED BY <1>1, <2>2, <2>3, <2>4 DEF LinkTyped
<1>4. CASE TakeLast
  <2>1. SlavePlace' /\ SlaveTyped' /\ WireTyped'
    BY <1>4 DEF TakeLast, Done, LinkTyped, SlavePlace, SlaveTyped, WireTyped
  <2>2. DataTyped'
    BY <1>4, Phases DEF TakeLast, StoreInfo, LinkTyped, DataTyped
  <2> QED BY <1>1, <2>1, <2>2 DEF LinkTyped
<1> QED BY <1>2, <1>3, <1>4

\* The 1284p clocks a byte, serves, stores; the time-out; the card.
LEMMA TransferTyped ==
  ASSUME LinkTyped, Transfer
  PROVE  LinkTyped'
<1>1. PICK b \in IF spi THEN {shift} ELSE Noise :
       /\ mcmd' = IF mphase = "cmd" /\ mi = 1 THEN b ELSE mcmd
       /\ marg' = IF mphase = "cmd" /\ mi > 1 THEN ArgPlus(b) ELSE marg
       /\ mbuf' = IF mphase = "writein" /\ mi \in 3 .. BlockLen + 2
                    THEN [mbuf EXCEPT ![mi - 2] = b] ELSE mbuf
  BY DEF Transfer
<1>2. b \in Byte
  BY <1>1, BytesTyped DEF LinkTyped, WireTyped
<1>3. mcmd' \in Byte
  BY <1>1, <1>2 DEF LinkTyped, MasterTyped
<1>4. marg' \in Argument
  BY <1>1, <1>2, Sizes DEF ArgPlus, LinkTyped, MasterTyped, Place, Argument
<1>5. mbuf' \in Block
  BY <1>1, <1>2, Sizes DEF LinkTyped, MasterTyped, Place, Block
<1>6. MasterTyped'
  BY <1>3, <1>4, <1>5, BytesTyped DEF Transfer, LinkTyped, MasterTyped
<1>7. Place'
  BY Phases, Sizes DEF Transfer, AfterPhase, LinkTyped, Place
<1>8. Sent(mphase, mi) \in Byte
  BY SentTyped DEF LinkTyped
<1>9. WireTyped'
  BY <1>8 DEF Transfer, LinkTyped, WireTyped
<1>11. HistoryTyped'
  <2>1. torn' \in SUBSET {"refusal", "noise", "reset", "late"}
    BY DEF Transfer, Tears, LinkTyped, HistoryTyped
  <2> QED BY <2>1 DEF Transfer, LinkTyped, HistoryTyped
<1>10. CardTyped' /\ SlaveTyped' /\ SlavePlace' /\ DataTyped'
  BY DEF Transfer, cardVars, slaveVars, LinkTyped, CardTyped, SlaveTyped, SlavePlace, DataTyped
<1> QED BY <1>6, <1>7, <1>9, <1>10, <1>11 DEF LinkTyped

LEMMA ServeTyped ==
  ASSUME LinkTyped, StartProcess \/ Dispatch \/ Serve \/ Store \/ ReaderTimeout \/ CardSlot
  PROVE  LinkTyped'
<1>1. SlaveTyped' /\ SlavePlace' /\ DataTyped' /\ WireTyped' /\ HistoryTyped'
  <2>1. UNCHANGED <<slaveVars, spi, shift, rx, spif, torn, asked, resets>> /\ lost' \in BOOLEAN
    BY DEF StartProcess, Dispatch, Serve, Store, ReaderTimeout, CardSlot, slaveVars, wireVars,
        historyVars,
           LinkTyped, HistoryTyped
  <2> QED BY <2>1 DEF slaveVars, LinkTyped, SlaveTyped, SlavePlace, DataTyped, WireTyped,
      HistoryTyped
<1>2. CASE StartProcess
  <2>1. MasterTyped'
    BY <1>2, BytesTyped, ZeroTyped DEF StartProcess, LinkTyped, MasterTyped
  <2>2. Place' /\ CardTyped'
    BY <1>2, Sizes DEF StartProcess, cardVars, LinkTyped, Place, CardTyped
  <2> QED BY <1>1, <2>1, <2>2 DEF LinkTyped
<1>3. CASE Dispatch
  <2>1. MasterTyped' /\ CardTyped'
    BY <1>3 DEF Dispatch, Accept, Refused, LinkTyped, MasterTyped, CardTyped
  <2>2. Place'
    BY <1>3 DEF Dispatch, Accept, LinkTyped, Place
  <2> QED BY <1>1, <2>1, <2>2 DEF LinkTyped
<1>4. CASE Serve
  <2>1. mbuf' \in Block
    BY <1>4, CommandsTyped DEF Serve, Answer, LinkTyped, MasterTyped, CardTyped
  <2>2. MasterTyped'
    BY <1>4, <2>1, BytesTyped DEF Serve, Answer, SUCCESS, FAILURE, LinkTyped, MasterTyped
  <2>3. Place' /\ CardTyped'
    BY <1>4, Sizes, Phases DEF Serve, Answer, cardVars, LinkTyped, Place, CardTyped
  <2> QED BY <1>1, <2>2, <2>3 DEF LinkTyped
<1>5. CASE Store
  <2>1. card' \in [Addresses -> Block]
    BY <1>5 DEF Store, LinkTyped, MasterTyped, CardTyped
  <2>2. MasterTyped' /\ Place' /\ CardTyped'
    BY <1>5, <2>1, BytesTyped DEF Store, FAILURE, LinkTyped, MasterTyped, Place, CardTyped
  <2> QED BY <1>1, <2>2 DEF LinkTyped
<1>6. CASE ReaderTimeout \/ CardSlot
  BY <1>1, <1>6 DEF ReaderTimeout, CardSlot, masterVars, cardVars, LinkTyped, MasterTyped,
      Place, CardTyped
<1> QED BY <1>2, <1>3, <1>4, <1>5, <1>6

\* The watchdog and the boot.
LEMMA ResetTyped ==
  ASSUME LinkTyped, DogBites \/ DogBitesEarly \/ BootEnds
  PROVE  LinkTyped'
<1>1. ASSUME DogBites \/ DogBitesEarly PROVE LinkTyped'
  <2>1. Reset /\ resets' \in Nat
    BY <1>1 DEF DogBites, DogBitesEarly, LinkTyped, HistoryTyped
  <2>2. MasterTyped' /\ Place' /\ CardTyped' /\ HistoryTyped'
    BY <2>1 DEF Reset, masterVars, cardVars, LinkTyped, MasterTyped, Place, CardTyped,
        HistoryTyped
  <2>3. SlaveTyped' /\ SlavePlace'
    <3>1. ON \in Commands /\ 0 \in 0 .. MaxTries
      BY Sizes DEF Commands
    <3>2. SlavePlace'
      BY <2>1, Sizes DEF Reset, SlavePlace
    <3> QED BY <2>1, <3>1, <3>2, CommandsTyped DEF Reset, SlaveTyped
  <2>4. DataTyped' /\ WireTyped'
    BY <2>1, BytesTyped, ZeroTyped DEF Reset, DataTyped, WireTyped
  <2> QED BY <2>2, <2>3, <2>4 DEF LinkTyped
<1>2. CASE BootEnds
  BY <1>2 DEF BootEnds, masterVars, cardVars, wireVars, LinkTyped, MasterTyped, Place,
              CardTyped, SlaveTyped, SlavePlace, DataTyped, WireTyped, HistoryTyped
<1> QED BY <1>1, <1>2

LEMMA StepTyped == LinkTyped /\ [Next]_vars => LinkTyped'
<1> SUFFICES ASSUME LinkTyped, [Next]_vars PROVE LinkTyped' OBVIOUS
<1>1. CASE UNCHANGED vars
  BY <1>1 DEF vars, masterVars, cardVars, slaveVars, wireVars, historyVars, LinkTyped,
      MasterTyped, Place,
              CardTyped, SlaveTyped, SlavePlace, DataTyped, WireTyped, HistoryTyped
<1> QED BY <1>1, AskTyped, TakeTyped, TransferTyped, ServeTyped, ResetTyped DEF Next,
    SlaveStep, MasterStep

\* Neither side runs past the end of a phase, a block, an argument or a register, for
\* every length of them: sd_raw.c and sd_reader_process_interrupt() keep in bounds also
\* when they are out of step.
THEOREM LinkTypeCorrect == Spec => []TypeOK
<1>1. Spec => []LinkTyped
  BY InitTyped, StepTyped, PTL DEF Spec
<1> QED BY <1>1, TypesMean, PTL

-----------------------------------------------------------------------------
(* Where the two sides are while nothing has set them apart: one predicate for each
   stage of a command.  The master has clocked as many bytes as the slave has loaded,
   and the last of them may wait to be taken (spif).                                  *)

At(phase, i) == sphase = phase /\ si = i
Agreed == ~flag /\ spc = "xfer" /\ spi /\ mcmd = scmd /\ marg = sarg

\* No command.
Idle == mphase = "away" /\ ~flag /\ spc # "xfer" /\ ~spif /\ DataIsWhole

\* The flag is raised and the command byte loaded.
Called == mphase = "away" /\ flag /\ spc = "xfer" /\ At("cmd", 1) /\ spi /\ ~spif /\ shift = scmd

\* The command and its argument are clocked in.
Commanding ==
  /\ mphase = "cmd" /\ ~flag /\ spc = "xfer" /\ spi /\ sphase = "cmd"
  /\ \/ si = mi /\ ~spif /\ shift = IF si = 1 THEN scmd ELSE sarg[si - 1]
     \/ si = mi - 1 /\ spif
  /\ mi > 1 => mcmd = scmd
  /\ \A k \in 1 .. NArg : k <= mi - 2 => marg[k] = sarg[k]

\* The slave has to take the last byte of its argument, or waits for the response; and
\* the same at the end of a block it has sent, before the status.
Heard == (At("cmd", NArg + 1) /\ spif) \/ (At("cmd", NArg + 2) /\ ~spif)
Stored == (At("write", BlockLen + 3) /\ spif) \/ (At("write", BlockLen + 4) /\ ~spif)

\* The master has the command.
Deciding == mphase \in {"dispatch", "refuse", "serve"} /\ Agreed /\ Heard

\* What a single byte answers: the commands with data only fail by it, and IS_RW says
\* whether the card may be written.
Verdict(code) ==
  /\ code \in {SUCCESS, FAILURE}
  /\ scmd \in {READ, WRITE, INFO} => code = FAILURE
  /\ scmd = IS_RW => (code = SUCCESS <=> Writable)

\* The status of a WRITE is the same in either case; here the block is on the card.
Written(code) == code = FAILURE /\ scmd = WRITE /\ (lost \/ cache = card[sarg])

\* The answer is chosen; then sent, and not taken yet.
Answering ==
  /\ mphase = "status" /\ Agreed
  /\ (Heard /\ Verdict(mcode)) \/ (Stored /\ Written(mcode))

Answered ==
  /\ mphase = "away" /\ Agreed /\ spif
  /\ \/ At("cmd", NArg + 2) /\ Verdict(rx)
     \/ At("read", BlockLen + 3) /\ scmd = READ /\ cache = card[sarg]
     \/ At("write", BlockLen + 4) /\ Written(rx)
     \/ /\ At("info", InfoBytes) /\ scmd = INFO /\ rx = Registers[InfoBytes]
        /\ \A j \in 1 .. InfoBytes : j < InfoBytes => sinfo[j] = Registers[j]

\* In a phase with data the slave is one byte behind: the first byte of the master is
\* the response to the command.
Follows(phase) ==
  \/ mi = 1 /\ Heard
  \/ mi = 2 /\ At("cmd", NArg + 2) /\ spif /\ rx = SUCCESS
  \/ mi > 1 /\ At(phase, mi - 1) /\ ~spif
  \/ mi > 2 /\ At(phase, mi - 2) /\ spif

\* The data come in order: what the receiver has stored is what the sender has sent,
\* and the byte between them is the next.
Reading ==
  /\ mphase = "readback" /\ Agreed /\ scmd = READ /\ Follows("read") /\ mbuf = card[sarg]
  /\ sphase = "read" =>
        /\ \A j \in 1 .. BlockLen : j <= si - 2 => cache[j] = mbuf[j]
        /\ spif /\ si \in 2 .. BlockLen + 1 => rx = mbuf[si - 1]

Writing ==
  /\ mphase = "writein" /\ Agreed /\ scmd = WRITE /\ Follows("write")
  /\ sphase = "write" =>
        /\ \A j \in 1 .. BlockLen : j <= mi - 3 => mbuf[j] = cache[j]
        /\ ~spif /\ si \in 2 .. BlockLen + 1 => shift = cache[si - 1]

Storing == mphase = "store" /\ Agreed /\ scmd = WRITE /\ Stored /\ mbuf = cache

Informing ==
  /\ mphase = "info" /\ Agreed /\ scmd = INFO /\ Follows("info")
  /\ sphase = "info" =>
        /\ \A j \in 1 .. InfoBytes : j < si => sinfo[j] = Registers[j]
        /\ spif => rx = Registers[si]


InStep == \/ Idle \/ Called \/ Commanding \/ Deciding \/ Answering \/ Answered
          \/ Reading \/ Writing \/ Storing \/ Informing

\* What holds whatever has happened: a 32u4 that boots has no SPI, a reset lasts until
\* the boot ends, and only a WRITE is written.
Sane ==
  /\ spc = "boot" => ~spi /\ ~spif /\ result = "none"
  /\ "reset" \in torn => spc = "boot"
  /\ mphase \in {"writein", "store"} => mcmd = WRITE

\* In step, the first trial is the only one.
SentAsAsked == spc \in {"xfer", "pause"} => tries = 1 /\ (scmd = WRITE => sarg = asked)

\* After a reset the master goes on with the WRITE it has, and takes no other from a
\* slave that is not there.
ServesTheLast ==
  /\ mphase \in {"dispatch", "refuse", "serve", "writein", "store"} /\ mcmd = WRITE => marg = asked
  /\ mphase = "cmd" /\ mi > 1 => mcmd \notin Commands

LinkInv ==
  /\ LinkTyped /\ Sane
  /\ torn = {} => InStep /\ SentAsAsked
  /\ torn = {"reset"} => ServesTheLast

(* Facts about the operators *)

LEMMA Codes == /\ SUCCESS = 0 /\ FAILURE = 255 /\ RETRY = 250
               /\ ON = 124 /\ OFF = 125 /\ READ = 81 /\ WRITE = 88 /\ INFO = 126 /\ IS_RW = 120
BY DEF SUCCESS, FAILURE, RETRY, ON, OFF, READ, WRITE, INFO, IS_RW

\* Blocks with the same bytes are the same.
LEMMA SameBlock ==
  ASSUME NEW b \in Block, NEW c \in Block, \A j \in 1 .. BlockLen : b[j] = c[j]
  PROVE  b = c
<1> DEFINE S == 1 .. BlockLen
<1>1. b \in [S -> Byte] /\ c \in [S -> Byte] /\ \A j \in S : b[j] = c[j]
  BY DEF Block
<1> HIDE DEF S
<1>2. b = [j \in S |-> b[j]] /\ c = [j \in S |-> c[j]]
  BY <1>1
<1>3. [j \in S |-> b[j]] = [j \in S |-> c[j]]
  BY <1>1
<1> QED BY <1>2, <1>3

LEMMA LoadedValues ==
  ASSUME NEW i \in Nat \ {0}
  PROVE  /\ i \in 2 .. NArg + 1 => Loaded("cmd", i) = sarg[i - 1]
         /\ i \in 2 .. BlockLen + 1 => Loaded("write", i) = cache[i - 1]
BY Sizes DEF Loaded

LEMMA SentValues ==
  ASSUME mi \in Nat \ {0}
  PROVE  /\ mphase = "status" => Sent(mphase, mi) = mcode
         /\ mphase \in {"cmd", "writein", "readback", "info"} /\ mi = 1 => Sent(mphase, mi) = 0
         /\ mphase = "readback" /\ mi \in 3 .. BlockLen + 2 => Sent(mphase, mi) = mbuf[mi - 2]
         /\ mphase = "info" /\ mi > 1 => Sent(mphase, mi) = Registers[mi - 1]
BY Sizes DEF Sent

(* A byte in the middle of a phase is taken *)

TakeFrame ==
  /\ UNCHANGED <<flag, mphase, mi, mcmd, marg, mcode, mbuf, card, spc, sphase, scmd, sarg, spi, rx, lost>>
  /\ spc = "xfer" /\ spif /\ ~spif' /\ si' = si + 1

LEMMA TakeByteFrame ==
  ASSUME LinkTyped, TakeByte
  PROVE  /\ TakeFrame /\ shift' = Loaded(sphase, si + 1)
         /\ sphase = "cmd" => si < NArg + 2
         /\ sphase = "read" => si < BlockLen + 3
         /\ sphase = "write" => si < BlockLen + 4
         /\ sphase = "info" => si < InfoBytes
         /\ sphase # "read" => cache' = cache
         /\ sphase # "info" => sinfo' = sinfo
<1>1. SlaveLen[sphase] = CASE sphase = "cmd" -> NArg + 2 [] sphase = "read" -> BlockLen + 3
                           [] sphase = "write" -> BlockLen + 4 [] sphase = "info" -> InfoBytes
  BY Phases DEF LinkTyped, SlavePlace
<1>2. TakeFrame /\ shift' = Loaded(sphase, si + 1) /\ si < SlaveLen[sphase]
      /\ (sphase # "read" => cache' = cache) /\ (sphase # "info" => sinfo' = sinfo)
  BY DEF TakeByte, Taking, GoOn, StoreBlock, StoreInfo, TakeFrame, masterVars, cardVars,
      historyVars
<1> QED BY <1>1, <1>2 DEF LinkTyped, SlavePlace

LEMMA CommandByteTaken ==
  ASSUME LinkTyped, TakeByte, Commanding
  PROVE  Commanding'
<1>1. TakeFrame /\ shift' = Loaded("cmd", si + 1) /\ si = mi - 1
  BY TakeByteFrame DEF Commanding, TakeFrame
<1>2. mi \in Nat \ {0} /\ mi <= NArg + 1 /\ si \in Nat \ {0}
  BY DEF LinkTyped, Place, SlavePlace, Commanding
<1>3. shift' = sarg[mi - 1] /\ si' = mi /\ si' # 1
  BY <1>1, <1>2, LoadedValues, Sizes DEF TakeFrame
<1> QED BY <1>1, <1>3 DEF Commanding, TakeFrame

LEMMA HeardTaken ==
  ASSUME LinkTyped, TakeByte, Heard \/ Stored
  PROVE  /\ Heard => Heard'
         /\ Stored => Stored' 
         /\ cache' = cache
BY TakeByteFrame, Sizes DEF TakeFrame, Heard, Stored, At

LEMMA AnswerByteTaken ==
  ASSUME LinkTyped, TakeByte
  PROVE  /\ Deciding => Deciding'
         /\ Answering => Answering'
         /\ Storing => Storing'
<1>1. TakeFrame /\ (Agreed => Agreed')
  BY TakeByteFrame DEF TakeFrame, Agreed
<1> QED BY <1>1, HeardTaken DEF TakeFrame, Deciding, Answering, Storing, Verdict, Written

LEMMA FollowingTaken ==
  ASSUME LinkTyped, TakeByte, NEW p \in {"read", "write", "info"}, Follows(p)
  PROVE  /\ Follows(p)'
         /\ sphase = "cmd" \/ (sphase = p /\ si = mi - 2)
<1>1. TakeFrame /\ (sphase = "cmd" => si < NArg + 2)
  BY TakeByteFrame
<1> QED BY <1>1, HeardTaken, Sizes DEF Follows, Heard, At, TakeFrame, LinkTyped, Place

LEMMA ReadByteTaken ==
  ASSUME LinkTyped, TakeByte, Reading
  PROVE  Reading'
<1>1. TakeFrame /\ Agreed'
  BY TakeByteFrame DEF Reading, Agreed, TakeFrame
<1>2. Follows("read")' /\ (sphase = "cmd" \/ sphase = "read")
  BY FollowingTaken DEF Reading
<1>3. ASSUME sphase = "read" PROVE \A j \in 1 .. BlockLen : j <= si' - 2 => cache'[j] = mbuf[j]
  <2>1. cache' = IF si \in 2 .. BlockLen + 1 THEN [cache EXCEPT ![si - 1] = rx] ELSE cache
    BY <1>3 DEF TakeByte, StoreBlock
  <2>2. cache \in Block /\ si \in Nat /\ si' = si + 1
    BY <1>1 DEF LinkTyped, DataTyped, SlavePlace, TakeFrame
  <2>3. \A j \in 1 .. BlockLen : j <= si - 2 => cache[j] = mbuf[j]
    BY <1>3 DEF Reading
  <2>4. si \in 2 .. BlockLen + 1 => rx = mbuf[si - 1]
    BY <1>3, <1>1 DEF Reading, TakeFrame
  <2> QED BY <2>1, <2>2, <2>3, <2>4, Sizes DEF Block
<1> QED BY <1>1, <1>2, <1>3 DEF Reading, TakeFrame

LEMMA WriteByteTaken ==
  ASSUME LinkTyped, TakeByte, Writing
  PROVE  Writing'
<1>1. TakeFrame /\ Agreed' /\ cache' = cache
  BY TakeByteFrame, FollowingTaken DEF Writing, Agreed, TakeFrame
<1>2. Follows("write")' /\ (sphase = "cmd" \/ sphase = "write")
  BY FollowingTaken DEF Writing
<1>3. ASSUME sphase = "write", si' \in 2 .. BlockLen + 1 PROVE shift' = cache[si' - 1]
  BY <1>3, <1>1, TakeByteFrame, LoadedValues DEF TakeFrame, LinkTyped, SlavePlace
<1> QED BY <1>1, <1>2, <1>3 DEF Writing, TakeFrame

LEMMA InfoByteTaken ==
  ASSUME LinkTyped, TakeByte, Informing
  PROVE  Informing'
<1>1. TakeFrame /\ Agreed'
  BY TakeByteFrame DEF Informing, Agreed, TakeFrame
<1>2. Follows("info")' /\ (sphase = "cmd" \/ sphase = "info")
  BY FollowingTaken DEF Informing
<1>3. ASSUME sphase = "info" PROVE \A j \in 1 .. InfoBytes : j < si' => sinfo'[j] = Registers[j]
  <2>1. sinfo' = [sinfo EXCEPT ![si] = rx]
    BY <1>3 DEF TakeByte, StoreInfo
  <2>2. sinfo \in [1 .. InfoBytes -> Byte] /\ si \in Nat \ {0} /\ si < InfoBytes /\ si' = si + 1
    BY <1>1, <1>3, TakeByteFrame DEF LinkTyped, DataTyped, SlavePlace, TakeFrame
  <2>3. (\A j \in 1 .. InfoBytes : j < si => sinfo[j] = Registers[j]) /\ rx = Registers[si]
    BY <1>3, <1>1 DEF Informing, TakeFrame
  <2> QED BY <2>1, <2>2, <2>3, InfoSize
<1> QED BY <1>1, <1>2, <1>3 DEF Informing, TakeFrame

LEMMA TakeByteInStep ==
  ASSUME LinkTyped, InStep, TakeByte
  PROVE  InStep'
<1>1. ~Idle /\ ~Called
  BY TakeByteFrame DEF Idle, Called, TakeFrame
<1>2. ~Answered
  BY TakeByteFrame, InfoSize DEF Answered, At, LinkTyped, SlavePlace
<1> QED BY <1>1, <1>2, CommandByteTaken, AnswerByteTaken, ReadByteTaken, WriteByteTaken, InfoByteTaken
        DEF InStep

(* The last byte of a command or of its data is taken *)

AnswerFrame ==
  /\ UNCHANGED <<flag, mphase, mi, mcmd, marg, mcode, mbuf, card, spi, rx, lost, asked>>
  /\ spc = "xfer" /\ spif /\ ~spif'

LEMMA AnswerTakenFrame ==
  ASSUME TakeResponse \/ TakeLast
  PROVE  AnswerFrame
BY DEF TakeResponse, TakeLast, Taking, AnswerFrame, masterVars, cardVars, historyVars

LEMMA ResponseFrame ==
  ASSUME LinkTyped, TakeResponse, SentAsAsked
  PROVE  /\ sphase = "cmd" /\ si = NArg + 2 /\ UNCHANGED <<cache, sinfo>> /\ Response = rx
BY Sizes, Phases DEF TakeResponse, Taking, Response, SentAsAsked

\* An answer ends the command, or the card is on and block 0 is read next.
LEMMA VerdictTaken ==
  ASSUME LinkTyped, SentAsAsked, TakeResponse, Answered
  PROVE  Idle' /\ SentAsAsked'
<1>1. AnswerFrame /\ Response = rx /\ Verdict(rx) /\ scmd \in {124, 125, 81, 88, 126, 120}
  BY AnswerTakenFrame, ResponseFrame, CommandsTyped DEF Answered, At, LinkTyped, SlaveTyped
<1>2. CASE scmd = ON /\ rx = SUCCESS
  <2>1. spc' = "pause" /\ scmd' = READ /\ tries' = 1
    BY <1>1, <1>2, Codes DEF TakeResponse
  <2> QED BY <1>1, <2>1, Codes DEF Answered, Agreed, AnswerFrame, Idle, DataIsWhole, SentAsAsked
<1>3. CASE ~(scmd = ON /\ rx = SUCCESS)
  <2>1. \E r \in {"ok", "failed"} : Done(r) /\ (r = "ok" <=> scmd = IS_RW /\ rx = SUCCESS)
    BY <1>1, <1>3, Codes DEF TakeResponse, Verdict
  <2>2. spc' = "ready" /\ scmd' = scmd /\ (result' = "ok" <=> scmd = IS_RW /\ rx = SUCCESS)
        /\ result' \in {"ok", "failed"}
    BY <2>1 DEF Done
  <2>3. DataIsWhole'
    <3>1. CASE scmd = IS_RW
      <4>1. (result' = "ok") = Writable
        <5>1. (result' = "ok") <=> Writable
          BY <1>1, <2>2, <3>1 DEF Verdict
        <5> QED BY <5>1, RegistersTyped
      <4> QED BY <2>2, <3>1, <4>1, Codes DEF DataIsWhole
    <3>2. CASE scmd # IS_RW
      BY <2>2, <3>2 DEF DataIsWhole
    <3> QED BY <3>1, <3>2
  <2> QED BY <1>1, <2>2, <2>3 DEF Answered, Agreed, AnswerFrame, Idle, SentAsAsked
<1> QED BY <1>2, <1>3

\* The response that data follow.
LEMMA DataBegin ==
  ASSUME LinkTyped, SentAsAsked, TakeResponse, NEW p \in {"read", "write", "info"}, Follows(p),
         \/ p = "read" /\ scmd = READ
         \/ p = "write" /\ scmd = WRITE
         \/ p = "info" /\ scmd = INFO
  PROVE  /\ Follows(p)' /\ mi = 2 /\ sphase' = p /\ si' = 1
         /\ UNCHANGED <<spc, tries, scmd, sarg, cache, sinfo>>
<1>1. AnswerFrame /\ sphase = "cmd" /\ si = NArg + 2 /\ UNCHANGED <<cache, sinfo>> /\ Response = rx
  BY AnswerTakenFrame, ResponseFrame
<1>2. mi = 2 /\ rx = SUCCESS
  BY <1>1, Sizes DEF Follows, Heard, At, AnswerFrame
<1>3. Enter(p) /\ GoOn
  BY <1>1, <1>2, Codes DEF TakeResponse
<1> QED BY <1>1, <1>2, <1>3 DEF Enter, GoOn, Follows, At, AnswerFrame

LEMMA ResponseInStep ==
  ASSUME LinkTyped, InStep, SentAsAsked, TakeResponse
  PROVE  InStep' /\ SentAsAsked'
<1>1. AnswerFrame /\ sphase = "cmd" /\ si = NArg + 2
  BY AnswerTakenFrame, ResponseFrame
<1>2. Answered \/ Reading \/ Writing \/ Informing
  BY <1>1, Sizes DEF InStep, Idle, Called, Commanding, Deciding, Answering, Storing, Heard,
      Stored, At,
                     AnswerFrame, LinkTyped, Place
<1>3. CASE Answered
  BY <1>3, VerdictTaken DEF InStep
<1>4. CASE Reading
  <2>1. /\ Follows("read")' /\ mi = 2 /\ sphase' = "read" /\ si' = 1
        /\ UNCHANGED <<spc, tries, scmd, sarg, cache, sinfo>>
    BY <1>4, DataBegin DEF Reading
  <2>2. Reading'
    BY <1>1, <1>4, <2>1 DEF Reading, Agreed, AnswerFrame
  <2> QED BY <1>1, <2>1, <2>2 DEF InStep, SentAsAsked, AnswerFrame
<1>5. CASE Writing
  <2>1. /\ Follows("write")' /\ mi = 2 /\ sphase' = "write" /\ si' = 1
        /\ UNCHANGED <<spc, tries, scmd, sarg, cache, sinfo>>
    BY <1>5, DataBegin DEF Writing
  <2>2. Writing'
    BY <1>1, <1>5, <2>1 DEF Writing, Agreed, AnswerFrame
  <2> QED BY <1>1, <2>1, <2>2 DEF InStep, SentAsAsked, AnswerFrame
<1>6. CASE Informing
  <2>1. /\ Follows("info")' /\ mi = 2 /\ sphase' = "info" /\ si' = 1
        /\ UNCHANGED <<spc, tries, scmd, sarg, cache, sinfo>>
    BY <1>6, DataBegin DEF Informing
  <2>2. Informing'
    BY <1>1, <1>6, <2>1 DEF Informing, Agreed, AnswerFrame
  <2> QED BY <1>1, <2>1, <2>2 DEF InStep, SentAsAsked, AnswerFrame
<1> QED BY <1>2, <1>3, <1>4, <1>5, <1>6

LEMMA LastInStep ==
  ASSUME LinkTyped, InStep, SentAsAsked, TakeLast
  PROVE  InStep' /\ SentAsAsked'
<1>1. AnswerFrame /\ sphase # "cmd" /\ cache' = cache
  BY AnswerTakenFrame DEF TakeLast
<1>2. SlaveLen[sphase] = si /\ (sphase = "read" => si = BlockLen + 3) /\ (sphase = "write" => si = BlockLen + 4)
      /\ (sphase = "info" => si = InfoBytes)
  BY Phases DEF TakeLast
<1>3. Answered
  BY <1>1, <1>2, Sizes, InfoSize DEF InStep, Idle, Called, Commanding, Deciding, Answering,
      Storing, Reading, Writing,
                     Informing, Follows, Heard, Stored, At, AnswerFrame, LinkTyped, Place
<1>4. Done("ok")
  BY <1>3, <1>1, Codes DEF TakeLast, Answered, At, Written
<1>5. sphase = "info" => sinfo' = Registers
  <2> SUFFICES ASSUME sphase = "info" PROVE sinfo' = Registers OBVIOUS
  <2>1. sinfo' = [sinfo EXCEPT ![InfoBytes] = Registers[InfoBytes]]
    BY <1>2, <1>3 DEF TakeLast, StoreInfo, Answered, At
  <2>2. \A j \in 1 .. InfoBytes : j < InfoBytes => sinfo[j] = Registers[j]
    BY <1>3 DEF Answered, At
  <2> QED BY <2>1, <2>2, InfoSize, RegistersTyped DEF LinkTyped, DataTyped
<1>6. DataIsWhole'
  BY <1>1, <1>3, <1>4, <1>5, Codes DEF Done, DataIsWhole, Answered, At, Written, AnswerFrame
<1>7. Idle' /\ SentAsAsked'
  BY <1>1, <1>3, <1>4, <1>6 DEF Done, Idle, Answered, Agreed, AnswerFrame, SentAsAsked
<1> QED BY <1>7 DEF InStep

(* A command begins *)

LEMMA SendInStep ==
  ASSUME InStep, SentAsAsked, NEW c, NEW a, NEW d, Send(c, a, d)
  PROVE  InStep' /\ SentAsAsked'
<1>1. Idle
  BY DEF Send, InStep, Called, Commanding, Deciding, Answering, Answered, Storing, Reading,
      Writing, Informing, Agreed
<1>2. Called'
  BY <1>1 DEF Send, Trial, Idle, Called, At, masterVars
<1>3. SentAsAsked'
  BY DEF Send, Trial, SentAsAsked
<1> QED BY <1>2, <1>3 DEF InStep

LEMMA AskInStep ==
  ASSUME InStep, SentAsAsked, InitStep \/ HostAsks \/ Reconnect \/ PauseEnds
  PROVE  InStep' /\ SentAsAsked'
<1>1. CASE InitStep \/ HostAsks
  BY <1>1, SendInStep DEF InitStep, HostAsks
<1>2. ASSUME Reconnect \/ PauseEnds PROVE Idle
  BY <1>2 DEF Reconnect, PauseEnds, InStep, Called, Commanding, Deciding, Answering, Answered,
      Storing, Reading, Writing, Informing, Agreed
<1>3. CASE Reconnect
  <2>1. Idle'
    BY <1>2, <1>3 DEF Reconnect, Idle, DataIsWhole, masterVars, wireVars
  <2> QED BY <1>3, <2>1 DEF InStep, Reconnect, SentAsAsked
<1>4. CASE PauseEnds
  <2>1. Called'
    BY <1>2, <1>4 DEF PauseEnds, Trial, Idle, Called, At, masterVars
  <2> QED BY <1>4, <2>1 DEF InStep, PauseEnds, Trial, SentAsAsked, historyVars
<1> QED BY <1>1, <1>3, <1>4

(* The master clocks a byte *)

TransferFrame ==
  /\ UNCHANGED <<flag, card, spc, sphase, si, scmd, sarg, cache, sinfo, spi, lost>>
  /\ ~spif /\ spif' /\ rx' = Sent(mphase, mi) /\ mi \in Nat \ {0}
  /\ mcmd' = IF mphase = "cmd" /\ mi = 1 THEN shift ELSE mcmd
  /\ marg' = IF mphase = "cmd" /\ mi > 1 THEN [marg EXCEPT ![mi - 1] = shift] ELSE marg
  /\ mbuf' = IF mphase = "writein" /\ mi \in 3 .. BlockLen + 2
               THEN [mbuf EXCEPT ![mi - 2] = shift] ELSE mbuf

Proceed(len, after) == IF mi < len THEN mi' = mi + 1 /\ mphase' = mphase ELSE mi' = 1 /\ mphase' = after

LEMMA TransferFrames ==
  ASSUME LinkTyped, Transfer, spi, spc = "xfer"
  PROVE  /\ TransferFrame
         /\ mphase \in Clocking
         /\ mphase = "cmd" => Proceed(NArg + 1, "dispatch")
         /\ mphase = "status" => Proceed(1, "away")
         /\ mphase = "readback" => Proceed(BlockLen + 4, "away")
         /\ mphase = "writein" => Proceed(BlockLen + 4, "store")
         /\ mphase = "info" => Proceed(InfoBytes + 1, "away")
<1>1. PICK b \in {shift} :
       /\ mcmd' = IF mphase = "cmd" /\ mi = 1 THEN b ELSE mcmd
       /\ marg' = IF mphase = "cmd" /\ mi > 1 THEN ArgPlus(b) ELSE marg
       /\ mbuf' = IF mphase = "writein" /\ mi \in 3 .. BlockLen + 2
                    THEN [mbuf EXCEPT ![mi - 2] = b] ELSE mbuf
  BY DEF Transfer
<1>2. mi \in Nat \ {0}
  BY DEF LinkTyped, Place
<1>3. TransferFrame
  BY <1>1, <1>2 DEF Transfer, Taking, ArgPlus, TransferFrame, cardVars, slaveVars
<1> QED BY <1>3, Phases DEF Transfer, AfterPhase, Proceed

LEMMA CommandTransferred ==
  ASSUME LinkTyped, Transfer, Commanding
  PROVE  Commanding' \/ Deciding'
<1>1. TransferFrame /\ Proceed(NArg + 1, "dispatch")
  BY TransferFrames DEF Commanding
<1>2. si = mi /\ shift = (IF mi = 1 THEN scmd ELSE sarg[mi - 1]) /\ mi <= NArg + 1
  BY <1>1 DEF Commanding, TransferFrame, LinkTyped, Place
<1>3. mcmd' = scmd
  BY <1>1, <1>2 DEF TransferFrame, Commanding
<1>4. marg \in Argument /\ sarg \in Argument
  BY CommandsTyped DEF LinkTyped, MasterTyped, SlaveTyped
<1>5. marg' \in Argument /\ \A k \in 1 .. NArg : k <= mi - 1 => marg'[k] = sarg[k]
  BY <1>1, <1>2, <1>4, Sizes DEF TransferFrame, Commanding, Argument
<1>6. CASE mi < NArg + 1
  <2>1. mi' = mi + 1 /\ mphase' = "cmd"
    BY <1>1, <1>6 DEF Proceed, Commanding
  <2> QED BY <1>1, <1>2, <1>3, <1>5, <2>1 DEF Commanding, TransferFrame
<1>7. CASE mi = NArg + 1
  <2>1. mi' = 1 /\ mphase' = "dispatch"
    BY <1>1, <1>7, Sizes DEF Proceed
  <2>2. marg' = sarg
    BY <1>4, <1>5, <1>7, Sizes DEF Argument
  <2> QED BY <1>1, <1>2, <1>3, <1>7, <2>1, <2>2 DEF Commanding, Deciding, Agreed, Heard, At,
      TransferFrame
<1> QED BY <1>2, <1>6, <1>7, Sizes DEF LinkTyped, Place

LEMMA AnswerTransferred ==
  ASSUME LinkTyped, Transfer, Answering
  PROVE  Answered'
<1>1. TransferFrame /\ Proceed(1, "away") /\ mi = 1
  BY TransferFrames DEF Answering, Agreed, LinkTyped, Place
<1>2. rx' = mcode
  BY <1>1, SentValues DEF Answering, TransferFrame
<1> QED BY <1>1, <1>2 DEF Answering, Answered, Agreed, Heard, Stored, At, Verdict, Written,
    TransferFrame, Proceed

LEMMA FollowingTransferred ==
  ASSUME LinkTyped, TransferFrame, mphase \in {"readback", "writein", "info"}, NEW p \in {"read", "write", "info"}, Follows(p)
  PROVE  /\ mi' = mi + 1 => Follows(p)'
         /\ mi = 1 => sphase = "cmd" 
         /\ mi > 1 => At(p, mi - 1)
<1>1. mi = 1 => At("cmd", NArg + 2) /\ rx' = SUCCESS
  BY SentValues, Codes DEF Follows, Heard, TransferFrame, At
<1>2. mi > 1 => At(p, mi - 1)
  BY DEF Follows, TransferFrame
<1> QED BY <1>1, <1>2 DEF Follows, At, TransferFrame

LEMMA ReadTransferred ==
  ASSUME LinkTyped, Transfer, Reading
  PROVE  Reading' \/ Answered'
<1>1. TransferFrame /\ Proceed(BlockLen + 4, "away")
  BY TransferFrames DEF Reading, Agreed
<1>2. /\ mi' = mi + 1 => Follows("read")'
      /\ mi = 1 => sphase = "cmd" 
      /\ mi > 1 => At("read", mi - 1)
  BY <1>1, FollowingTransferred DEF Reading
<1>3. mi \in Nat \ {0} /\ mi <= BlockLen + 4
  BY DEF Reading, LinkTyped, Place
<1>4. CASE mi < BlockLen + 4
  <2>1. mi' = mi + 1 /\ mphase' = "readback"
    BY <1>1, <1>4 DEF Proceed, Reading
  <2>2. ASSUME sphase = "read", si \in 2 .. BlockLen + 1 PROVE rx' = mbuf[si - 1]
    <3>1. mi > 1 /\ si = mi - 1 /\ si \in Nat /\ mi - 2 = si - 1 /\ mi \in 3 .. BlockLen + 2
      BY <1>2, <1>3, <2>2, Sizes DEF At, LinkTyped, SlavePlace
    <3>2. rx' = mbuf[mi - 2]
      BY <1>1, <3>1, SentValues DEF TransferFrame, Reading
    <3> QED BY <3>1, <3>2
  <2> QED BY <1>1, <1>2, <2>1, <2>2 DEF Reading, Agreed, TransferFrame
<1>5. CASE mi = BlockLen + 4
  <2>1. mphase' = "away" /\ At("read", BlockLen + 3)
    BY <1>1, <1>2, <1>5, Sizes DEF Proceed
  <2>2. \A j \in 1 .. BlockLen : cache[j] = mbuf[j]
    BY <2>1, Sizes DEF Reading, At
  <2>3. cache = mbuf
    <3>1. cache \in Block /\ mbuf \in Block
      BY DEF LinkTyped, DataTyped, MasterTyped
    <3> QED BY <3>1, <2>2, SameBlock
  <2> QED BY <1>1, <2>1, <2>3 DEF Reading, Answered, Agreed, At, TransferFrame
<1> QED BY <1>3, <1>4, <1>5, Sizes

LEMMA WriteTransferred ==
  ASSUME LinkTyped, Transfer, Writing
  PROVE  Writing' \/ Storing'
<1>1. TransferFrame /\ Proceed(BlockLen + 4, "store")
  BY TransferFrames DEF Writing, Agreed
<1>2. /\ mi' = mi + 1 => Follows("write")'
      /\ mi = 1 => sphase = "cmd" 
      /\ mi > 1 => At("write", mi - 1)
  BY <1>1, FollowingTransferred DEF Writing
<1>3. mi \in Nat \ {0} /\ mi <= BlockLen + 4 /\ mbuf \in Block /\ cache \in Block
  BY DEF Writing, LinkTyped, Place, MasterTyped, DataTyped
<1>4. CASE mi < BlockLen + 4
  <2>1. mi' = mi + 1 /\ mphase' = "writein"
    BY <1>1, <1>4 DEF Proceed, Writing
  <2>2. ASSUME sphase = "write", NEW j \in 1 .. BlockLen, j <= mi - 2 PROVE mbuf'[j] = cache[j]
    <3>1. mi > 1 /\ si = mi - 1
      BY <1>2, <1>3, <2>2 DEF At
    <3>2. mi \in 3 .. BlockLen + 2 => shift = cache[mi - 2]
      <4>1. ASSUME mi \in 3 .. BlockLen + 2 PROVE si \in 2 .. BlockLen + 1 /\ mi - 2 = si - 1
        BY <3>1, <4>1, Sizes
      <4>2. ~spif /\ sphase = "write"
        BY <1>1, <2>2 DEF TransferFrame
      <4> QED BY <4>1, <4>2 DEF Writing
    <3>3. j <= mi - 3 => mbuf[j] = cache[j]
      BY <2>2 DEF Writing
    <3> QED BY <1>1, <1>3, <2>2, <3>2, <3>3, Sizes DEF TransferFrame, Block, Writing
  <2> QED BY <1>1, <1>2, <2>1, <2>2 DEF Writing, Agreed, TransferFrame
<1>5. CASE mi = BlockLen + 4
  <2>1. mphase' = "store" /\ At("write", BlockLen + 3) /\ mbuf' = mbuf
    BY <1>1, <1>2, <1>5, Sizes DEF Proceed, TransferFrame
  <2>2. \A j \in 1 .. BlockLen : mbuf[j] = cache[j]
    BY <1>5, <2>1, Sizes DEF Writing, At
  <2>3. mbuf = cache
    BY <1>3, <2>2, SameBlock
  <2> QED BY <1>1, <2>1, <2>3 DEF Writing, Storing, Agreed, Stored, At, TransferFrame
<1> QED BY <1>3, <1>4, <1>5, Sizes

LEMMA InfoTransferred ==
  ASSUME LinkTyped, Transfer, Informing
  PROVE  Informing' \/ Answered'
<1>1. TransferFrame /\ Proceed(InfoBytes + 1, "away")
  BY TransferFrames DEF Informing, Agreed
<1>2. /\ mi' = mi + 1 => Follows("info")'
      /\ mi = 1 => sphase = "cmd" 
      /\ mi > 1 => At("info", mi - 1)
  BY <1>1, FollowingTransferred DEF Informing
<1>3. mi \in Nat \ {0} /\ mi <= InfoBytes + 1
  BY DEF Informing, LinkTyped, Place
<1>6. sphase = "info" => rx' = Registers[si] /\ mi > 1
  BY <1>1, <1>2, <1>3, SentValues DEF TransferFrame, At, Informing
<1>4. CASE mi < InfoBytes + 1
  <2>1. mi' = mi + 1 /\ mphase' = "info"
    BY <1>1, <1>4 DEF Proceed, Informing
  <2> QED BY <1>1, <1>2, <1>6, <2>1 DEF Informing, Agreed, TransferFrame
<1>5. CASE mi = InfoBytes + 1
  <2>1. mphase' = "away" /\ At("info", InfoBytes)
    BY <1>1, <1>2, <1>5, InfoSize DEF Proceed
  <2> QED BY <1>1, <1>6, <2>1 DEF Informing, Answered, Agreed, At, TransferFrame
<1> QED BY <1>3, <1>4, <1>5, InfoSize

LEMMA TransferInStep ==
  ASSUME LinkTyped, InStep, SentAsAsked, Transfer, torn' = {}
  PROVE  InStep' /\ SentAsAsked'
<1>1. mphase \in Clocking /\ mphase # "refuse"
  BY DEF Transfer, Tears
<1>2. Commanding \/ Answering \/ Reading \/ Writing \/ Informing
  BY <1>1, Phases DEF InStep, Idle, Called, Deciding, Answered, Storing
<1>3. SentAsAsked'
  BY DEF Transfer, SentAsAsked, slaveVars
<1> QED BY <1>2, <1>3, CommandTransferred, AnswerTransferred, ReadTransferred, WriteTransferred, InfoTransferred
        DEF InStep

(* The master serves the command *)

LEMMA ServeInStep ==
  ASSUME LinkTyped, InStep, SentAsAsked, StartProcess \/ Dispatch \/ Serve \/ Store
  PROVE  InStep' /\ SentAsAsked'
<1>1. UNCHANGED <<spc, sphase, si, scmd, sarg, tries, cache, sinfo, result, spi, shift, rx, spif, asked>>
  BY DEF StartProcess, Dispatch, Serve, Store, slaveVars, wireVars, historyVars
<1>2. SentAsAsked'
  BY <1>1 DEF SentAsAsked
<1>3. CASE StartProcess
  <2>1. Called
    BY <1>3 DEF StartProcess, InStep, Idle, Commanding, Deciding, Answering, Answered, Storing,
        Reading,
                Writing, Informing, Agreed
  <2>2. Commanding'
    BY <1>1, <1>3, <2>1 DEF StartProcess, Called, Commanding, At
  <2> QED BY <1>2, <2>2 DEF InStep
<1>4. ASSUME Dispatch \/ Serve PROVE Deciding
  BY <1>4 DEF Dispatch, Serve, InStep, Idle, Called, Commanding, Answering, Answered, Storing,
      Reading,
              Writing, Informing
<1>5. CASE Dispatch
  <2>1. Deciding'
    BY <1>1, <1>4, <1>5 DEF Dispatch, Accept, Deciding, Agreed, Heard, At
  <2> QED BY <1>2, <2>1 DEF InStep
<1>6. CASE Serve
  <2>1. Deciding /\ Agreed' /\ Heard' /\ mi = 1 /\ mi' = 1 /\ UNCHANGED card /\ marg \in Addresses
    BY <1>1, <1>4, <1>6 DEF Serve, Deciding, Agreed, Heard, At, cardVars, LinkTyped, Place,
        SlaveTyped
  <2>2. ~spif' \/ At("cmd", NArg + 1)'
    BY <2>1 DEF Heard
  <2>3. \/ mphase' = "status" /\ Verdict(mcode')
        \/ mphase' = "readback" /\ scmd = READ /\ mbuf' = card[sarg]
        \/ mphase' = "writein" /\ scmd = WRITE
        \/ mphase' = "info" /\ scmd = INFO
    BY <1>6, <2>1, Codes DEF Serve, Answer, Verdict, Deciding, Agreed
  <2>4. Answering' \/ Reading' \/ Writing' \/ Informing'
    BY <1>1, <2>1, <2>3 DEF Answering, Reading, Writing, Informing, Follows, Verdict, Heard, At
  <2> QED BY <1>2, <2>4 DEF InStep
<1>7. CASE Store
  <2>1. Storing
    BY <1>7 DEF Store, InStep, Idle, Called, Commanding, Deciding, Answering, Answered,
        Reading, Writing, Informing
  <2>2. sarg \in Addresses /\ card \in [Addresses -> Block]
    BY DEF LinkTyped, SlaveTyped, CardTyped
  <2>3. lost' \/ cache = card'[sarg]
    BY <1>7, <2>1, <2>2 DEF Store, Storing, Agreed
  <2>4. Answering'
    BY <1>1, <1>7, <2>1, <2>3 DEF Store, Storing, Answering, Agreed, Stored, At, Written
  <2> QED BY <1>2, <2>4 DEF InStep
<1> QED BY <1>3, <1>5, <1>6, <1>7

\* The time-out of the reader, and the card in its slot, are no part of an exchange.
LEMMA AsideInStep ==
  ASSUME InStep, SentAsAsked, ReaderTimeout \/ CardSlot \/ UNCHANGED vars
  PROVE  InStep' /\ SentAsAsked'
<1>1. UNCHANGED <<flag, masterVars, card, slaveVars, wireVars, asked, lost>>
  BY DEF ReaderTimeout, CardSlot, vars, cardVars, historyVars
<1>2. UNCHANGED <<flag, mphase, mi, mcmd, marg, mcode, mbuf, card, spc, sphase, si, scmd, sarg, tries,
                  cache, sinfo, result, spi, shift, rx, spif, asked, lost>>
  BY <1>1 DEF masterVars, slaveVars, wireVars
<1>3. SentAsAsked' /\ DataIsWhole' = DataIsWhole
  BY <1>2 DEF SentAsAsked, DataIsWhole
<1>4. Idle' = Idle /\ Called' = Called /\ Commanding' = Commanding /\ Heard' = Heard /\ Stored' = Stored /\ Agreed' = Agreed
  BY <1>2, <1>3 DEF Idle, Called, Commanding, Heard, Stored, Agreed, At
<1>5. Deciding' = Deciding /\ Answering' = Answering /\ Answered' = Answered /\ Storing' = Storing
  BY <1>2, <1>4 DEF Deciding, Answering, Answered, Storing, Verdict, Written, At
<1>6. Reading' = Reading /\ Writing' = Writing /\ Informing' = Informing
  BY <1>2, <1>4 DEF Reading, Writing, Informing, Follows, At
<1> QED BY <1>3, <1>4, <1>5, <1>6 DEF InStep

(* Resets *)

\* A boot that ends with the flag down leaves both sides at the start.
LEMMA BootInStep ==
  ASSUME Sane, BootEnds, torn' = {}
  PROVE  InStep' /\ SentAsAsked'
<1>1. ~flag
  BY DEF BootEnds
<1>2. Idle'
  BY <1>1 DEF Sane, BootEnds, Idle, DataIsWhole, masterVars, wireVars
<1>3. SentAsAsked'
  BY DEF BootEnds, SentAsAsked
<1> QED BY <1>2, <1>3 DEF InStep

LEMMA SaneStep ==
  ASSUME LinkTyped, Sane, [Next]_vars
  PROVE  Sane'
<1>1. ASSUME InitStep \/ HostAsks \/ PauseEnds PROVE Sane'
  <2>1. PICK c, a : Trial(c, a)
    BY <1>1 DEF InitStep, HostAsks, PauseEnds, Send
  <2>2. UNCHANGED <<mphase, mcmd, torn>> /\ spc \in {"ready", "pause"}
    BY <1>1 DEF InitStep, HostAsks, PauseEnds, Send, masterVars, historyVars
  <2> QED BY <2>1, <2>2 DEF Trial, Sane
<1>2. CASE Reconnect
  BY <1>2 DEF Reconnect, Sane, masterVars, wireVars, historyVars
<1>3. ASSUME TakeByte \/ TakeResponse \/ TakeLast PROVE Sane'
  <2>1. UNCHANGED <<mphase, mcmd, torn>> /\ spc = "xfer"
    BY <1>3 DEF TakeByte, TakeResponse, TakeLast, Taking, masterVars, historyVars
  <2>2. spc' # "boot"
    BY <1>3, <2>1 DEF TakeByte, TakeResponse, TakeLast, GoOn, Done
  <2> QED BY <2>1, <2>2 DEF Sane
<1>4. CASE Transfer
  <2>1. UNCHANGED <<spc, result, spi>> /\ (~spi => spif' = spif) /\ ("reset" \in torn' => "reset" \in torn)
    BY <1>4 DEF Transfer, Tears, slaveVars
  <2>2. mphase' \in {"writein", "store"} => mphase = "writein" /\ mcmd' = mcmd
    BY <1>4, Phases DEF Transfer, AfterPhase
  <2> QED BY <2>1, <2>2 DEF Sane
<1>5. CASE StartProcess \/ Dispatch \/ Serve \/ Store \/ ReaderTimeout \/ CardSlot
  <2>1. UNCHANGED <<spc, result, spi, spif, torn>>
    BY <1>5 DEF StartProcess, Dispatch, Serve, Store, ReaderTimeout, CardSlot, slaveVars,
        wireVars, historyVars
  <2>2. mphase' \in {"writein", "store"} => mcmd' = mcmd /\ (mcmd = WRITE \/ mphase' = mphase)
    BY <1>5 DEF StartProcess, Dispatch, Accept, Serve, Answer, Store, ReaderTimeout, CardSlot,
        masterVars
  <2> QED BY <2>1, <2>2 DEF Sane
<1>6. ASSUME DogBites \/ DogBitesEarly PROVE Sane'
  BY <1>6 DEF DogBites, DogBitesEarly, Reset, Sane, masterVars
<1>7. CASE BootEnds
  BY <1>7 DEF BootEnds, Sane, masterVars
<1>8. CASE UNCHANGED vars
  BY <1>8 DEF vars, Sane, masterVars, slaveVars, wireVars, historyVars
<1> QED BY <1>1, <1>2, <1>3, <1>4, <1>5, <1>6, <1>7, <1>8 DEF Next, SlaveStep, MasterStep

\* Between a reset and the end of the boot.
LEMMA ServesStep ==
  ASSUME LinkTyped, Sane, torn = {"reset"}, ServesTheLast, [Next]_vars, torn' = {"reset"}
  PROVE  ServesTheLast'
<1>1. spc = "boot" /\ ~spi
  BY DEF Sane
<1>2. ~SlaveStep /\ ~HostAsks /\ ~Reconnect /\ ~DogBites /\ ~DogBitesEarly
  BY <1>1 DEF SlaveStep, InitStep, HostAsks, Send, PauseEnds, TakeByte, TakeResponse, TakeLast,
      Taking,
              Reconnect, DogBites, DogBitesEarly, Starved
<1>3. CASE Transfer
  <2>1. mphase # "refuse" /\ asked' = asked
    BY <1>3 DEF Transfer, Tears
  <2>2. CASE mphase = "cmd"
    <3>1. mcmd' \notin Commands
      <4>1. mi \in Nat \ {0} /\ (mi > 1 => mcmd \notin Commands)
        BY <2>2 DEF ServesTheLast, LinkTyped, Place
      <4>2. "noise" \notin torn'
        OBVIOUS
      <4> QED BY <1>1, <1>3, <2>2, <4>1, <4>2 DEF Transfer, Tears
    <3>2. mcmd' # WRITE
      BY <3>1 DEF Commands
    <3> QED BY <3>1, <3>2 DEF ServesTheLast
  <2>3. CASE mphase # "cmd"
    <3>1. UNCHANGED <<mcmd, marg>>
      BY <1>3, <2>3 DEF Transfer
    <3>2. mphase' = mphase \/ mphase' = "away" \/ (mphase = "writein" /\ mphase' = "store")
      BY <1>3, <2>1, <2>3 DEF Transfer, AfterPhase
    <3> QED BY <2>1, <2>3, <3>1, <3>2 DEF ServesTheLast
  <2> QED BY <2>2, <2>3
<1>4. CASE StartProcess
  BY <1>4 DEF StartProcess, ServesTheLast
<1>5. CASE Dispatch \/ Serve \/ Store
  BY <1>5 DEF Dispatch, Accept, Serve, Answer, Store, ServesTheLast, historyVars
<1>6. CASE ReaderTimeout \/ CardSlot
  BY <1>6 DEF ReaderTimeout, CardSlot, ServesTheLast, masterVars, historyVars
<1>7. ~BootEnds
  BY DEF BootEnds
<1>8. CASE UNCHANGED vars
  BY <1>8 DEF vars, masterVars, historyVars, ServesTheLast
<1> QED BY <1>2, <1>3, <1>4, <1>5, <1>6, <1>7, <1>8 DEF Next, MasterStep

\* In step, a WRITE being served is the last one sent.
LEMMA WriteIsTheLast ==
  ASSUME InStep, SentAsAsked, mphase \in {"dispatch", "refuse", "serve", "writein", "store"}, mcmd = WRITE
  PROVE  marg = asked
BY DEF InStep, Idle, Called, Commanding, Deciding, Answering, Answered, Reading, Writing,
    Storing, Informing,
       Agreed, SentAsAsked

LEMMA ResetServes ==
  ASSUME InStep, SentAsAsked, DogBites \/ DogBitesEarly
  PROVE  ServesTheLast'
<1>1. UNCHANGED <<mphase, mi, mcmd, marg, asked>>
  BY DEF DogBites, DogBitesEarly, Reset, masterVars
<1>2. mphase # "cmd"
  BY DEF DogBites, DogBitesEarly, Starved, InStep, Idle, Called, Commanding, Deciding,
      Answering, Answered,
         Reading, Writing, Storing, Informing, Agreed
<1> QED BY <1>1, <1>2, WriteIsTheLast DEF ServesTheLast

(* The invariant *)

LEMMA LinkInvInit == Init => LinkInv
<1> SUFFICES ASSUME Init PROVE LinkInv OBVIOUS
<1>1. InStep /\ SentAsAsked
  BY DEF Init, InStep, Idle, DataIsWhole, SentAsAsked
<1>2. Sane /\ torn = {}
  BY DEF Init, Sane
<1> QED BY <1>1, <1>2, InitTyped DEF LinkInv

LEMMA LinkInvStep == LinkInv /\ [Next]_vars => LinkInv'
<1> SUFFICES ASSUME LinkInv, [Next]_vars PROVE LinkInv' OBVIOUS
<1>1. LinkTyped /\ Sane /\ LinkTyped' /\ Sane'
  BY StepTyped, SaneStep DEF LinkInv
<1>2. ASSUME torn' = {} PROVE InStep' /\ SentAsAsked'
  <2>1. torn = {} \/ BootEnds
    BY <1>2 DEF Next, SlaveStep, MasterStep, InitStep, HostAsks, Send, PauseEnds, TakeByte,
        TakeResponse,
                TakeLast, Reconnect, StartProcess, Transfer, Dispatch, Serve, Store,
        ReaderTimeout,
                CardSlot, DogBites, DogBitesEarly, Reset, vars, historyVars
  <2>2. ASSUME torn = {}, ~BootEnds PROVE InStep' /\ SentAsAsked'
    <3>1. InStep /\ SentAsAsked
      BY <2>2 DEF LinkInv
    <3>2. ~DogBites /\ ~DogBitesEarly
      BY <1>2 DEF DogBites, DogBitesEarly, Reset
    <3>3. CASE TakeByte
      <4>1. SentAsAsked'
        BY <3>1, <3>3 DEF TakeByte, GoOn, SentAsAsked, historyVars
      <4> QED BY <1>1, <3>1, <3>3, <4>1, TakeByteInStep
    <3> QED BY <1>1, <1>2, <2>2, <3>1, <3>2, <3>3, AskInStep, ResponseInStep, LastInStep, TransferInStep,
               ServeInStep, AsideInStep DEF Next, SlaveStep, MasterStep
  <2> QED BY <1>1, <1>2, <2>1, <2>2, BootInStep
<1>3. ASSUME torn' = {"reset"} PROVE ServesTheLast'
  <2>1. CASE torn = {"reset"}
    BY <1>1, <1>3, <2>1, ServesStep DEF LinkInv
  <2>2. ASSUME torn # {"reset"} PROVE torn = {} /\ (DogBites \/ DogBitesEarly)
    <3>1. DogBites \/ DogBitesEarly
      BY <1>3, <2>2 DEF Next, SlaveStep, MasterStep, InitStep, HostAsks, Send, PauseEnds,
        TakeByte,
                TakeResponse, TakeLast, Reconnect, StartProcess, Transfer, Tears, Dispatch,
        Serve, Store,
                ReaderTimeout, CardSlot, BootEnds, vars, historyVars
    <3>2. torn' = torn \cup {"reset"}
      BY <3>1 DEF DogBites, DogBitesEarly, Reset
    <3> QED BY <1>3, <2>2, <3>1, <3>2
  <2> QED BY <2>1, <2>2, ResetServes DEF LinkInv
<1> QED BY <1>1, <1>2, <1>3 DEF LinkInv

LEMMA LinkInvAlways == Spec => []LinkInv
BY LinkInvInit, LinkInvStep, PTL DEF Spec

\* As long as nothing has set the two sides apart, a command is answered for what it is,
\* and the data of one that ended well are whole, for every length of argument, block
\* and register, every content and every answer of the card.
THEOREM ExchangeIsWholeAlways == Spec => []ExchangeIsWhole
<1>1. LinkInv => ExchangeIsWhole
  <2> SUFFICES ASSUME LinkInv, torn = {} PROVE AnswerIsForCommand /\ DataIsWhole
    BY DEF ExchangeIsWhole
  <2>1. InStep
    BY DEF LinkInv
  <2>2. AnswerIsForCommand
    BY <2>1 DEF AnswerIsForCommand, InStep, Idle, Called, At, Commanding, Deciding, Answering,
        Answered,
                Reading, Writing, Storing, Informing, Agreed
  <2>3. spc # "ready" \/ DataIsWhole
    BY <2>1 DEF InStep, Idle, Called, Commanding, Deciding, Answering, Answered,
                Reading, Writing, Storing, Informing, Agreed
  <2> QED BY <2>2, <2>3 DEF DataIsWhole
<1> QED BY <1>1, LinkInvAlways, PTL

\* The card is written only at the address of the last WRITE sent, also by a master that
\* goes on with it after the 32u4 has been reset.
THEOREM WriteGoesWhereAskedAlways == Spec => WriteGoesWhereAsked
<1>1. ASSUME LinkInv, [Next]_vars, NEW a \in Addresses, card'[a] # card[a], torn \subseteq {"reset"}
      PROVE  a = asked
  <2>1. Store
    BY <1>1 DEF Next, SlaveStep, MasterStep, InitStep, HostAsks, Send, PauseEnds, TakeByte,
        TakeResponse,
                TakeLast, Reconnect, StartProcess, Transfer, Dispatch, Serve, ReaderTimeout,
                CardSlot, DogBites, DogBitesEarly, Reset, BootEnds, vars, cardVars
  <2>2. a = marg /\ mphase = "store"
    BY <1>1, <2>1 DEF Store, LinkInv, LinkTyped, CardTyped
  <2>3. mcmd = WRITE
    BY <1>1, <2>2 DEF LinkInv, Sane
  <2>4. CASE torn = {}
    BY <1>1, <2>2, <2>3, <2>4, WriteIsTheLast DEF LinkInv
  <2>5. CASE torn = {"reset"}
    BY <1>1, <2>2, <2>3, <2>5 DEF LinkInv, ServesTheLast
  <2> QED BY <1>1, <2>4, <2>5
<1>2. LinkInv /\ [Next]_vars
        => [\A a \in Addresses : card'[a] # card[a] /\ torn \subseteq {"reset"} => a = asked]_vars
  BY <1>1
<1> QED BY <1>2, LinkInvAlways, PTL DEF Spec, WriteGoesWhereAsked

-----------------------------------------------------------------------------
(* The watchdog *)

\* Only the data of an INFO and the CRC of a READ are awaited without a watchdog.
Watched32u4 ==
  spc = "xfer" =>
    /\ sphase = "read" => scmd = READ
    /\ sphase = "info" => scmd = INFO
    /\ dog \/ sphase = "info" \/ (sphase = "read" /\ si > BlockLen + 1)

\* A 32u4 that waits for a byte nobody is going to clock has its watchdog armed: the part
\* of CommandEnds that is not liveness.
WaitsAreWatched == Starved /\ scmd \notin {INFO, READ} => dog

LEMMA WatchedKept == LinkTyped /\ Watched32u4 /\ [Next]_vars => Watched32u4'
<1> SUFFICES ASSUME LinkTyped, Watched32u4, [Next]_vars PROVE Watched32u4' OBVIOUS
<1>1. ASSUME InitStep \/ HostAsks \/ PauseEnds PROVE Watched32u4'
  <2>1. PICK c, a : Trial(c, a)
    BY <1>1 DEF InitStep, HostAsks, PauseEnds, Send
  <2> QED BY <2>1 DEF Trial, Watched32u4
<1>2. CASE TakeByte
  <2>1. UNCHANGED <<spc, sphase, scmd>> /\ si' = si + 1 /\ spc = "xfer"
    BY <1>2 DEF TakeByte, Taking, GoOn
  <2>2. dog => dog' \/ (sphase = "read" /\ si = BlockLen + 1)
    BY <1>2, Zenon DEF TakeByte
  <2>3. si \in Nat /\ BlockLen \in Nat
    BY Sizes DEF LinkTyped, SlavePlace
  <2> QED BY <2>1, <2>2, <2>3 DEF Watched32u4
<1>3. CASE TakeResponse
  <2>1. spc' = "xfer" => scmd \in {READ, WRITE, INFO} /\ GoOn /\ dog' = Watched(scmd)
          /\ Enter(CASE scmd = READ -> "read" [] scmd = WRITE -> "write" [] OTHER -> "info")
    BY <1>3 DEF TakeResponse, Done
  <2>2. spc' = "xfer" => /\ scmd' = scmd /\ scmd \in {READ, WRITE, INFO}
                         /\ sphase' = CASE scmd = READ -> "read" [] scmd = WRITE -> "write" [] OTHER -> "info"
                         /\ si' = 1
    BY <2>1 DEF Enter, GoOn
  <2>3. spc' = "xfer" => dog' \/ scmd = INFO
    BY <2>1, Zenon DEF Watched
  <2> QED BY <2>2, <2>3, Codes, Sizes DEF Watched32u4
<1>4. CASE TakeLast
  BY <1>4 DEF TakeLast, Done, Watched32u4
<1>5. ASSUME DogBites \/ DogBitesEarly \/ BootEnds PROVE Watched32u4'
  BY <1>5 DEF DogBites, DogBitesEarly, Reset, BootEnds, Watched32u4
<1>6. ASSUME Reconnect \/ MasterStep \/ ReaderTimeout \/ CardSlot \/ UNCHANGED vars PROVE Watched32u4'
  <2>1. UNCHANGED <<spc, sphase, si, scmd, dog>>
    BY <1>6 DEF Reconnect, MasterStep, StartProcess, Transfer, Dispatch, Serve, Store,
        ReaderTimeout,
                CardSlot, slaveVars, vars
  <2> QED BY <2>1 DEF Watched32u4
<1> QED BY <1>1, <1>2, <1>3, <1>4, <1>5, <1>6 DEF Next, SlaveStep

\* However far apart the two sides are, sd_raw.c enables its watchdog before each wait, but
\* for two commands.
THEOREM WaitsAreWatchedAlways == Spec => []WaitsAreWatched
<1>1. Init => Watched32u4
  BY DEF Init, Watched32u4
<1>2. Spec => []LinkTyped
  BY InitTyped, StepTyped, PTL DEF Spec
<1>3. LinkTyped /\ Watched32u4 => WaitsAreWatched
  BY DEF LinkTyped, SlavePlace, Starved, Watched32u4, WaitsAreWatched
<1> QED BY <1>1, <1>2, <1>3, WatchedKept, PTL DEF Spec

-----------------------------------------------------------------------------
(* The bridge: remainders *)

\* Quotient and remainder of numbers that are not constants.
LEMMA Quotient ==
  ASSUME NEW n \in Nat \ {0}, NEW x \in Int
  PROVE  (x % n) \in 0 .. n - 1 /\ x \div n \in Int /\ x = n * (x \div n) + (x % n)
OBVIOUS

LEMMA Remainder ==
  ASSUME NEW n \in Nat \ {0}, NEW q \in Int, NEW r \in 0 .. n - 1
  PROVE  (n * q + r) % n = r
OBVIOUS

LEMMA SmallRemainder ==
  ASSUME NEW n \in Nat \ {0}, NEW r \in 0 .. n - 1
  PROVE  r % n = r
OBVIOUS

LEMMA RemainderOfSum ==
  ASSUME NEW n \in Nat \ {0}, NEW x \in Int, NEW k \in Int
  PROVE  ((x % n) + k) % n = (x + k) % n
<1> DEFINE y == (x % n) + k
           q == x \div n
           p == y \div n
<1>1. (x % n) \in Int /\ q \in Int /\ x = n * q + (x % n)
  BY Quotient
<1>2. y \in Int
  BY <1>1
<1>3. (y % n) \in 0 .. n - 1 /\ p \in Int /\ y = n * p + (y % n)
  <2> HIDE DEF y
  <2> QED
    BY <1>2, Quotient
<1>4. x + k = n * q + y
  BY <1>1
<1> HIDE DEF y, q, p
<1>5. n * q + n * p = n * (q + p)
  BY <1>1, <1>3
<1>6. n * q \in Int /\ n * p \in Int /\ (y % n) \in Int /\ q + p \in Int
  BY <1>1, <1>3
<1>7. x + k = n * (q + p) + (y % n)
  BY <1>3, <1>4, <1>5, <1>6
<1>8. (n * (q + p) + (y % n)) % n = y % n
  BY <1>3, <1>6, Remainder
<1>9. QED
  BY <1>7, <1>8 DEF y

LEMMA RemaindersDiffer ==
  ASSUME NEW n \in Nat \ {0}, NEW x \in Int, NEW d \in 1 .. n - 1
  PROVE  (x + d) % n # x % n
<1> DEFINE r == x % n
<1>1. r \in 0 .. n - 1 /\ (x + d) % n = (r + d) % n
  <2>1. d \in Int
    OBVIOUS
  <2>2. ((x % n) + d) % n = (x + d) % n
    BY <2>1, RemainderOfSum
  <2>3. QED
    BY <2>2, Quotient
<1> HIDE DEF r
<1>2. CASE r + d < n
  <2>1. (r + d) % n = r + d
    BY <1>1, <1>2, SmallRemainder
  <2>2. QED
    BY <1>1, <2>1 DEF r
<1>3. CASE r + d >= n
  <2>1. r + d - n \in 0 .. n - 1 /\ n * 1 + (r + d - n) = r + d
    BY <1>1, <1>3
  <2>2. (r + d) % n = r + d - n
    BY <2>1, Remainder
  <2>3. QED
    BY <1>1, <2>2 DEF r
<1>4. QED
  BY <1>1, <1>2, <1>3

-----------------------------------------------------------------------------
(* The ring *)

Aligned(r) == (r.out + r.count) % Size = r.in

\* All the values of the count go a whole number of times round the ring.
LEMMA WholeTurns == ASSUME NEW x \in 0 .. Size - 1 PROVE (x + Wrap) % Size = x
<1> USE RingAssumption
<1>0. Wrap \in Int /\ x \in Int /\ Size \in Nat \ {0}
  OBVIOUS
<1>1. ((Wrap % Size) + x) % Size = (Wrap + x) % Size
  BY <1>0, RemainderOfSum
<1>2. (0 + x) % Size = x
  BY SmallRemainder
<1>3. Wrap + x = x + Wrap /\ Wrap % Size = 0
  OBVIOUS
<1>4. QED
  BY <1>1, <1>2, <1>3

LEMMA NewRingTyped ==
  NewRing \in Ring /\ Aligned(NewRing) /\ Content(NewRing) = <<>> /\ NewRing.count = 0
<1> USE RingAssumption
<1>1. (CHOOSE b \in Char : TRUE) \in Char
  BY CharAssumption
<1>2. [i \in 0 .. Size - 1 |-> CHOOSE b \in Char : TRUE] \in [0 .. Size - 1 -> Char]
  BY <1>1
<1>3. NewRing \in Ring
  BY <1>2 DEF NewRing, Ring
<1>4. Aligned(NewRing)
  BY SmallRemainder DEF NewRing, Aligned
<1>5. Content(NewRing) = <<>>
  BY DEF NewRing, Content
<1>6. QED
  BY <1>3, <1>4, <1>5 DEF NewRing

\* One more or one less, modulo the values of the count.
LEMMA CountSteps ==
  ASSUME NEW c \in 0 .. Wrap - 1
  PROVE  /\ (c + 1) % Wrap = IF c = Wrap - 1 THEN 0 ELSE c + 1
         /\ (c - 1) % Wrap = IF c = 0 THEN Wrap - 1 ELSE c - 1
<1> USE RingAssumption
<1>1. CASE c = Wrap - 1
  <2>1. Wrap * 1 + 0 = c + 1 /\ 0 \in 0 .. Wrap - 1
    BY <1>1
  <2>2. (Wrap * 1 + 0) % Wrap = 0
    BY <2>1, Remainder
  <2>3. (c + 1) % Wrap = 0
    BY <2>1, <2>2
  <2>4. c # 0 /\ c - 1 \in 0 .. Wrap - 1
    BY <1>1
  <2>5. (c - 1) % Wrap = c - 1
    BY <2>4, SmallRemainder
  <2>6. QED
    BY <1>1, <2>3, <2>4, <2>5
<1>2. CASE c # Wrap - 1 /\ c = 0
  <2>1. Wrap * (-1) + (Wrap - 1) = c - 1 /\ Wrap - 1 \in 0 .. Wrap - 1 /\ -1 \in Int
    BY <1>2
  <2>2. (Wrap * (-1) + (Wrap - 1)) % Wrap = Wrap - 1
    BY <2>1, Remainder
  <2>3. (c - 1) % Wrap = Wrap - 1
    BY <2>1, <2>2
  <2>4. (c + 1) % Wrap = c + 1
    BY <1>2, SmallRemainder
  <2>5. QED
    BY <1>2, <2>3, <2>4
<1>3. CASE c # Wrap - 1 /\ c # 0
  <2>1. c + 1 \in 0 .. Wrap - 1 /\ c - 1 \in 0 .. Wrap - 1
    BY <1>3
  <2>2. (c + 1) % Wrap = c + 1 /\ (c - 1) % Wrap = c - 1
    BY <2>1, SmallRemainder
  <2>3. QED
    BY <1>3, <2>2
<1>4. QED
  BY <1>1, <1>2, <1>3

\* The same for the place where the next byte comes in.
LEMMA AlignedSteps ==
  ASSUME NEW i \in 0 .. Size - 1, NEW o \in 0 .. Size - 1, NEW c \in 0 .. Wrap - 1,
         (o + c) % Size = i
  PROVE  /\ (o + ((c + 1) % Wrap)) % Size = (i + 1) % Size
         /\ (((o + 1) % Size) + ((c - 1) % Wrap)) % Size = i
<1> USE RingAssumption
<1>0. o \in Int /\ c \in Int /\ i \in Int /\ Size \in Nat \ {0} /\ o + c \in Int /\ o + 1 \in Int
  OBVIOUS
<1>1. (o + Wrap) % Size = o /\ o % Size = o
  BY WholeTurns, SmallRemainder
<1>2. (i + 1) % Size = ((o + c) + 1) % Size
  <2> DEFINE s == o + c
  <2>1. s \in Int /\ 1 \in Int
    BY <1>0
  <2>2. ((s % Size) + 1) % Size = (s + 1) % Size
    <3> HIDE DEF s
    <3> QED
      BY <1>0, <2>1, RemainderOfSum
  <2>3. QED
    BY <2>2
<1>3. (o + ((c + 1) % Wrap)) % Size = ((o + c) + 1) % Size
  <2>1. CASE c = Wrap - 1
    <3>1. (c + 1) % Wrap = 0
      BY <2>1, CountSteps
    <3>2. o + 0 = o /\ (o + c) + 1 = o + Wrap
      BY <2>1
    <3>3. QED
      BY <1>1, <3>1, <3>2
  <2>2. CASE c # Wrap - 1
    <3>1. (c + 1) % Wrap = c + 1
      BY <2>2, CountSteps
    <3>2. o + (c + 1) = (o + c) + 1
      OBVIOUS
    <3>3. QED
      BY <3>1, <3>2
  <2>3. QED
    BY <2>1, <2>2
<1>4. ASSUME NEW d \in Int PROVE (((o + 1) % Size) + d) % Size = ((o + 1) + d) % Size
  BY <1>0, RemainderOfSum
<1>5. ((c - 1) % Wrap) \in Int
  BY CountSteps
<1>6. ((o + 1) + ((c - 1) % Wrap)) % Size = i
  <2>1. CASE c = 0
    <3>1. (c - 1) % Wrap = Wrap - 1
      BY <2>1, CountSteps
    <3>2. (o + 1) + (Wrap - 1) = o + Wrap /\ o + c = o
      BY <2>1
    <3>3. QED
      BY <1>1, <3>1, <3>2
  <2>2. CASE c # 0
    <3>1. (c - 1) % Wrap = c - 1
      BY <2>2, CountSteps
    <3>2. (o + 1) + (c - 1) = o + c
      OBVIOUS
    <3>3. QED
      BY <3>1, <3>2
  <2>3. QED
    BY <2>1, <2>2
<1>7. QED
  BY <1>2, <1>3, <1>4, <1>5, <1>6

LEMMA RingFields ==
  ASSUME NEW r \in Ring
  PROVE  /\ r = [data |-> r.data, in |-> r.in, out |-> r.out, count |-> r.count]
         /\ r.data \in [0 .. Size - 1 -> Char] /\ r.in \in 0 .. Size - 1
         /\ r.out \in 0 .. Size - 1 /\ r.count \in 0 .. Wrap - 1
BY DEF Ring

\* A place of the ring and the next one.
LEMMA NextPlace == ASSUME NEW i \in 0 .. Size - 1 PROVE ((i + 1) % Size) \in 0 .. Size - 1
<1>1. i + 1 \in Int /\ Size \in Nat \ {0}
  BY RingAssumption
<1>2. QED
  BY <1>1, Quotient

LEMMA InsertTyped ==
  ASSUME NEW r \in Ring, Aligned(r), NEW b \in Char
  PROVE  /\ Insert(r, b) \in Ring /\ Aligned(Insert(r, b))
         /\ Insert(r, b).count = IF r.count = Wrap - 1 THEN 0 ELSE r.count + 1
<1>1. (r.in + 1) % Size \in 0 .. Size - 1
  BY RingFields, NextPlace
<1>2. (r.count + 1) % Wrap = IF r.count = Wrap - 1 THEN 0 ELSE r.count + 1
  BY RingFields, CountSteps
<1>3. (r.count + 1) % Wrap \in 0 .. Wrap - 1
  <2>1. r.count \in 0 .. Wrap - 1 /\ Wrap \in Nat
    BY RingFields, RingAssumption
  <2>2. QED
    BY <1>2, <2>1
<1>4. [r.data EXCEPT ![r.in] = b] \in [0 .. Size - 1 -> Char]
  BY RingFields
<1>5. (r.out + ((r.count + 1) % Wrap)) % Size = (r.in + 1) % Size
  BY RingFields, AlignedSteps DEF Aligned
<1>6. QED
  <2>1. Insert(r, b) \in Ring
    BY <1>1, <1>3, <1>4, RingFields  DEF Ring, Insert
  <2>2. Aligned(Insert(r, b))
    BY <1>5 DEF Aligned, Insert
  <2>3. QED
    BY <1>2, <2>1, <2>2 DEF Insert

LEMMA RemoveTyped ==
  ASSUME NEW r \in Ring, Aligned(r)
  PROVE  /\ Remove(r) \in Ring /\ Aligned(Remove(r))
         /\ Remove(r).count = IF r.count = 0 THEN Wrap - 1 ELSE r.count - 1
<1>1. (r.out + 1) % Size \in 0 .. Size - 1
  BY RingFields, NextPlace
<1>2. (r.count - 1) % Wrap = IF r.count = 0 THEN Wrap - 1 ELSE r.count - 1
  BY RingFields, CountSteps
<1>3. (r.count - 1) % Wrap \in 0 .. Wrap - 1
  <2>1. r.count \in 0 .. Wrap - 1 /\ Wrap \in Nat
    BY RingFields, RingAssumption
  <2>2. QED
    BY <1>2, <2>1
<1>4. (((r.out + 1) % Size) + ((r.count - 1) % Wrap)) % Size = r.in
  BY RingFields, AlignedSteps DEF Aligned
<1>5. QED
  <2>1. Remove(r) \in Ring
    BY <1>1, <1>3, RingFields DEF Ring, Remove
  <2>2. Aligned(Remove(r))
    BY <1>4 DEF Aligned, Remove
  <2>3. QED
    BY <1>2, <2>1, <2>2 DEF Remove
\* A ring gives back what it was given, in the order in which it was, while it has room.
LEMMA ContentIsSeq ==
  ASSUME NEW r \in Ring
  PROVE  /\ Content(r) \in Seq(Char) /\ Len(Content(r)) = r.count
         /\ \A i \in 1 .. r.count : Content(r)[i] = r.data[(r.out + i - 1) % Size]
<1>1. r.count \in Nat
  BY RingFields
<1>2. ASSUME NEW i \in 1 .. r.count PROVE r.data[(r.out + i - 1) % Size] \in Char
  <2>1. r.out + i - 1 \in Int /\ Size \in Nat \ {0}
    BY RingFields, RingAssumption
  <2>2. ((r.out + i - 1) % Size) \in 0 .. Size - 1
    BY <2>1, Quotient
  <2>3. QED
    BY <2>2, RingFields
<1>3. Content(r) \in [1 .. r.count -> Char]
  BY <1>2 DEF Content
<1>4. Content(r) \in Seq(Char) /\ Len(Content(r)) = r.count
  BY <1>1, <1>3
<1>5. QED
  BY <1>4 DEF Content

LEMMA ContentOfInsert ==
  ASSUME NEW r \in Ring, Aligned(r), r.count < Size, NEW b \in Char
  PROVE  Content(Insert(r, b)) = Append(Content(r), b)
<1> DEFINE s == Insert(r, b)
           n == r.count
<1>1. /\ s \in Ring /\ s.count = n + 1 /\ n \in Nat
  <2>1. n \in 0 .. Wrap - 1 /\ n # Wrap - 1
    BY RingFields, RingAssumption
  <2>2. QED
    BY <2>1, InsertTyped
<1>2. /\ s.out = r.out /\ s.data[r.in] = b /\ \A k \in 0 .. Size - 1 : k # r.in => s.data[k] = r.data[k]
  BY RingFields DEF Insert
<1>3. /\ Content(s) \in Seq(Char) /\ Len(Content(s)) = n + 1
      /\ \A i \in 1 .. n + 1 : Content(s)[i] = s.data[(r.out + i - 1) % Size]
  <2> HIDE DEF s
  <2> QED
    BY <1>1, <1>2, ContentIsSeq
<1>4. /\ Content(r) \in Seq(Char) /\ Len(Content(r)) = n
      /\ \A i \in 1 .. n : Content(r)[i] = r.data[(r.out + i - 1) % Size]
  BY ContentIsSeq
<1>5. r.out \in Int /\ Size \in Nat \ {0} /\ (r.out + n) % Size = r.in
  BY RingFields, RingAssumption DEF Aligned
<1>6. ASSUME NEW i \in 1 .. n PROVE Content(s)[i] = Content(r)[i]
  <2> DEFINE x == r.out + i - 1
             d == n + 1 - i
  <2>1. x \in Int /\ d \in 1 .. Size - 1 /\ x + d = r.out + n
    BY <1>1, <1>5
  <2>2. (x + d) % Size # x % Size /\ (x % Size) \in 0 .. Size - 1
    <3> HIDE DEF x, d
    <3> QED
      BY <1>5, <2>1, RemaindersDiffer, Quotient
  <2>3. (x % Size) # r.in
    BY <1>5, <2>1, <2>2
  <2>4. s.data[x % Size] = r.data[x % Size]
    BY <1>2, <2>2, <2>3
  <2>5. i \in 1 .. n + 1
    BY <1>1
  <2>6. QED
    BY <1>3, <1>4, <2>4, <2>5
<1>7. Content(s)[n + 1] = b
  <2>1. r.out + (n + 1) - 1 = r.out + n /\ n + 1 \in 1 .. n + 1
    BY <1>1, <1>5
  <2>2. Content(s)[n + 1] = s.data[(r.out + (n + 1) - 1) % Size]
    BY <1>3, <2>1
  <2>3. QED
    BY <1>2, <1>5, <2>1, <2>2
<1> HIDE DEF s, n
<1>8. /\ Append(Content(r), b) \in Seq(Char) /\ Len(Append(Content(r), b)) = n + 1
      /\ Append(Content(r), b)[n + 1] = b
      /\ \A i \in 1 .. n : Append(Content(r), b)[i] = Content(r)[i]
  BY <1>4
<1>9. \A i \in 1 .. n + 1 : Content(s)[i] = Append(Content(r), b)[i]
  BY <1>1, <1>6, <1>7, <1>8
<1>10. Content(s) = Append(Content(r), b)
  BY <1>3, <1>8, <1>9, SeqEqual
<1>11. QED
  BY <1>10 DEF s

LEMMA ContentOfRemove ==
  ASSUME NEW r \in Ring, Aligned(r), r.count > 0
  PROVE  Content(r) # <<>> /\ Content(Remove(r)) = Tail(Content(r))
<1> DEFINE s == Remove(r)
           n == r.count
<1>1. /\ s \in Ring /\ s.count = n - 1 /\ n \in Nat \ {0}
  <2>1. n \in 0 .. Wrap - 1
    BY RingFields
  <2>2. QED
    BY <2>1, RemoveTyped, RingAssumption
<1>2. s.out = (r.out + 1) % Size /\ s.data = r.data
  BY DEF Remove
<1>3. /\ Content(s) \in Seq(Char) /\ Len(Content(s)) = n - 1
      /\ \A i \in 1 .. n - 1 : Content(s)[i] = r.data[(((r.out + 1) % Size) + i - 1) % Size]
  <2> HIDE DEF s
  <2> QED
    BY <1>1, <1>2, ContentIsSeq
<1>4. /\ Content(r) \in Seq(Char) /\ Len(Content(r)) = n
      /\ \A i \in 1 .. n : Content(r)[i] = r.data[(r.out + i - 1) % Size]
  BY ContentIsSeq
<1>5. r.out \in Int /\ Size \in Nat \ {0}
  BY RingFields, RingAssumption
<1>6. ASSUME NEW i \in 1 .. n - 1 PROVE Content(s)[i] = Content(r)[i + 1]
  <2> DEFINE x == r.out + 1
             k == i - 1
  <2>1. x \in Int /\ k \in Int /\ x + k = r.out + (i + 1) - 1
    BY <1>1, <1>5
  <2>2. ((x % Size) + k) % Size = (x + k) % Size /\ (x % Size) \in Int
    <3> HIDE DEF x, k
    <3>1. ((x % Size) + k) % Size = (x + k) % Size
      BY <1>5, <2>1, RemainderOfSum
    <3>2. (x % Size) \in 0 .. Size - 1
      BY <1>5, <2>1, Quotient
    <3>3. QED
      BY <3>1, <3>2
  <2>3. ((r.out + 1) % Size) + i - 1 = (x % Size) + k
    BY <2>2
  <2>4. i + 1 \in 1 .. n
    BY <1>1
  <2>5. Content(r)[i + 1] = r.data[(r.out + (i + 1) - 1) % Size]
    BY <1>4, <2>4
  <2>6. QED
    BY <1>3, <2>1, <2>2, <2>3, <2>5
<1>7. Content(r) # <<>>
  BY <1>1, <1>4
<1> HIDE DEF s, n
<1>8. /\ Tail(Content(r)) \in Seq(Char) /\ Len(Tail(Content(r))) = n - 1
      /\ \A i \in 1 .. n - 1 : Tail(Content(r))[i] = Content(r)[i + 1]
  BY <1>4, <1>7, HeadTailProperties
<1>9. Content(s) = Tail(Content(r))
  BY <1>3, <1>6, <1>8, SeqEqual
<1>10. QED
  BY <1>7, <1>9 DEF s

LEMMA ContentOfEmpty == ASSUME NEW r \in Ring, r.count = 0 PROVE Content(r) = <<>>
BY ContentIsSeq
-----------------------------------------------------------------------------
(* The invariant *)

Places == {"loop", "drowsy", "asleep", "init", "receive", "insert", "flush", "peek", "sent",
           "test", "send"}

ScalarsTyped ==
  /\ standalone \in BOOLEAN /\ connected \in BOOLEAN /\ configured \in BOOLEAN
  /\ serialOn \in BOOLEAN /\ cardIn \in BOOLEAN /\ cardReady \in BOOLEAN
  /\ overrun \in BOOLEAN /\ raced \in BOOLEAN
  /\ pc \in Places /\ held \in Char \cup {0} /\ left \in 0 .. Wrap - 1
  /\ pc = "insert" => held \in Char
  /\ configured => connected

RingsTyped == toSerial \in Ring /\ toUsb \in Ring /\ Aligned(toSerial) /\ Aligned(toUsb)

\* Between a test of a ring and the removal it is for there is a byte to remove; and the
\* main loop holds no byte for the serial line from one round to the next.
CountsFit ==
  /\ overrun => toUsb.count > 0
  /\ ~raced =>
       /\ toSerial.count <= 1
       /\ pc \in {"loop", "drowsy", "asleep", "init", "receive", "insert"} => toSerial.count = 0
       /\ pc = "send" => toSerial.count = 1
       /\ pc = "peek" => left <= toUsb.count
       /\ pc = "sent" => left < toUsb.count
       /\ ~overrun => toUsb.count <= Size

BridgeInv == ScalarsTyped /\ RingsTyped /\ CountsFit /\ BytesInOrder

LEMMA BridgeInvTyped == BridgeInv => BridgeTypeOK
BY DEF BridgeInv, ScalarsTyped, RingsTyped, CountsFit, Places, Aligned, BridgeTypeOK

LEMMA BridgeInitial == BridgeInit => BridgeInv
<1> SUFFICES ASSUME BridgeInit PROVE BridgeInv
  OBVIOUS
<1> USE RingAssumption DEF BridgeInit
<1>1. ScalarsTyped
  <2>1. serialOn \in BOOLEAN
    BY Zenon
  <2>2. 0 \in 0 .. Wrap - 1
    OBVIOUS
  <2>3. QED
    BY <2>1, <2>2 DEF ScalarsTyped, Places
<1>2. RingsTyped
  BY NewRingTyped DEF RingsTyped
<1>3. CountsFit
  BY NewRingTyped DEF CountsFit
<1>4. BytesInOrder
  BY NewRingTyped DEF BytesInOrder
<1>5. QED
  BY <1>1, <1>2, <1>3, <1>4 DEF BridgeInv

\* Steps that leave the rings alone.
Quiet ==
  \/ LoopTest \/ GoToSleep \/ SDCardManager_Init \/ ReceiveByte \/ FlushTest \/ PeekAndSend
  \/ EmptyTest \/ EVENT_USB_Device_Disconnect \/ EVENT_USB_Device_ConfigurationChanged
  \/ EVENT_CDC_Device_LineEncodingChanged \/ ChangeCard \/ UNCHANGED bridgeVars

LEMMA QuietKeepsRings == Quiet => UNCHANGED <<rings, raced>>
BY DEF Quiet, LoopTest, GoToSleep, SDCardManager_Init, ReceiveByte, FlushTest, PeekAndSend,
   EmptyTest, EVENT_USB_Device_Disconnect, EVENT_USB_Device_ConfigurationChanged,
   EVENT_CDC_Device_LineEncodingChanged, ChangeCard, bridgeVars, usb

LEMMA QuietKeeps == BridgeInv /\ Quiet => BridgeInv'
<1> SUFFICES ASSUME BridgeInv, Quiet PROVE BridgeInv'
  OBVIOUS
<1>1. UNCHANGED <<toSerial, toUsb, serialOwed, usbOwed, overrun, raced>>
  BY QuietKeepsRings DEF rings
<1>2. RingsTyped' /\ BytesInOrder'
  BY <1>1 DEF BridgeInv, RingsTyped, Aligned, BytesInOrder, Content
<1>3. /\ toUsb.count \in 0 .. Wrap - 1 /\ toSerial.count \in 0 .. Wrap - 1
      /\ Peek(toUsb) \in Char
  BY RingFields DEF BridgeInv, RingsTyped, Peek
<1> DEFINE C == toSerial.count
           U == toUsb.count
           P == Peek(toUsb)
<1>4. ScalarsTyped' /\ CountsFit'
  <2> USE RingAssumption, <1>1, <1>3 DEF BridgeInv, ScalarsTyped, CountsFit, Places, GoTo, usb
  <2>1. CASE LoopTest
    <3>1. /\ pc = "loop" /\ pc' \in {"receive", "drowsy", "init"}
          /\ UNCHANGED <<standalone, connected, configured, serialOn, cardIn, cardReady, held, left>>
      BY <2>1 DEF LoopTest
    <3>2. ScalarsTyped'
      BY <3>1
    <3>3. CountsFit'
      BY <3>1
    <3>4. QED
      BY <3>2, <3>3
  <2>2. CASE GoToSleep
    <3>1. ScalarsTyped'
      BY <2>2 DEF GoToSleep
    <3>2. CountsFit'
      BY <2>2 DEF GoToSleep
    <3>3. QED
      BY <3>1, <3>2
  <2>3. CASE SDCardManager_Init
    BY <2>3 DEF SDCardManager_Init
  <2>4. CASE ReceiveByte
    BY <2>4 DEF ReceiveByte
  <2>5. CASE FlushTest
    BY <2>5 DEF FlushTest
  <2>6. CASE PeekAndSend
    <3>1. UNCHANGED <<standalone, connected, configured, serialOn, cardIn, cardReady>>
      BY <2>6 DEF PeekAndSend
    <3>2. CASE left > 0 /\ left' = left - 1 /\ held' = Peek(toUsb) /\ pc' = "sent" /\ pc = "peek"
      BY <3>1, <3>2
    <3>3. CASE left' = 0 /\ held' = held /\ pc' = "test" /\ pc = "peek"
      BY <3>1, <3>3
    <3>4. QED
      BY <2>6, <3>2, <3>3 DEF PeekAndSend
  <2>7. CASE EmptyTest
    BY <2>7 DEF EmptyTest, IsEmpty
  <2>8. CASE EVENT_USB_Device_Disconnect
    <3>1. /\ connected' = FALSE /\ configured' = FALSE /\ pc' = (IF pc = "asleep" THEN "loop" ELSE pc)
          /\ UNCHANGED <<standalone, serialOn, cardIn, cardReady, held, left>>
      BY <2>8 DEF EVENT_USB_Device_Disconnect, Wakes
    <3>2. ScalarsTyped'
      BY <3>1
    <3>3. CountsFit'
      BY <3>1
    <3>4. QED
      BY <3>2, <3>3
  <2>9. CASE EVENT_USB_Device_ConfigurationChanged
    BY <2>9 DEF EVENT_USB_Device_ConfigurationChanged
  <2>10. CASE EVENT_CDC_Device_LineEncodingChanged
    BY <2>10 DEF EVENT_CDC_Device_LineEncodingChanged
  <2>11. CASE ChangeCard
    BY <2>11 DEF ChangeCard
  <2>12. CASE UNCHANGED bridgeVars
    BY <2>12 DEF bridgeVars
  <2>13. QED
    BY <2>1, <2>2, <2>3, <2>4, <2>5, <2>6, <2>7, <2>8, <2>9, <2>10, <2>11, <2>12 DEF Quiet
<1>5. QED
  BY <1>2, <1>4 DEF BridgeInv

LEMMA InsertReceivedKeeps == BridgeInv /\ InsertReceived => BridgeInv'
<1> SUFFICES ASSUME BridgeInv, InsertReceived PROVE BridgeInv'
  OBVIOUS
<1>1. /\ toSerial \in Ring /\ Aligned(toSerial) /\ held \in Char
      /\ ~raced => toSerial.count = 0
  BY DEF BridgeInv, RingsTyped, ScalarsTyped, CountsFit, InsertReceived
<1>2. /\ toSerial' = Insert(toSerial, held) /\ serialOwed' = Append(serialOwed, held)
      /\ pc' = "flush" /\ held' = 0
      /\ UNCHANGED <<toUsb, usbOwed, overrun, raced, left, standalone, connected, configured,
                     serialOn, cardIn, cardReady>>
  BY DEF InsertReceived, GoTo, usb
<1>3. /\ toSerial' \in Ring /\ Aligned(toSerial)'
      /\ toSerial'.count = IF toSerial.count = Wrap - 1 THEN 0 ELSE toSerial.count + 1
  BY <1>1, <1>2, InsertTyped DEF Aligned
<1>4. ScalarsTyped'
  BY <1>2 DEF BridgeInv, ScalarsTyped, Places
<1>5. RingsTyped'
  BY <1>2, <1>3 DEF BridgeInv, RingsTyped, Aligned
<1>6. CountsFit'
  BY <1>1, <1>2, <1>3 DEF BridgeInv, CountsFit
<1>7. BytesInOrder'
  <2>1. ~raced => Content(toSerial') = serialOwed'
    BY <1>1, <1>2, RingAssumption, ContentOfInsert DEF BridgeInv, BytesInOrder
  <2>2. Content(toSerial)' = Content(toSerial') /\ Content(toUsb)' = Content(toUsb)
    BY <1>2 DEF Content
  <2>3. QED
    BY <1>2, <2>1, <2>2 DEF BridgeInv, BytesInOrder
<1>8. QED
  BY <1>4, <1>5, <1>6, <1>7 DEF BridgeInv

LEMMA SendToSerialKeeps == BridgeInv /\ SendToSerial => BridgeInv'
<1> SUFFICES ASSUME BridgeInv, SendToSerial PROVE BridgeInv'
  OBVIOUS
<1>1. /\ toSerial \in Ring /\ Aligned(toSerial)
      /\ ~raced => toSerial.count = 1
  BY DEF BridgeInv, RingsTyped, CountsFit, SendToSerial
<1>2. /\ toSerial' = Remove(toSerial) /\ serialOwed' = Pop(serialOwed) /\ pc' = "loop"
      /\ UNCHANGED <<toUsb, usbOwed, overrun, raced, held, left, standalone, connected, configured,
                     serialOn, cardIn, cardReady>>
  BY DEF SendToSerial, GoTo, usb
<1>3. /\ toSerial' \in Ring /\ Aligned(toSerial)'
      /\ toSerial'.count = IF toSerial.count = 0 THEN Wrap - 1 ELSE toSerial.count - 1
  BY <1>1, <1>2, RemoveTyped DEF Aligned
<1>4. ScalarsTyped'
  BY <1>2 DEF BridgeInv, ScalarsTyped, Places
<1>5. RingsTyped'
  BY <1>2, <1>3 DEF BridgeInv, RingsTyped, Aligned
<1>6. CountsFit'
  BY <1>1, <1>2, <1>3 DEF BridgeInv, CountsFit
<1>7. BytesInOrder'
  <2>1. ~raced => Content(toSerial') = serialOwed'
    BY <1>1, <1>2, ContentOfRemove DEF BridgeInv, BytesInOrder, Pop
  <2>2. Content(toSerial)' = Content(toSerial') /\ Content(toUsb)' = Content(toUsb)
    BY <1>2 DEF Content
  <2>3. QED
    BY <1>2, <2>1, <2>2 DEF BridgeInv, BytesInOrder
<1>8. QED
  BY <1>4, <1>5, <1>6, <1>7 DEF BridgeInv

LEMMA RemoveSentKeeps == BridgeInv /\ RemoveSent => BridgeInv'
<1> SUFFICES ASSUME BridgeInv, RemoveSent PROVE BridgeInv'
  OBVIOUS
<1>1. /\ toUsb \in Ring /\ Aligned(toUsb) /\ left \in 0 .. Wrap - 1 /\ overrun \in BOOLEAN
      /\ ~raced => left < toUsb.count /\ (~overrun => toUsb.count <= Size)
  BY DEF BridgeInv, RingsTyped, ScalarsTyped, CountsFit, RemoveSent
<1>2. /\ toUsb' = Remove(toUsb) /\ pc' = "peek" /\ held' = 0
      /\ usbOwed' = IF toUsb'.count = 0 THEN <<>> ELSE IF overrun THEN usbOwed ELSE Pop(usbOwed)
      /\ UNCHANGED <<toSerial, serialOwed, raced, left, standalone, connected, configured,
                     serialOn, cardIn, cardReady>>
  BY DEF RemoveSent, GoTo, usb, IsEmpty
<1>0. overrun' \in BOOLEAN /\ (overrun' <=> overrun /\ toUsb'.count # 0)
  <2>1. overrun' = (overrun /\ ~(toUsb'.count = 0))
    BY DEF RemoveSent, IsEmpty
  <2>2. QED
    BY <2>1, Zenon
<1>3. /\ toUsb' \in Ring /\ Aligned(toUsb)' /\ toUsb.count \in Nat /\ toUsb'.count \in Nat
      /\ toUsb'.count = IF toUsb.count = 0 THEN Wrap - 1 ELSE toUsb.count - 1
  BY <1>1, <1>2, RemoveTyped, RingFields, RingAssumption DEF Aligned
<1>4. ScalarsTyped'
  BY <1>0, <1>2 DEF BridgeInv, ScalarsTyped, Places
<1>5. RingsTyped'
  BY <1>2, <1>3 DEF BridgeInv, RingsTyped, Aligned
<1>6. CountsFit'
  BY <1>0, <1>1, <1>2, <1>3, RingAssumption DEF BridgeInv, CountsFit
<1>7. BytesInOrder'
  <2>1. ASSUME toUsb'.count = 0 PROVE Content(toUsb') = usbOwed'
    BY <1>2, <1>3, <2>1, ContentOfEmpty
  <2>2. ASSUME ~raced, toUsb'.count # 0, ~overrun PROVE Content(toUsb') = usbOwed'
    <3>1. toUsb.count > 0
      BY <1>1, <1>3, <2>2
    <3>2. Content(toUsb) # <<>> /\ Content(toUsb') = Tail(Content(toUsb))
      BY <1>1, <1>2, <3>1, ContentOfRemove
    <3>3. QED
      BY <1>2, <2>2, <3>2 DEF BridgeInv, BytesInOrder, Pop
  <2>3. ~raced /\ ~overrun' => Content(toUsb') = usbOwed'
    BY <1>0, <1>2, <2>1, <2>2
  <2>4. Content(toUsb)' = Content(toUsb') /\ Content(toSerial)' = Content(toSerial)
    BY <1>2 DEF Content
  <2>5. QED
    BY <1>2, <2>3, <2>4 DEF BridgeInv, BytesInOrder
<1>8. QED
  BY <1>4, <1>5, <1>6, <1>7 DEF BridgeInv

LEMMA USART1_RXKeeps == BridgeInv /\ USART1_RX => BridgeInv'
<1> SUFFICES ASSUME BridgeInv, USART1_RX PROVE BridgeInv'
  OBVIOUS
<1>1. /\ toUsb \in Ring /\ Aligned(toUsb) /\ overrun \in BOOLEAN
      /\ toUsb.count = Wrap - 1 => pc \notin {"peek", "sent"}
  BY DEF BridgeInv, RingsTyped, ScalarsTyped, USART1_RX
<1>2. PICK b \in Char :
        /\ toUsb' = Insert(toUsb, b)
        /\ overrun' = ((overrun \/ toUsb.count = Size) /\ ~(toUsb'.count = 0))
        /\ usbOwed' = IF overrun' \/ toUsb'.count = 0 THEN <<>> ELSE Append(usbOwed, b)
  BY DEF USART1_RX, IsFull, IsEmpty
<1>0. overrun' \in BOOLEAN /\ (overrun' <=> (overrun \/ toUsb.count = Size) /\ toUsb'.count # 0)
  BY <1>2, Zenon
<1>3. UNCHANGED <<toSerial, serialOwed, raced, pc, held, left, standalone, connected, configured,
                  serialOn, cardIn, cardReady>>
  BY DEF USART1_RX, usb
<1>4. /\ toUsb' \in Ring /\ Aligned(toUsb)' /\ toUsb.count \in Nat /\ toUsb'.count \in Nat
      /\ toUsb'.count = IF toUsb.count = Wrap - 1 THEN 0 ELSE toUsb.count + 1
  BY <1>1, <1>2, InsertTyped, RingFields, RingAssumption DEF Aligned
<1>5. ScalarsTyped'
  BY <1>0, <1>3 DEF BridgeInv, ScalarsTyped, Places
<1>6. RingsTyped'
  BY <1>3, <1>4 DEF BridgeInv, RingsTyped, Aligned
<1>7. CountsFit'
  <2>1. ~raced /\ ~overrun' => toUsb'.count <= Size
    BY <1>0, <1>4, RingAssumption DEF BridgeInv, CountsFit
  <2>2. overrun' => toUsb'.count > 0
    BY <1>0, <1>4
  <2>3. ~raced /\ pc \in {"peek", "sent"} => toUsb'.count = toUsb.count + 1
    BY <1>1, <1>4
  <2>4. left \in Int
    BY DEF BridgeInv, ScalarsTyped
  <2>5. QED
    BY <1>3, <1>4, <2>1, <2>2, <2>3, <2>4 DEF BridgeInv, CountsFit
<1>8. BytesInOrder'
  <2>1. ASSUME toUsb'.count = 0 PROVE Content(toUsb') = usbOwed'
    BY <1>2, <1>4, <2>1, ContentOfEmpty
  <2>2. ASSUME ~raced, toUsb'.count # 0, ~overrun' PROVE Content(toUsb') = usbOwed'
    <3>1. toUsb.count < Size /\ ~overrun
      BY <1>0, <1>4, <2>2, RingAssumption DEF BridgeInv, CountsFit
    <3>2. Content(toUsb') = Append(Content(toUsb), b)
      BY <1>1, <1>2, <3>1, ContentOfInsert
    <3>3. QED
      BY <1>2, <2>2, <3>1, <3>2 DEF BridgeInv, BytesInOrder
  <2>3. ~raced /\ ~overrun' => Content(toUsb') = usbOwed'
    BY <2>1, <2>2
  <2>4. Content(toUsb)' = Content(toUsb') /\ Content(toSerial)' = Content(toSerial)
    BY <1>3 DEF Content
  <2>5. QED
    BY <1>3, <2>3, <2>4 DEF BridgeInv, BytesInOrder
<1>9. QED
  BY <1>5, <1>6, <1>7, <1>8 DEF BridgeInv

LEMMA ConnectKeeps == BridgeInv /\ EVENT_USB_Device_Connect => BridgeInv'
<1> SUFFICES ASSUME BridgeInv, EVENT_USB_Device_Connect PROVE BridgeInv'
  OBVIOUS
<1>1. /\ connected' = TRUE /\ Wakes
      /\ UNCHANGED <<standalone, configured, serialOn, cardIn, cardReady, held, left>>
  BY DEF EVENT_USB_Device_Connect
<1>2. CASE EmptyRings /\ raced' = (pc \in {"peek", "sent", "send"})
  <2> USE <1>1, <1>2 DEF EmptyRings
  <2>0. /\ raced' \in BOOLEAN /\ (~raced' => pc \notin {"peek", "sent", "send"})
        /\ pc' = IF pc = "asleep" THEN "loop" ELSE pc
    <3>1. raced' = (pc \in {"peek", "sent", "send"})
      OBVIOUS
    <3>2. raced' \in BOOLEAN /\ (~raced' => pc \notin {"peek", "sent", "send"})
      <4>1. CASE pc \in {"peek", "sent", "send"}
        <5>1. raced' = TRUE
          BY <3>1, <4>1, Zenon
        <5>2. QED
          BY <5>1
      <4>2. CASE pc \notin {"peek", "sent", "send"}
        <5>1. raced' = FALSE
          <6>1. (pc \in {"peek", "sent", "send"}) = FALSE
            BY <4>2
          <6>2. QED
            BY <3>1, <6>1, Zenon
        <5>2. QED
          BY <4>2, <5>1
      <4>3. QED
        BY <4>1, <4>2
    <3>3. QED
      BY <3>2 DEF Wakes
  <2>1. ScalarsTyped'
    BY <2>0 DEF BridgeInv, ScalarsTyped, Places
  <2>2. RingsTyped'
    BY NewRingTyped DEF RingsTyped, Aligned
  <2>3. CountsFit'
    BY <2>0, NewRingTyped, RingAssumption DEF CountsFit
  <2>4. Content(toUsb)' = <<>> /\ Content(toSerial)' = <<>>
    BY NewRingTyped DEF Content
  <2>5. BytesInOrder'
    BY <2>4 DEF BytesInOrder
  <2>6. QED
    BY <2>1, <2>2, <2>3, <2>5 DEF BridgeInv
<1>3. CASE UNCHANGED <<rings, raced>>
  <2> USE <1>1, <1>3 DEF rings
  <2>1. ScalarsTyped'
    BY DEF BridgeInv, ScalarsTyped, Places, Wakes
  <2>2. RingsTyped' /\ BytesInOrder'
    BY DEF BridgeInv, RingsTyped, Aligned, BytesInOrder, Content
  <2>3. CountsFit'
    BY DEF BridgeInv, CountsFit, Wakes
  <2>4. QED
    BY <2>1, <2>2, <2>3 DEF BridgeInv
<1>4. QED
  BY <1>2, <1>3 DEF EVENT_USB_Device_Connect

LEMMA BridgeInvKept == BridgeInv /\ [BridgeNext]_bridgeVars => BridgeInv'
<1> SUFFICES ASSUME BridgeInv, [BridgeNext]_bridgeVars PROVE BridgeInv'
  OBVIOUS
<1>1. CASE Quiet
  BY <1>1, QuietKeeps
<1>2. CASE InsertReceived
  BY <1>2, InsertReceivedKeeps
<1>3. CASE SendToSerial
  BY <1>3, SendToSerialKeeps
<1>4. CASE RemoveSent
  BY <1>4, RemoveSentKeeps
<1>5. CASE USART1_RX
  BY <1>5, USART1_RXKeeps
<1>6. CASE EVENT_USB_Device_Connect
  BY <1>6, ConnectKeeps
<1>7. QED
  BY <1>1, <1>2, <1>3, <1>4, <1>5, <1>6 DEF BridgeNext, Main, Quiet

\* The counts and indices of the rings keep together, whatever comes on either line.
THEOREM BridgeTypeCorrect == BridgeSpec => []BridgeTypeOK
BY BridgeInitial, BridgeInvKept, BridgeInvTyped, PTL DEF BridgeSpec

\* No byte is lost, doubled or put before another, but for an overrun and a connection at
\* the wrong moment, for every size of the rings.
THEOREM BytesInOrderAlways == BridgeSpec => []BytesInOrder
<1>1. BridgeInv => BytesInOrder
  BY DEF BridgeInv
<1>2. QED
  BY <1>1, BridgeInitial, BridgeInvKept, PTL DEF BridgeSpec
=============================================================================
