------------------------- MODULE MassStorageProofs -------------------------
(***************************************************************************)
(* The mass storage firmware for any cards, addresses and lengths of       *)
(* commands, and any number of disconnections and changes of the card.     *)
(***************************************************************************)
EXTENDS MassStorage, TLAPS

\* The task is between the command block it has taken and the status it owes.
Busy == pc \in {"decode", "blocks", "waitOut", "waitIn", "status"}

\* The types in five parts; a status is one that the host knows, and only a connected
\* device is seen by the host.
HostSet == [phase : {"off", "enumerate", "idle", "wait", "recover"}, cmd : CommandSet,
            last : {"unknown", "Pass", "Fail"}, late : BOOLEAN, sending : BOOLEAN]
HostTyped == host \in HostSet
CommandTyped == cbw \in CommandSet
BanksTyped ==
  /\ outBank \in Banks /\ outBank.what # "status"
  /\ inBank \in Banks /\ inBank.what # "command"
  /\ inBank.what = "status" => inBank.value \in {"Pass", "Fail"}
FlagsTyped ==
  /\ configured \in BOOLEAN /\ cardReady \in BOOLEAN /\ isReset \in BOOLEAN /\ passed \in BOOLEAN
  /\ outStalled \in BOOLEAN /\ inStalled \in BOOLEAN /\ carried \in BOOLEAN
ScalarsTyped ==
  /\ state \in {"IDLE", "CONNECTED"}
  /\ pc \in {"loop", "drowsy", "asleep", "init", "task", "decode", "blocks", "waitOut",
             "waitIn", "status", "endTask"}
  /\ sense \in SenseKeys /\ cached \in 0 .. WrapBlocks - 1 /\ card \in Cards \cup {0}
  /\ events \in 0 .. MaxEvents
  /\ configured => state = "CONNECTED"
  /\ host.phase # "off" => state = "CONNECTED"

TypeInv == HostTyped /\ CommandTyped /\ BanksTyped /\ FlagsTyped /\ ScalarsTyped

\* A reset is pending only until the host that asked for it is gone or has seen it,
\* and then the task is not in a command.
ResetInv ==
  /\ isReset => host.phase \in {"off", "recover"}
  /\ host.phase \in {"off", "enumerate", "recover"} => host.last = "unknown"
  /\ ~carried /\ host.phase = "recover" /\ ~isReset => ~Busy /\ outBank = Empty

\* Between two commands the pipes are clean and the task is idle.
IdleInv ==
  ~carried /\ host.phase = "idle" =>
    outBank = Empty /\ inBank = Empty /\ ~outStalled /\ ~inStalled /\ ~Busy

\* What the OUT pipe holds while the host waits: the command, the data of a WRITE
\* that the task has not refused yet, or nothing.
OutInv ==
  ~carried /\ host.phase = "wait" =>
    /\ outBank.what = "empty" => outBank = Empty
    /\ outBank.what = "command" => ~Busy /\ inBank = Empty
    /\ outBank.what = "command" /\ outBank.value # "badBlock" => ~outStalled /\ ~inStalled
    /\ outBank.what = "data" => Busy /\ host.cmd.kind = "write"
    /\ host.sending => host.cmd.kind = "write" /\ (Busy \/ outBank.what = "command")

\* What the IN pipe holds belongs to the command, and the status comes last.
InInv ==
  ~carried /\ host.phase = "wait" =>
    /\ inBank # Empty => inBank.tag = host.cmd.tag
    /\ inBank.what = "status" =>
         /\ ~Busy /\ outBank = Empty /\ ~outStalled /\ ~inStalled /\ ~host.sending
         /\ inBank.value = "Pass" <=> sense = "GOOD"

\* How far the task is with the command: each wait of ReturnCommandStatus() is over
\* only when its pipe is clear.
TaskInv ==
  ~carried /\ host.phase = "wait" =>
    /\ Busy => cbw.tag = host.cmd.tag /\ cbw.kind = host.cmd.kind
    /\ pc \in {"decode", "blocks"} => ~outStalled /\ ~inStalled
    /\ pc = "blocks" => cbw.kind = "read"
    /\ pc = "waitOut" /\ ~outStalled => outBank = Empty /\ ~host.sending
    /\ pc \in {"waitIn", "status"} => outBank = Empty /\ ~outStalled /\ ~host.sending
    /\ pc = "status" => ~inStalled
    /\ pc \in {"waitOut", "waitIn", "status"} => (passed <=> sense = "GOOD")

WireInv == ResetInv /\ IdleInv /\ OutInv /\ InInv /\ TaskInv /\ SenseIsOfLastCommand

-----------------------------------------------------------------------------

\* The fields of an empty bank.
LEMMA EmptyFields == Empty.what = "empty" /\ Empty.tag = 0 /\ Empty.value = "none"
  BY DEF Empty

\* The packets and commands that the model is built from have their types.
LEMMA Values ==
  /\ Empty \in Banks /\ NoCommand \in CommandSet
  /\ \A w \in {"command", "data", "status"}, t \in Tags, v \in {"none", "data", "Pass", "Fail", "badBlock"} \cup SenseKeys :
        Packet(w, t, v) \in Banks /\ Packet(w, t, v).what = w /\ Packet(w, t, v).value = v
  /\ \A k \in AllKinds, t \in Tags, a, n \in Nat : Command(k, t, a, n) \in CommandSet
  /\ {"GOOD", "ILLEGAL_REQUEST", "DATA_PROTECT"} = SenseKeys
  BY DEF Empty, Banks, NoCommand, CommandSet, Packet, Command, Tags, AllKinds, SenseKeys

\* The updates of what the host knows keep its type.
LEMMA HostUpdates ==
  ASSUME NEW h \in HostSet, NEW v \in {"Pass", "Fail"}, NEW c \in CommandSet, NEW b \in BOOLEAN
  PROVE  /\ [h EXCEPT !.late = TRUE] \in HostSet
         /\ [h EXCEPT !.phase = "enumerate"] \in HostSet
         /\ [h EXCEPT !.phase = "idle"] \in HostSet
         /\ [h EXCEPT !.phase = "recover", !.last = "unknown"] \in HostSet
         /\ [h EXCEPT !.phase = "idle", !.last = v] \in HostSet
         /\ [h EXCEPT !.sending = FALSE] \in HostSet
         /\ [phase |-> "off", cmd |-> c, last |-> "unknown", late |-> FALSE, sending |-> FALSE] \in HostSet
         /\ [phase |-> "wait", cmd |-> c, last |-> h.last, late |-> FALSE, sending |-> b] \in HostSet
  BY DEF HostSet

\* The command with one block less to serve is a command.
LEMMA NextBlock ==
  ASSUME NEW c \in CommandSet, c.n > 0
  PROVE  [c EXCEPT !.addr = @ + 1, !.n = @ - 1] \in CommandSet
<1>1. c.n - 1 \in Nat /\ c.addr + 1 \in Nat /\ c.kind \in AllKinds /\ c.tag \in Tags
  BY DEF CommandSet
<1>2. \A x, y \in Nat : [c EXCEPT !.addr = x, !.n = y] \in CommandSet
  BY DEF CommandSet
<1>3. [c EXCEPT !.addr = c.addr + 1, !.n = c.n - 1] \in CommandSet
  BY <1>1, <1>2
<1>4. QED
  BY <1>3

\* The size of a card is a number of 32 bits.
LEMMA SizeFits == ScalarsTyped => NbBlocks \in 0 .. WrapBlocks - 1
  BY MassStorageAssumption DEF ScalarsTyped, NbBlocks

\* The fields of a record that has its type.
LEMMA Fields ==
  ASSUME TypeInv
  PROVE  /\ DOMAIN host = {"phase", "cmd", "last", "late", "sending"}
         /\ DOMAIN cbw = {"kind", "tag", "addr", "n"}
         /\ host.cmd \in CommandSet /\ host.cmd.kind \in AllKinds /\ host.cmd.tag \in Tags
         /\ host.phase \in {"off", "enumerate", "idle", "wait", "recover"}
         /\ host.sending \in BOOLEAN /\ host.late \in BOOLEAN /\ host.last \in {"unknown", "Pass", "Fail"}
         /\ cbw.kind \in AllKinds /\ cbw.tag \in Tags /\ cbw.addr \in Nat /\ cbw.n \in Nat
         /\ outBank.what \in {"empty", "command", "data"}
         /\ inBank.what \in {"empty", "data", "status"}
         /\ inBank.what = "status" => inBank.value \in {"Pass", "Fail"}
  BY DEF TypeInv, HostTyped, HostSet, CommandTyped, CommandSet, BanksTyped, Banks

\* What a new command of the host is.
LEMMA NewCommand ==
  ASSUME TypeInv, HostCommands
  PROVE  /\ host' \in HostSet /\ host'.phase = "wait" /\ host'.last = host.last
         /\ outBank' \in Banks /\ outBank'.what = "command"
         /\ host'.sending => host'.cmd.kind = "write"
<1>1. PICK k \in Kinds :
        \E a \in IF k = "read" THEN Addresses ELSE {0}, n \in IF k = "read" THEN Counts ELSE {0} :
          /\ host' = [phase |-> "wait", cmd |-> Command(k, NextTag, a, n), last |-> host.last,
                      late |-> FALSE, sending |-> k = "write"]
          /\ outBank' = Packet("command", NextTag, IF k = "badBlock" THEN k ELSE "none")
  BY DEF HostCommands
<1>2. PICK a \in IF k = "read" THEN Addresses ELSE {0}, n \in IF k = "read" THEN Counts ELSE {0} :
          /\ host' = [phase |-> "wait", cmd |-> Command(k, NextTag, a, n), last |-> host.last,
                      late |-> FALSE, sending |-> k = "write"]
          /\ outBank' = Packet("command", NextTag, IF k = "badBlock" THEN k ELSE "none")
  BY <1>1
<1>3. k \in AllKinds /\ a \in Nat /\ n \in Nat
  BY MassStorageAssumption
<1>4. NextTag \in Tags
  BY Fields DEF NextTag, Tags
<1>5. Command(k, NextTag, a, n) \in CommandSet /\ Command(k, NextTag, a, n).kind = k
  BY <1>3, <1>4, Values DEF Command
<1>6. outBank' \in Banks /\ outBank'.what = "command"
  BY <1>2, <1>4, Values
<1>7. host' \in HostSet
  <2>1. (k = "write") \in BOOLEAN
    OBVIOUS
  <2>2. host \in HostSet
    BY DEF TypeInv, HostTyped
  <2>3. QED
    BY <1>2, <1>5, <2>1, <2>2, HostUpdates, Zenon
<1>8. /\ host'.phase = "wait" /\ host'.last = host.last
      /\ host'.cmd = Command(k, NextTag, a, n) /\ host'.sending = (k = "write")
  BY <1>2, Zenon
<1>9. host'.sending => host'.cmd.kind = "write"
  BY <1>5, <1>8
<1>10. QED
  BY <1>6, <1>7, <1>8, <1>9

\* The initial states have the types.
LEMMA TypeInit == Init => TypeInv
<1> SUFFICES ASSUME Init PROVE TypeInv
  OBVIOUS
<1>1. HostTyped
  BY Values DEF Init, HostTyped, HostSet
<1>2. CommandTyped
  BY Values DEF Init, CommandTyped
<1>3. BanksTyped
  BY Values, EmptyFields DEF Init, BanksTyped
<1>4. FlagsTyped
  BY DEF Init, FlagsTyped
<1>5. ScalarsTyped
  BY MassStorageAssumption, Values DEF Init, ScalarsTyped
<1>6. QED
  BY <1>1, <1>2, <1>3, <1>4, <1>5 DEF TypeInv

\* Every step keeps the types.
LEMMA TypesKept ==
  ASSUME TypeInv, [Next]_vars
  PROVE  TypeInv'
<1> USE MassStorageAssumption, Values, EmptyFields, SizeFits, Fields DEF TypeInv, HostTyped, CommandTyped, BanksTyped, FlagsTyped, ScalarsTyped
<1>1. CASE LoopTest
  <2>1. HostTyped'
    BY <1>1, HostUpdates DEF LoopTest, GoTo, pipes
  <2>2. CommandTyped'
    BY <1>1, NextBlock DEF LoopTest, GoTo, pipes
  <2>3. BanksTyped'
    BY <1>1 DEF LoopTest, GoTo, pipes
  <2>4. FlagsTyped'
    BY <1>1 DEF LoopTest, GoTo, pipes
  <2>5. ScalarsTyped'
    BY <1>1 DEF LoopTest, GoTo, pipes
  <2>6. QED
    BY <2>1, <2>2, <2>3, <2>4, <2>5
<1>2. CASE GoToSleep
  <2>1. HostTyped'
    BY <1>2, HostUpdates DEF GoToSleep, GoTo, pipes
  <2>2. CommandTyped'
    BY <1>2, NextBlock DEF GoToSleep, GoTo, pipes
  <2>3. BanksTyped'
    BY <1>2 DEF GoToSleep, GoTo, pipes
  <2>4. FlagsTyped'
    BY <1>2 DEF GoToSleep, GoTo, pipes
  <2>5. ScalarsTyped'
    BY <1>2 DEF GoToSleep, GoTo, pipes
  <2>6. QED
    BY <2>1, <2>2, <2>3, <2>4, <2>5
<1>3. CASE SDCardManager_Init
  <2>1. HostTyped'
    BY <1>3, HostUpdates DEF SDCardManager_Init, GoTo, pipes
  <2>2. CommandTyped'
    BY <1>3, NextBlock DEF SDCardManager_Init, GoTo, pipes
  <2>3. BanksTyped'
    BY <1>3 DEF SDCardManager_Init, GoTo, pipes
  <2>4. FlagsTyped'
    BY <1>3 DEF SDCardManager_Init, GoTo, pipes
  <2>5. ScalarsTyped'
    BY <1>3 DEF SDCardManager_Init, GoTo, pipes
  <2>6. QED
    BY <2>1, <2>2, <2>3, <2>4, <2>5
<1>4. CASE ReadInCommandBlock
  <2>1. HostTyped'
    BY <1>4, HostUpdates DEF ReadInCommandBlock, GoTo, pipes
  <2>2. CommandTyped'
    BY <1>4, NextBlock DEF ReadInCommandBlock, GoTo, pipes
  <2>3. BanksTyped'
    BY <1>4 DEF ReadInCommandBlock, GoTo, pipes
  <2>4. FlagsTyped'
    BY <1>4 DEF ReadInCommandBlock, GoTo, pipes
  <2>5. ScalarsTyped'
    BY <1>4 DEF ReadInCommandBlock, GoTo, pipes
  <2>6. QED
    BY <2>1, <2>2, <2>3, <2>4, <2>5
<1>5. CASE SCSI_DecodeSCSICommand
  <2>0. pc = "decode" /\ UNCHANGED <<state, cardReady, cbw, configured, isReset, card, host, carried, events>>
    BY <1>5 DEF SCSI_DecodeSCSICommand
  <2>1. CASE Inquiry
    <3>1. HostTyped'
      BY <2>0, <2>1, HostUpdates DEF Inquiry, Answer, Packet, Pass, GoTo, pipes
    <3>2. CommandTyped'
      BY <2>0, <2>1, NextBlock DEF Inquiry, Answer, Packet, Pass, GoTo, pipes
    <3>3. BanksTyped'
      BY <2>0, <2>1 DEF Inquiry, Answer, Packet, Pass, GoTo, pipes
    <3>4. FlagsTyped'
      BY <2>0, <2>1 DEF Inquiry, Answer, Packet, Pass, GoTo, pipes
    <3>5. ScalarsTyped'
      BY <2>0, <2>1 DEF Inquiry, Answer, Packet, Pass, GoTo, pipes
    <3>6. QED
      BY <3>1, <3>2, <3>3, <3>4, <3>5
  <2>2. CASE ModeSense
    <3>1. HostTyped'
      BY <2>0, <2>2, HostUpdates DEF ModeSense, Answer, Packet, Pass, GoTo, pipes
    <3>2. CommandTyped'
      BY <2>0, <2>2, NextBlock DEF ModeSense, Answer, Packet, Pass, GoTo, pipes
    <3>3. BanksTyped'
      BY <2>0, <2>2 DEF ModeSense, Answer, Packet, Pass, GoTo, pipes
    <3>4. FlagsTyped'
      BY <2>0, <2>2 DEF ModeSense, Answer, Packet, Pass, GoTo, pipes
    <3>5. ScalarsTyped'
      BY <2>0, <2>2 DEF ModeSense, Answer, Packet, Pass, GoTo, pipes
    <3>6. QED
      BY <3>1, <3>2, <3>3, <3>4, <3>5
  <2>3. CASE RequestSense
    <3>1. HostTyped'
      BY <2>0, <2>3, HostUpdates DEF RequestSense, Answer, Packet, Pass, GoTo, pipes
    <3>2. CommandTyped'
      BY <2>0, <2>3, NextBlock DEF RequestSense, Answer, Packet, Pass, GoTo, pipes
    <3>3. BanksTyped'
      BY <2>0, <2>3 DEF RequestSense, Answer, Packet, Pass, GoTo, pipes
    <3>4. FlagsTyped'
      BY <2>0, <2>3 DEF RequestSense, Answer, Packet, Pass, GoTo, pipes
    <3>5. ScalarsTyped'
      BY <2>0, <2>3 DEF RequestSense, Answer, Packet, Pass, GoTo, pipes
    <3>6. QED
      BY <3>1, <3>2, <3>3, <3>4, <3>5
  <2>4. CASE ReadCapacity
    <3>1. HostTyped'
      BY <2>0, <2>4, HostUpdates DEF ReadCapacity, Answer, Packet, Pass, AskNbBlocks, GoTo, pipes
    <3>2. CommandTyped'
      BY <2>0, <2>4, NextBlock DEF ReadCapacity, Answer, Packet, Pass, AskNbBlocks, GoTo, pipes
    <3>3. BanksTyped'
      BY <2>0, <2>4 DEF ReadCapacity, Answer, Packet, Pass, AskNbBlocks, GoTo, pipes
    <3>4. FlagsTyped'
      BY <2>0, <2>4 DEF ReadCapacity, Answer, Packet, Pass, AskNbBlocks, GoTo, pipes
    <3>5. ScalarsTyped'
      BY <2>0, <2>4 DEF ReadCapacity, Answer, Packet, Pass, AskNbBlocks, GoTo, pipes
    <3>6. QED
      BY <3>1, <3>2, <3>3, <3>4, <3>5
  <2>5. CASE NothingToDo
    <3>1. HostTyped'
      BY <2>0, <2>5, HostUpdates DEF NothingToDo, Pass, GoTo, pipes
    <3>2. CommandTyped'
      BY <2>0, <2>5, NextBlock DEF NothingToDo, Pass, GoTo, pipes
    <3>3. BanksTyped'
      BY <2>0, <2>5 DEF NothingToDo, Pass, GoTo, pipes
    <3>4. FlagsTyped'
      BY <2>0, <2>5 DEF NothingToDo, Pass, GoTo, pipes
    <3>5. ScalarsTyped'
      BY <2>0, <2>5 DEF NothingToDo, Pass, GoTo, pipes
    <3>6. QED
      BY <3>1, <3>2, <3>3, <3>4, <3>5
  <2>6. CASE Illegal
    <3>1. HostTyped'
      BY <2>0, <2>6, HostUpdates DEF Illegal, Fail, StallOnFailure, Residue, GoTo, pipes
    <3>2. CommandTyped'
      BY <2>0, <2>6, NextBlock DEF Illegal, Fail, StallOnFailure, Residue, GoTo, pipes
    <3>3. BanksTyped'
      BY <2>0, <2>6 DEF Illegal, Fail, StallOnFailure, Residue, GoTo, pipes
    <3>4. FlagsTyped'
      BY <2>0, <2>6 DEF Illegal, Fail, StallOnFailure, Residue, GoTo, pipes
    <3>5. ScalarsTyped'
      BY <2>0, <2>6 DEF Illegal, Fail, StallOnFailure, Residue, GoTo, pipes
    <3>6. QED
      BY <3>1, <3>2, <3>3, <3>4, <3>5
  <2>7. CASE WriteProtected
    <3>1. HostTyped'
      BY <2>0, <2>7, HostUpdates DEF WriteProtected, Fail, StallOnFailure, Residue, GoTo, pipes
    <3>2. CommandTyped'
      BY <2>0, <2>7, NextBlock DEF WriteProtected, Fail, StallOnFailure, Residue, GoTo, pipes
    <3>3. BanksTyped'
      BY <2>0, <2>7 DEF WriteProtected, Fail, StallOnFailure, Residue, GoTo, pipes
    <3>4. FlagsTyped'
      BY <2>0, <2>7 DEF WriteProtected, Fail, StallOnFailure, Residue, GoTo, pipes
    <3>5. ScalarsTyped'
      BY <2>0, <2>7 DEF WriteProtected, Fail, StallOnFailure, Residue, GoTo, pipes
    <3>6. QED
      BY <3>1, <3>2, <3>3, <3>4, <3>5
  <2>8. CASE Read10
    <3>1. HostTyped'
      BY <2>0, <2>8, HostUpdates DEF Read10, Fail, StallOnFailure, Residue, AskNbBlocks, GoTo, pipes
    <3>2. CommandTyped'
      BY <2>0, <2>8, NextBlock DEF Read10, Fail, StallOnFailure, Residue, AskNbBlocks, GoTo, pipes
    <3>3. BanksTyped'
      BY <2>0, <2>8 DEF Read10, Fail, StallOnFailure, Residue, AskNbBlocks, GoTo, pipes
    <3>4. FlagsTyped'
      BY <2>0, <2>8 DEF Read10, Fail, StallOnFailure, Residue, AskNbBlocks, GoTo, pipes
    <3>5. ScalarsTyped'
      BY <2>0, <2>8 DEF Read10, Fail, StallOnFailure, Residue, AskNbBlocks, GoTo, pipes
    <3>6. QED
      BY <3>1, <3>2, <3>3, <3>4, <3>5
  <2>9. QED
    BY <1>5, <2>1, <2>2, <2>3, <2>4, <2>5, <2>6, <2>7, <2>8 DEF SCSI_DecodeSCSICommand
<1>6. CASE HandBlock
  <2>1. HostTyped'
    <3>1. host' = host \/ host' = [host EXCEPT !.late = TRUE]
      BY <1>6 DEF HandBlock
    <3>2. [host EXCEPT !.late = TRUE] \in HostSet
      BY HostUpdates
    <3>3. QED
      BY <3>1, <3>2
  <2>2. CommandTyped'
    BY <1>6, NextBlock DEF HandBlock, BlockRead, BankFree, Packet, pipes
  <2>3. BanksTyped'
    BY <1>6 DEF HandBlock, BlockRead, BankFree, Packet, pipes
  <2>4. FlagsTyped'
    BY <1>6 DEF HandBlock, BlockRead, BankFree, Packet, pipes
  <2>5. ScalarsTyped'
    BY <1>6 DEF HandBlock, BlockRead, BankFree, Packet, pipes
  <2>6. QED
    BY <2>1, <2>2, <2>3, <2>4, <2>5
<1>7. CASE BlocksDone
  <2>1. HostTyped'
    BY <1>7, HostUpdates DEF BlocksDone, Pass, GoTo, pipes
  <2>2. CommandTyped'
    BY <1>7, NextBlock DEF BlocksDone, Pass, GoTo, pipes
  <2>3. BanksTyped'
    BY <1>7 DEF BlocksDone, Pass, GoTo, pipes
  <2>4. FlagsTyped'
    BY <1>7 DEF BlocksDone, Pass, GoTo, pipes
  <2>5. ScalarsTyped'
    BY <1>7 DEF BlocksDone, Pass, GoTo, pipes
  <2>6. QED
    BY <2>1, <2>2, <2>3, <2>4, <2>5
<1>8. CASE AwaitOut
  <2>1. HostTyped'
    BY <1>8, HostUpdates DEF AwaitOut, GoTo, pipes
  <2>2. CommandTyped'
    BY <1>8, NextBlock DEF AwaitOut, GoTo, pipes
  <2>3. BanksTyped'
    BY <1>8 DEF AwaitOut, GoTo, pipes
  <2>4. FlagsTyped'
    BY <1>8 DEF AwaitOut, GoTo, pipes
  <2>5. ScalarsTyped'
    BY <1>8 DEF AwaitOut, GoTo, pipes
  <2>6. QED
    BY <2>1, <2>2, <2>3, <2>4, <2>5
<1>9. CASE AwaitIn
  <2>1. HostTyped'
    BY <1>9, HostUpdates DEF AwaitIn, GoTo, pipes
  <2>2. CommandTyped'
    BY <1>9, NextBlock DEF AwaitIn, GoTo, pipes
  <2>3. BanksTyped'
    BY <1>9 DEF AwaitIn, GoTo, pipes
  <2>4. FlagsTyped'
    BY <1>9 DEF AwaitIn, GoTo, pipes
  <2>5. ScalarsTyped'
    BY <1>9 DEF AwaitIn, GoTo, pipes
  <2>6. QED
    BY <2>1, <2>2, <2>3, <2>4, <2>5
<1>10. CASE SendStatus
  <2>1. HostTyped'
    <3>1. host' = host \/ host' = [host EXCEPT !.late = TRUE]
      BY <1>10 DEF SendStatus
    <3>2. [host EXCEPT !.late = TRUE] \in HostSet
      BY HostUpdates
    <3>3. QED
      BY <3>1, <3>2
  <2>2. CommandTyped'
    BY <1>10, NextBlock DEF SendStatus, GoTo, BankFree, StatusPacket, Packet, pipes
  <2>3. BanksTyped'
    BY <1>10 DEF SendStatus, GoTo, BankFree, StatusPacket, Packet, pipes
  <2>4. FlagsTyped'
    BY <1>10 DEF SendStatus, GoTo, BankFree, StatusPacket, Packet, pipes
  <2>5. ScalarsTyped'
    BY <1>10 DEF SendStatus, GoTo, BankFree, StatusPacket, Packet, pipes
  <2>6. QED
    BY <2>1, <2>2, <2>3, <2>4, <2>5
<1>11. CASE EndTask
  <2>1. HostTyped'
    BY <1>11, HostUpdates DEF EndTask, GoTo, ResetEndpoints, NoCommand, Command, pipes
  <2>2. CommandTyped'
    BY <1>11, NextBlock DEF EndTask, GoTo, ResetEndpoints, NoCommand, Command, pipes
  <2>3. BanksTyped'
    BY <1>11 DEF EndTask, GoTo, ResetEndpoints, NoCommand, Command, pipes
  <2>4. FlagsTyped'
    BY <1>11 DEF EndTask, GoTo, ResetEndpoints, NoCommand, Command, pipes
  <2>5. ScalarsTyped'
    BY <1>11 DEF EndTask, GoTo, ResetEndpoints, NoCommand, Command, pipes
  <2>6. QED
    BY <2>1, <2>2, <2>3, <2>4, <2>5
<1>12. CASE EVENT_USB_Device_Connect
  <2>1. HostTyped'
    BY <1>12, HostUpdates DEF EVENT_USB_Device_Connect, Wakes, Handle, pipes
  <2>2. CommandTyped'
    BY <1>12, NextBlock DEF EVENT_USB_Device_Connect, Wakes, Handle, pipes
  <2>3. BanksTyped'
    BY <1>12 DEF EVENT_USB_Device_Connect, Wakes, Handle, pipes
  <2>4. FlagsTyped'
    BY <1>12 DEF EVENT_USB_Device_Connect, Wakes, Handle, pipes
  <2>5. ScalarsTyped'
    BY <1>12 DEF EVENT_USB_Device_Connect, Wakes, Handle, pipes
  <2>6. QED
    BY <2>1, <2>2, <2>3, <2>4, <2>5
<1>13. CASE EVENT_USB_Device_Disconnect
  <2>1. HostTyped'
    BY <1>13, HostUpdates DEF EVENT_USB_Device_Disconnect, Wakes, Handle, NoCommand, Command, pipes
  <2>2. CommandTyped'
    BY <1>13, NextBlock DEF EVENT_USB_Device_Disconnect, Wakes, Handle, NoCommand, Command, pipes
  <2>3. BanksTyped'
    BY <1>13 DEF EVENT_USB_Device_Disconnect, Wakes, Handle, NoCommand, Command, pipes
  <2>4. FlagsTyped'
    BY <1>13 DEF EVENT_USB_Device_Disconnect, Wakes, Handle, NoCommand, Command, pipes
  <2>5. ScalarsTyped'
    BY <1>13 DEF EVENT_USB_Device_Disconnect, Wakes, Handle, NoCommand, Command, pipes
  <2>6. QED
    BY <2>1, <2>2, <2>3, <2>4, <2>5
<1>14. CASE EVENT_USB_Device_ConfigurationChanged
  <2>1. HostTyped'
    BY <1>14, HostUpdates DEF EVENT_USB_Device_ConfigurationChanged, ResetEndpoints, firmware, pipes
  <2>2. CommandTyped'
    BY <1>14, NextBlock DEF EVENT_USB_Device_ConfigurationChanged, ResetEndpoints, firmware, pipes
  <2>3. BanksTyped'
    BY <1>14 DEF EVENT_USB_Device_ConfigurationChanged, ResetEndpoints, firmware, pipes
  <2>4. FlagsTyped'
    <3>1. carried' \in BOOLEAN
      <4>1. carried' = (pc \in {"decode", "blocks", "waitOut", "waitIn", "status"})
        BY <1>14 DEF EVENT_USB_Device_ConfigurationChanged
      <4>2. (pc \in {"decode", "blocks", "waitOut", "waitIn", "status"}) \in BOOLEAN
        OBVIOUS
      <4>3. QED
        BY <4>1, <4>2, Zenon
    <3>2. QED
      BY <1>14, <3>1 DEF EVENT_USB_Device_ConfigurationChanged, ResetEndpoints, firmware
  <2>5. ScalarsTyped'
    BY <1>14 DEF EVENT_USB_Device_ConfigurationChanged, ResetEndpoints, firmware, pipes
  <2>6. QED
    BY <2>1, <2>2, <2>3, <2>4, <2>5
<1>15. CASE EVENT_USB_Device_ControlRequest
  <2>1. HostTyped'
    BY <1>15, HostUpdates DEF EVENT_USB_Device_ControlRequest, firmware, pipes
  <2>2. CommandTyped'
    BY <1>15, NextBlock DEF EVENT_USB_Device_ControlRequest, firmware, pipes
  <2>3. BanksTyped'
    BY <1>15 DEF EVENT_USB_Device_ControlRequest, firmware, pipes
  <2>4. FlagsTyped'
    BY <1>15 DEF EVENT_USB_Device_ControlRequest, firmware, pipes
  <2>5. ScalarsTyped'
    BY <1>15 DEF EVENT_USB_Device_ControlRequest, firmware, pipes
  <2>6. QED
    BY <2>1, <2>2, <2>3, <2>4, <2>5
<1>16. CASE HostCommands
  <2>1. HostTyped'
    BY <1>16, NewCommand DEF HostCommands
  <2>2. CommandTyped'
    BY <1>16, NextBlock DEF HostCommands, firmware, Command, Packet, NextTag, pipes
  <2>3. BanksTyped'
    BY <1>16, NewCommand DEF HostCommands
  <2>4. FlagsTyped'
    BY <1>16 DEF HostCommands, firmware, Command, Packet, NextTag, pipes
  <2>5. ScalarsTyped'
    BY <1>16 DEF HostCommands, firmware, Command, Packet, NextTag, pipes
  <2>6. QED
    BY <2>1, <2>2, <2>3, <2>4, <2>5
<1>17. CASE HostSendsData
  <2>1. HostTyped'
    BY <1>17, HostUpdates DEF HostSendsData, firmware, Packet, pipes
  <2>2. CommandTyped'
    BY <1>17, NextBlock DEF HostSendsData, firmware, Packet, pipes
  <2>3. BanksTyped'
    BY <1>17 DEF HostSendsData, firmware, Packet, pipes
  <2>4. FlagsTyped'
    BY <1>17 DEF HostSendsData, firmware, Packet, pipes
  <2>5. ScalarsTyped'
    BY <1>17 DEF HostSendsData, firmware, Packet, pipes
  <2>6. QED
    BY <2>1, <2>2, <2>3, <2>4, <2>5
<1>18. CASE HostTakes
  <2>1. HostTyped'
    BY <1>18, HostUpdates DEF HostTakes, firmware, pipes
  <2>2. CommandTyped'
    BY <1>18, NextBlock DEF HostTakes, firmware, pipes
  <2>3. BanksTyped'
    BY <1>18 DEF HostTakes, firmware, pipes
  <2>4. FlagsTyped'
    BY <1>18 DEF HostTakes, firmware, pipes
  <2>5. ScalarsTyped'
    BY <1>18 DEF HostTakes, firmware, pipes
  <2>6. QED
    BY <2>1, <2>2, <2>3, <2>4, <2>5
<1>19. CASE HostClearsHalt
  <2>1. HostTyped'
    BY <1>19, HostUpdates DEF HostClearsHalt, firmware, pipes
  <2>2. CommandTyped'
    BY <1>19, NextBlock DEF HostClearsHalt, firmware, pipes
  <2>3. BanksTyped'
    BY <1>19 DEF HostClearsHalt, firmware, pipes
  <2>4. FlagsTyped'
    BY <1>19 DEF HostClearsHalt, firmware, pipes
  <2>5. ScalarsTyped'
    BY <1>19 DEF HostClearsHalt, firmware, pipes
  <2>6. QED
    BY <2>1, <2>2, <2>3, <2>4, <2>5
<1>20. CASE HostRecovers
  <2>1. HostTyped'
    BY <1>20, HostUpdates DEF HostRecovers, firmware, ResetEndpoints, pipes
  <2>2. CommandTyped'
    BY <1>20, NextBlock DEF HostRecovers, firmware, ResetEndpoints, pipes
  <2>3. BanksTyped'
    BY <1>20 DEF HostRecovers, firmware, ResetEndpoints, pipes
  <2>4. FlagsTyped'
    BY <1>20 DEF HostRecovers, firmware, ResetEndpoints, pipes
  <2>5. ScalarsTyped'
    BY <1>20 DEF HostRecovers, firmware, ResetEndpoints, pipes
  <2>6. QED
    BY <2>1, <2>2, <2>3, <2>4, <2>5
<1>21. CASE ChangeCard
  <2>1. HostTyped'
    BY <1>21, HostUpdates DEF ChangeCard, Handle, firmware, pipes
  <2>2. CommandTyped'
    BY <1>21, NextBlock DEF ChangeCard, Handle, firmware, pipes
  <2>3. BanksTyped'
    BY <1>21 DEF ChangeCard, Handle, firmware, pipes
  <2>4. FlagsTyped'
    BY <1>21 DEF ChangeCard, Handle, firmware, pipes
  <2>5. ScalarsTyped'
    BY <1>21 DEF ChangeCard, Handle, firmware, pipes
  <2>6. QED
    BY <2>1, <2>2, <2>3, <2>4, <2>5
<1>22. CASE UNCHANGED vars
  BY <1>22 DEF vars, firmware, pipes
<1>23. QED
  BY <1>1, <1>2, <1>3, <1>4, <1>5, <1>6, <1>7, <1>8, <1>9, <1>10, <1>11, <1>12, <1>13, <1>14, <1>15, <1>16, <1>17, <1>18, <1>19, <1>20, <1>21, <1>22 DEF Next, Main, Task, HostAnswers

-----------------------------------------------------------------------------

\* Initially nothing is on the wire.
LEMMA WireInit == Init => WireInv
  BY DEF Init, WireInv, ResetInv, IdleInv, OutInv, InInv, TaskInv, SenseIsOfLastCommand, Busy, Empty

\* Every step of the task, the host and the cable keeps the two ends of the wire in step.
LEMMA WireKept ==
  ASSUME TypeInv, WireInv, [Next]_vars
  PROVE  WireInv'
<1> USE Fields, EmptyFields DEF WireInv, ResetInv, IdleInv, OutInv, InInv, TaskInv, SenseIsOfLastCommand, Busy
<1>1. CASE LoopTest
  <2>1. ResetInv'
    BY <1>1 DEF LoopTest, GoTo, pipes
  <2>2. IdleInv'
    BY <1>1 DEF LoopTest, GoTo, pipes
  <2>3. OutInv'
    BY <1>1 DEF LoopTest, GoTo, pipes
  <2>4. InInv'
    BY <1>1 DEF LoopTest, GoTo, pipes
  <2>5. TaskInv'
    BY <1>1 DEF LoopTest, GoTo, pipes
  <2>6. SenseIsOfLastCommand'
    BY <1>1 DEF LoopTest, GoTo, pipes
  <2>7. QED
    BY <2>1, <2>2, <2>3, <2>4, <2>5, <2>6
<1>2. CASE GoToSleep
  <2>1. ResetInv'
    BY <1>2 DEF GoToSleep, GoTo, pipes
  <2>2. IdleInv'
    BY <1>2 DEF GoToSleep, GoTo, pipes
  <2>3. OutInv'
    BY <1>2 DEF GoToSleep, GoTo, pipes
  <2>4. InInv'
    BY <1>2 DEF GoToSleep, GoTo, pipes
  <2>5. TaskInv'
    BY <1>2 DEF GoToSleep, GoTo, pipes
  <2>6. SenseIsOfLastCommand'
    BY <1>2 DEF GoToSleep, GoTo, pipes
  <2>7. QED
    BY <2>1, <2>2, <2>3, <2>4, <2>5, <2>6
<1>3. CASE SDCardManager_Init
  <2>1. ResetInv'
    BY <1>3 DEF SDCardManager_Init, GoTo, pipes
  <2>2. IdleInv'
    BY <1>3 DEF SDCardManager_Init, GoTo, pipes
  <2>3. OutInv'
    BY <1>3 DEF SDCardManager_Init, GoTo, pipes
  <2>4. InInv'
    BY <1>3 DEF SDCardManager_Init, GoTo, pipes
  <2>5. TaskInv'
    BY <1>3 DEF SDCardManager_Init, GoTo, pipes
  <2>6. SenseIsOfLastCommand'
    BY <1>3 DEF SDCardManager_Init, GoTo, pipes
  <2>7. QED
    BY <2>1, <2>2, <2>3, <2>4, <2>5, <2>6
<1>4. CASE ReadInCommandBlock
  <2>1. ResetInv'
    BY <1>4 DEF ReadInCommandBlock, GoTo, pipes
  <2>2. IdleInv'
    BY <1>4 DEF ReadInCommandBlock, GoTo, pipes
  <2>3. OutInv'
    BY <1>4 DEF ReadInCommandBlock, GoTo, pipes
  <2>4. InInv'
    BY <1>4 DEF ReadInCommandBlock, GoTo, pipes
  <2>5. TaskInv'
    BY <1>4 DEF ReadInCommandBlock, GoTo, pipes
  <2>6. SenseIsOfLastCommand'
    BY <1>4 DEF ReadInCommandBlock, GoTo, pipes
  <2>7. QED
    BY <2>1, <2>2, <2>3, <2>4, <2>5, <2>6
<1>5. CASE SCSI_DecodeSCSICommand
  <2>0. pc = "decode" /\ UNCHANGED <<state, cardReady, cbw, configured, isReset, card, host, carried, events>>
    BY <1>5 DEF SCSI_DecodeSCSICommand
  <2>1. CASE Inquiry
    <3>1. ResetInv'
      BY <2>0, <2>1 DEF Inquiry, Answer, Packet, Pass, GoTo, pipes
    <3>2. IdleInv'
      BY <2>0, <2>1 DEF Inquiry, Answer, Packet, Pass, GoTo, pipes
    <3>3. OutInv'
      BY <2>0, <2>1 DEF Inquiry, Answer, Packet, Pass, GoTo, pipes
    <3>4. InInv'
      BY <2>0, <2>1 DEF Inquiry, Answer, Packet, Pass, GoTo, pipes
    <3>5. TaskInv'
      BY <2>0, <2>1 DEF Inquiry, Answer, Packet, Pass, GoTo, pipes
    <3>6. SenseIsOfLastCommand'
      BY <2>0, <2>1 DEF Inquiry, Answer, Packet, Pass, GoTo, pipes
    <3>7. QED
      BY <3>1, <3>2, <3>3, <3>4, <3>5, <3>6
  <2>2. CASE ModeSense
    <3>1. ResetInv'
      BY <2>0, <2>2 DEF ModeSense, Answer, Packet, Pass, GoTo, pipes
    <3>2. IdleInv'
      BY <2>0, <2>2 DEF ModeSense, Answer, Packet, Pass, GoTo, pipes
    <3>3. OutInv'
      BY <2>0, <2>2 DEF ModeSense, Answer, Packet, Pass, GoTo, pipes
    <3>4. InInv'
      BY <2>0, <2>2 DEF ModeSense, Answer, Packet, Pass, GoTo, pipes
    <3>5. TaskInv'
      BY <2>0, <2>2 DEF ModeSense, Answer, Packet, Pass, GoTo, pipes
    <3>6. SenseIsOfLastCommand'
      BY <2>0, <2>2 DEF ModeSense, Answer, Packet, Pass, GoTo, pipes
    <3>7. QED
      BY <3>1, <3>2, <3>3, <3>4, <3>5, <3>6
  <2>3. CASE RequestSense
    <3>1. ResetInv'
      BY <2>0, <2>3 DEF RequestSense, Answer, Packet, Pass, GoTo, pipes
    <3>2. IdleInv'
      BY <2>0, <2>3 DEF RequestSense, Answer, Packet, Pass, GoTo, pipes
    <3>3. OutInv'
      BY <2>0, <2>3 DEF RequestSense, Answer, Packet, Pass, GoTo, pipes
    <3>4. InInv'
      BY <2>0, <2>3 DEF RequestSense, Answer, Packet, Pass, GoTo, pipes
    <3>5. TaskInv'
      BY <2>0, <2>3 DEF RequestSense, Answer, Packet, Pass, GoTo, pipes
    <3>6. SenseIsOfLastCommand'
      BY <2>0, <2>3 DEF RequestSense, Answer, Packet, Pass, GoTo, pipes
    <3>7. QED
      BY <3>1, <3>2, <3>3, <3>4, <3>5, <3>6
  <2>4. CASE ReadCapacity
    <3>1. ResetInv'
      BY <2>0, <2>4 DEF ReadCapacity, Answer, Packet, Pass, AskNbBlocks, GoTo, pipes
    <3>2. IdleInv'
      BY <2>0, <2>4 DEF ReadCapacity, Answer, Packet, Pass, AskNbBlocks, GoTo, pipes
    <3>3. OutInv'
      BY <2>0, <2>4 DEF ReadCapacity, Answer, Packet, Pass, AskNbBlocks, GoTo, pipes
    <3>4. InInv'
      BY <2>0, <2>4 DEF ReadCapacity, Answer, Packet, Pass, AskNbBlocks, GoTo, pipes
    <3>5. TaskInv'
      BY <2>0, <2>4 DEF ReadCapacity, Answer, Packet, Pass, AskNbBlocks, GoTo, pipes
    <3>6. SenseIsOfLastCommand'
      BY <2>0, <2>4 DEF ReadCapacity, Answer, Packet, Pass, AskNbBlocks, GoTo, pipes
    <3>7. QED
      BY <3>1, <3>2, <3>3, <3>4, <3>5, <3>6
  <2>5. CASE NothingToDo
    <3>1. ResetInv'
      BY <2>0, <2>5 DEF NothingToDo, Pass, GoTo, pipes
    <3>2. IdleInv'
      BY <2>0, <2>5 DEF NothingToDo, Pass, GoTo, pipes
    <3>3. OutInv'
      BY <2>0, <2>5 DEF NothingToDo, Pass, GoTo, pipes
    <3>4. InInv'
      BY <2>0, <2>5 DEF NothingToDo, Pass, GoTo, pipes
    <3>5. TaskInv'
      BY <2>0, <2>5 DEF NothingToDo, Pass, GoTo, pipes
    <3>6. SenseIsOfLastCommand'
      BY <2>0, <2>5 DEF NothingToDo, Pass, GoTo, pipes
    <3>7. QED
      BY <3>1, <3>2, <3>3, <3>4, <3>5, <3>6
  <2>6. CASE Illegal
    <3>1. ResetInv'
      BY <2>0, <2>6 DEF Illegal, Fail, StallOnFailure, Residue, GoTo, pipes
    <3>2. IdleInv'
      BY <2>0, <2>6 DEF Illegal, Fail, StallOnFailure, Residue, GoTo, pipes
    <3>3. OutInv'
      BY <2>0, <2>6 DEF Illegal, Fail, StallOnFailure, Residue, GoTo, pipes
    <3>4. InInv'
      BY <2>0, <2>6 DEF Illegal, Fail, StallOnFailure, Residue, GoTo, pipes
    <3>5. TaskInv'
      BY <2>0, <2>6 DEF Illegal, Fail, StallOnFailure, Residue, GoTo, pipes
    <3>6. SenseIsOfLastCommand'
      BY <2>0, <2>6 DEF Illegal, Fail, StallOnFailure, Residue, GoTo, pipes
    <3>7. QED
      BY <3>1, <3>2, <3>3, <3>4, <3>5, <3>6
  <2>7. CASE WriteProtected
    <3>1. ResetInv'
      BY <2>0, <2>7 DEF WriteProtected, Fail, StallOnFailure, Residue, GoTo, pipes
    <3>2. IdleInv'
      BY <2>0, <2>7 DEF WriteProtected, Fail, StallOnFailure, Residue, GoTo, pipes
    <3>3. OutInv'
      BY <2>0, <2>7 DEF WriteProtected, Fail, StallOnFailure, Residue, GoTo, pipes
    <3>4. InInv'
      BY <2>0, <2>7 DEF WriteProtected, Fail, StallOnFailure, Residue, GoTo, pipes
    <3>5. TaskInv'
      BY <2>0, <2>7 DEF WriteProtected, Fail, StallOnFailure, Residue, GoTo, pipes
    <3>6. SenseIsOfLastCommand'
      BY <2>0, <2>7 DEF WriteProtected, Fail, StallOnFailure, Residue, GoTo, pipes
    <3>7. QED
      BY <3>1, <3>2, <3>3, <3>4, <3>5, <3>6
  <2>8. CASE Read10
    <3>1. ResetInv'
      BY <2>0, <2>8 DEF Read10, Fail, StallOnFailure, Residue, AskNbBlocks, GoTo, pipes
    <3>2. IdleInv'
      BY <2>0, <2>8 DEF Read10, Fail, StallOnFailure, Residue, AskNbBlocks, GoTo, pipes
    <3>3. OutInv'
      BY <2>0, <2>8 DEF Read10, Fail, StallOnFailure, Residue, AskNbBlocks, GoTo, pipes
    <3>4. InInv'
      BY <2>0, <2>8 DEF Read10, Fail, StallOnFailure, Residue, AskNbBlocks, GoTo, pipes
    <3>5. TaskInv'
      BY <2>0, <2>8 DEF Read10, Fail, StallOnFailure, Residue, AskNbBlocks, GoTo, pipes
    <3>6. SenseIsOfLastCommand'
      BY <2>0, <2>8 DEF Read10, Fail, StallOnFailure, Residue, AskNbBlocks, GoTo, pipes
    <3>7. QED
      BY <3>1, <3>2, <3>3, <3>4, <3>5, <3>6
  <2>9. QED
    BY <1>5, <2>1, <2>2, <2>3, <2>4, <2>5, <2>6, <2>7, <2>8 DEF SCSI_DecodeSCSICommand
<1>6. CASE HandBlock
  <2>1. ResetInv'
    BY <1>6 DEF HandBlock, BlockRead, BankFree, Packet, pipes
  <2>2. IdleInv'
    BY <1>6 DEF HandBlock, BlockRead, BankFree, Packet, pipes
  <2>3. OutInv'
    BY <1>6 DEF HandBlock, BlockRead, BankFree, Packet, pipes
  <2>4. InInv'
    BY <1>6 DEF HandBlock, BlockRead, BankFree, Packet, pipes
  <2>5. TaskInv'
    BY <1>6 DEF HandBlock, BlockRead, BankFree, Packet, pipes
  <2>6. SenseIsOfLastCommand'
    BY <1>6 DEF HandBlock, BlockRead, BankFree, Packet, pipes
  <2>7. QED
    BY <2>1, <2>2, <2>3, <2>4, <2>5, <2>6
<1>7. CASE BlocksDone
  <2>1. ResetInv'
    BY <1>7 DEF BlocksDone, Pass, GoTo, pipes
  <2>2. IdleInv'
    BY <1>7 DEF BlocksDone, Pass, GoTo, pipes
  <2>3. OutInv'
    BY <1>7 DEF BlocksDone, Pass, GoTo, pipes
  <2>4. InInv'
    BY <1>7 DEF BlocksDone, Pass, GoTo, pipes
  <2>5. TaskInv'
    BY <1>7 DEF BlocksDone, Pass, GoTo, pipes
  <2>6. SenseIsOfLastCommand'
    BY <1>7 DEF BlocksDone, Pass, GoTo, pipes
  <2>7. QED
    BY <2>1, <2>2, <2>3, <2>4, <2>5, <2>6
<1>8. CASE AwaitOut
  <2>1. ResetInv'
    BY <1>8 DEF AwaitOut, GoTo, pipes
  <2>2. IdleInv'
    BY <1>8 DEF AwaitOut, GoTo, pipes
  <2>3. OutInv'
    BY <1>8 DEF AwaitOut, GoTo, pipes
  <2>4. InInv'
    BY <1>8 DEF AwaitOut, GoTo, pipes
  <2>5. TaskInv'
    BY <1>8 DEF AwaitOut, GoTo, pipes
  <2>6. SenseIsOfLastCommand'
    BY <1>8 DEF AwaitOut, GoTo, pipes
  <2>7. QED
    BY <2>1, <2>2, <2>3, <2>4, <2>5, <2>6
<1>9. CASE AwaitIn
  <2>1. ResetInv'
    BY <1>9 DEF AwaitIn, GoTo, pipes
  <2>2. IdleInv'
    BY <1>9 DEF AwaitIn, GoTo, pipes
  <2>3. OutInv'
    BY <1>9 DEF AwaitIn, GoTo, pipes
  <2>4. InInv'
    BY <1>9 DEF AwaitIn, GoTo, pipes
  <2>5. TaskInv'
    BY <1>9 DEF AwaitIn, GoTo, pipes
  <2>6. SenseIsOfLastCommand'
    BY <1>9 DEF AwaitIn, GoTo, pipes
  <2>7. QED
    BY <2>1, <2>2, <2>3, <2>4, <2>5, <2>6
<1>10. CASE SendStatus
  <2>1. ResetInv'
    BY <1>10 DEF SendStatus, GoTo, BankFree, StatusPacket, Packet, pipes
  <2>2. IdleInv'
    BY <1>10 DEF SendStatus, GoTo, BankFree, StatusPacket, Packet, pipes
  <2>3. OutInv'
    BY <1>10 DEF SendStatus, GoTo, BankFree, StatusPacket, Packet, pipes
  <2>4. InInv'
    BY <1>10 DEF SendStatus, GoTo, BankFree, StatusPacket, Packet, pipes
  <2>5. TaskInv'
    BY <1>10 DEF SendStatus, GoTo, BankFree, StatusPacket, Packet, pipes
  <2>6. SenseIsOfLastCommand'
    BY <1>10 DEF SendStatus, GoTo, BankFree, StatusPacket, Packet, pipes
  <2>7. QED
    BY <2>1, <2>2, <2>3, <2>4, <2>5, <2>6
<1>11. CASE EndTask
  <2>1. ResetInv'
    BY <1>11 DEF EndTask, GoTo, ResetEndpoints, NoCommand, Command, pipes
  <2>2. IdleInv'
    BY <1>11 DEF EndTask, GoTo, ResetEndpoints, NoCommand, Command, pipes
  <2>3. OutInv'
    BY <1>11 DEF EndTask, GoTo, ResetEndpoints, NoCommand, Command, pipes
  <2>4. InInv'
    BY <1>11 DEF EndTask, GoTo, ResetEndpoints, NoCommand, Command, pipes
  <2>5. TaskInv'
    BY <1>11 DEF EndTask, GoTo, ResetEndpoints, NoCommand, Command, pipes
  <2>6. SenseIsOfLastCommand'
    BY <1>11 DEF EndTask, GoTo, ResetEndpoints, NoCommand, Command, pipes
  <2>7. QED
    BY <2>1, <2>2, <2>3, <2>4, <2>5, <2>6
<1>12. CASE EVENT_USB_Device_Connect
  <2>1. ResetInv'
    BY <1>12 DEF EVENT_USB_Device_Connect, Wakes, Handle, pipes
  <2>2. IdleInv'
    BY <1>12 DEF EVENT_USB_Device_Connect, Wakes, Handle, pipes
  <2>3. OutInv'
    BY <1>12 DEF EVENT_USB_Device_Connect, Wakes, Handle, pipes
  <2>4. InInv'
    BY <1>12 DEF EVENT_USB_Device_Connect, Wakes, Handle, pipes
  <2>5. TaskInv'
    BY <1>12 DEF EVENT_USB_Device_Connect, Wakes, Handle, pipes
  <2>6. SenseIsOfLastCommand'
    BY <1>12 DEF EVENT_USB_Device_Connect, Wakes, Handle, pipes
  <2>7. QED
    BY <2>1, <2>2, <2>3, <2>4, <2>5, <2>6
<1>13. CASE EVENT_USB_Device_Disconnect
  <2>1. ResetInv'
    BY <1>13 DEF EVENT_USB_Device_Disconnect, Wakes, Handle, NoCommand, Command, pipes
  <2>2. IdleInv'
    BY <1>13 DEF EVENT_USB_Device_Disconnect, Wakes, Handle, NoCommand, Command, pipes
  <2>3. OutInv'
    BY <1>13 DEF EVENT_USB_Device_Disconnect, Wakes, Handle, NoCommand, Command, pipes
  <2>4. InInv'
    BY <1>13 DEF EVENT_USB_Device_Disconnect, Wakes, Handle, NoCommand, Command, pipes
  <2>5. TaskInv'
    BY <1>13 DEF EVENT_USB_Device_Disconnect, Wakes, Handle, NoCommand, Command, pipes
  <2>6. SenseIsOfLastCommand'
    BY <1>13 DEF EVENT_USB_Device_Disconnect, Wakes, Handle, NoCommand, Command, pipes
  <2>7. QED
    BY <2>1, <2>2, <2>3, <2>4, <2>5, <2>6
<1>14. CASE EVENT_USB_Device_ConfigurationChanged
  <2>1. ResetInv'
    BY <1>14 DEF EVENT_USB_Device_ConfigurationChanged, ResetEndpoints, firmware, pipes
  <2>2. IdleInv'
    BY <1>14 DEF EVENT_USB_Device_ConfigurationChanged, ResetEndpoints, firmware, pipes
  <2>3. OutInv'
    BY <1>14 DEF EVENT_USB_Device_ConfigurationChanged, ResetEndpoints, firmware, pipes
  <2>4. InInv'
    BY <1>14 DEF EVENT_USB_Device_ConfigurationChanged, ResetEndpoints, firmware, pipes
  <2>5. TaskInv'
    BY <1>14 DEF EVENT_USB_Device_ConfigurationChanged, ResetEndpoints, firmware, pipes
  <2>6. SenseIsOfLastCommand'
    BY <1>14 DEF EVENT_USB_Device_ConfigurationChanged, ResetEndpoints, firmware, pipes
  <2>7. QED
    BY <2>1, <2>2, <2>3, <2>4, <2>5, <2>6
<1>15. CASE EVENT_USB_Device_ControlRequest
  <2>1. ResetInv'
    BY <1>15 DEF EVENT_USB_Device_ControlRequest, firmware, pipes
  <2>2. IdleInv'
    BY <1>15 DEF EVENT_USB_Device_ControlRequest, firmware, pipes
  <2>3. OutInv'
    BY <1>15 DEF EVENT_USB_Device_ControlRequest, firmware, pipes
  <2>4. InInv'
    BY <1>15 DEF EVENT_USB_Device_ControlRequest, firmware, pipes
  <2>5. TaskInv'
    BY <1>15 DEF EVENT_USB_Device_ControlRequest, firmware, pipes
  <2>6. SenseIsOfLastCommand'
    BY <1>15 DEF EVENT_USB_Device_ControlRequest, firmware, pipes
  <2>7. QED
    BY <2>1, <2>2, <2>3, <2>4, <2>5, <2>6
<1>16. CASE HostCommands
  <2>1. ResetInv'
    BY <1>16 DEF HostCommands, firmware, Command, Packet, NextTag, pipes
  <2>2. IdleInv'
    BY <1>16 DEF HostCommands, firmware, Command, Packet, NextTag, pipes
  <2>3. OutInv'
    <3>1. /\ host.phase = "idle"
          /\ UNCHANGED <<pc, carried, inBank, outStalled, inStalled>>
      BY <1>16 DEF HostCommands, firmware
    <3>2. QED
      BY <3>1, <1>16, NewCommand
  <2>4. InInv'
    BY <1>16 DEF HostCommands, firmware, Command, Packet, NextTag, pipes
  <2>5. TaskInv'
    BY <1>16 DEF HostCommands, firmware, Command, Packet, NextTag, pipes
  <2>6. SenseIsOfLastCommand'
    BY <1>16 DEF HostCommands, firmware, Command, Packet, NextTag, pipes
  <2>7. QED
    BY <2>1, <2>2, <2>3, <2>4, <2>5, <2>6
<1>17. CASE HostSendsData
  <2>1. ResetInv'
    BY <1>17 DEF HostSendsData, firmware, Packet, pipes
  <2>2. IdleInv'
    BY <1>17 DEF HostSendsData, firmware, Packet, pipes
  <2>3. OutInv'
    BY <1>17 DEF HostSendsData, firmware, Packet, pipes
  <2>4. InInv'
    BY <1>17 DEF HostSendsData, firmware, Packet, pipes
  <2>5. TaskInv'
    BY <1>17 DEF HostSendsData, firmware, Packet, pipes
  <2>6. SenseIsOfLastCommand'
    BY <1>17 DEF HostSendsData, firmware, Packet, pipes
  <2>7. QED
    BY <2>1, <2>2, <2>3, <2>4, <2>5, <2>6
<1>18. CASE HostTakes
  <2>1. ResetInv'
    BY <1>18 DEF HostTakes, firmware, pipes
  <2>2. IdleInv'
    BY <1>18 DEF HostTakes, firmware, pipes
  <2>3. OutInv'
    BY <1>18 DEF HostTakes, firmware, pipes
  <2>4. InInv'
    BY <1>18 DEF HostTakes, firmware, pipes
  <2>5. TaskInv'
    BY <1>18 DEF HostTakes, firmware, pipes
  <2>6. SenseIsOfLastCommand'
    BY <1>18 DEF HostTakes, firmware, pipes
  <2>7. QED
    BY <2>1, <2>2, <2>3, <2>4, <2>5, <2>6
<1>19. CASE HostClearsHalt
  <2>1. ResetInv'
    BY <1>19 DEF HostClearsHalt, firmware, pipes
  <2>2. IdleInv'
    BY <1>19 DEF HostClearsHalt, firmware, pipes
  <2>3. OutInv'
    BY <1>19 DEF HostClearsHalt, firmware, pipes
  <2>4. InInv'
    BY <1>19 DEF HostClearsHalt, firmware, pipes
  <2>5. TaskInv'
    BY <1>19 DEF HostClearsHalt, firmware, pipes
  <2>6. SenseIsOfLastCommand'
    BY <1>19 DEF HostClearsHalt, firmware, pipes
  <2>7. QED
    BY <2>1, <2>2, <2>3, <2>4, <2>5, <2>6
<1>20. CASE HostRecovers
  <2>1. ResetInv'
    BY <1>20 DEF HostRecovers, firmware, ResetEndpoints, pipes
  <2>2. IdleInv'
    BY <1>20 DEF HostRecovers, firmware, ResetEndpoints, pipes
  <2>3. OutInv'
    BY <1>20 DEF HostRecovers, firmware, ResetEndpoints, pipes
  <2>4. InInv'
    BY <1>20 DEF HostRecovers, firmware, ResetEndpoints, pipes
  <2>5. TaskInv'
    BY <1>20 DEF HostRecovers, firmware, ResetEndpoints, pipes
  <2>6. SenseIsOfLastCommand'
    BY <1>20 DEF HostRecovers, firmware, ResetEndpoints, pipes
  <2>7. QED
    BY <2>1, <2>2, <2>3, <2>4, <2>5, <2>6
<1>21. CASE ChangeCard
  <2>1. ResetInv'
    BY <1>21 DEF ChangeCard, Handle, firmware, pipes
  <2>2. IdleInv'
    BY <1>21 DEF ChangeCard, Handle, firmware, pipes
  <2>3. OutInv'
    BY <1>21 DEF ChangeCard, Handle, firmware, pipes
  <2>4. InInv'
    BY <1>21 DEF ChangeCard, Handle, firmware, pipes
  <2>5. TaskInv'
    BY <1>21 DEF ChangeCard, Handle, firmware, pipes
  <2>6. SenseIsOfLastCommand'
    BY <1>21 DEF ChangeCard, Handle, firmware, pipes
  <2>7. QED
    BY <2>1, <2>2, <2>3, <2>4, <2>5, <2>6
<1>22. CASE UNCHANGED vars
  BY <1>22 DEF vars, firmware, pipes
<1>23. QED
  BY <1>1, <1>2, <1>3, <1>4, <1>5, <1>6, <1>7, <1>8, <1>9, <1>10, <1>11, <1>12, <1>13, <1>14, <1>15, <1>16, <1>17, <1>18, <1>19, <1>20, <1>21, <1>22 DEF Next, Main, Task, HostAnswers

-----------------------------------------------------------------------------

\* The firmware stays well typed, and the size of a card is a number of 32 bits.
THEOREM TypeCorrect == Spec => []TypeOK
<1>1. TypeInv => TypeOK
  BY DEF TypeInv, TypeOK, HostTyped, HostSet, CommandTyped, BanksTyped, FlagsTyped, ScalarsTyped
<1>2. QED
  BY TypeInit, TypesKept, <1>1, PTL DEF Spec

\* Resets, halts and timeouts leave nothing behind that answers another command.
THEOREM AnswerIsForCommandAlways == Spec => []AnswerIsForCommand
<1>1. WireInv => AnswerIsForCommand
  BY DEF WireInv, IdleInv, InInv, AnswerIsForCommand
<1>2. QED
  BY TypeInit, TypesKept, WireInit, WireKept, <1>1, PTL DEF Spec

\* Between two commands the sense key is that of the last one.
THEOREM SenseIsOfLastCommandAlways == Spec => []SenseIsOfLastCommand
<1>1. WireInv => SenseIsOfLastCommand
  BY DEF WireInv
<1>2. QED
  BY TypeInit, TypesKept, WireInit, WireKept, <1>1, PTL DEF Spec
=============================================================================
