----------------------------- MODULE MassStorage -----------------------------
(***************************************************************************)
(* The stand-alone mass storage firmware of the 32u4: the main loop that   *)
(* sleeps while no host is connected, and MassStorage_Task(), which reads  *)
(* a command block (CBW) from the bulk OUT endpoint, serves the SCSI       *)
(* command and returns data and a status block (CSW) by the bulk IN        *)
(* endpoint.  The disk is read-only.                                       *)
(*                                                                         *)
(* The library raises the USB events from interrupts, so a host can be     *)
(* unplugged, reset the device or clear the halt of an endpoint between    *)
(* any two steps of the task.  Each endpoint has one bank.  The host is    *)
(* external: it gives one command at a time, clears the halts it meets,    *)
(* gives up on a command when it likes, and after a reset leaves the       *)
(* device the time to see it.                                              *)
(***************************************************************************)
EXTENDS Integers, FiniteSets

CONSTANTS
  Cards,       \* sizes of the cards that come and go, in blocks
  WrapBlocks,  \* blocks whose size in bytes no longer fits in 32 bits
  Addresses,   \* first blocks that the host asks for
  Counts,      \* numbers of blocks that the host asks for
  Kinds,       \* the commands that the host gives
  MaxEvents    \* bound on how often the card or the cable is handled

AllKinds == {"inquiry", "badInquiry", "modeSense", "sense", "capacity", "ready", "badDiagnostic",
             "read", "write", "unknown", "badBlock"}
Tags == 0 .. 2

ASSUME MassStorageAssumption ==
  /\ Cards \subseteq Nat \ {0} /\ WrapBlocks \in Nat \ {0}
  /\ Addresses \subseteq Nat /\ Counts \subseteq Nat \ {0}
  /\ Kinds \subseteq AllKinds /\ MaxEvents \in Nat

VARIABLES
  state,      \* state: "IDLE" or "CONNECTED"
  configured, \* USB_DeviceState == DEVICE_STATE_Configured
  cardReady,  \* SDCardManager_init_flag
  isReset,    \* IsMassStoreReset
  pc,         \* where the main loop is
  cbw,        \* CommandBlock: kind, tag, address and blocks left to serve
  passed,     \* CommandStatus.Status == MS_SCSI_COMMAND_Pass
  sense,      \* SenseData.SenseKey
  cached,     \* CachedTotalBlocks
  outBank, inBank,       \* what an endpoint's bank holds
  outStalled, inStalled, \* an endpoint answers STALL
  card,       \* blocks of the card in the slot, 0 when it is empty
  host,       \* what the host does and knows
  carried,    \* the task was still busy with a command of an earlier connection
              \* when the endpoints were configured
  events

firmware == <<state, cardReady, pc, cbw, passed, sense, cached>>
pipes == <<outBank, inBank, outStalled, inStalled>>
vars == <<firmware, configured, isReset, pipes, card, host, carried, events>>

(***************************************************************************)
(* A bank is empty, or holds a packet; the tag is that of the command it   *)
(* belongs to.  A CSW carries the tag itself.                              *)
(***************************************************************************)
Empty == [what |-> "empty", tag |-> 0, value |-> "none"]
Packet(w, t, v) == [what |-> w, tag |-> t, value |-> v]
Command(k, t, a, n) == [kind |-> k, tag |-> t, addr |-> a, n |-> n]
NoCommand == Command("ready", 0, 0, 0)
SenseKeys == {"GOOD", "ILLEGAL_REQUEST", "DATA_PROTECT"}

Init ==
  /\ state = "IDLE" /\ configured = FALSE /\ cardReady = FALSE /\ isReset = FALSE
  /\ pc = "loop" /\ cbw = NoCommand /\ passed = FALSE /\ sense = "GOOD" /\ cached = 0
  /\ outBank = Empty /\ inBank = Empty /\ outStalled = FALSE /\ inStalled = FALSE
  /\ card \in Cards \cup {0}
  /\ host = [phase |-> "off", cmd |-> NoCommand, last |-> "unknown", late |-> FALSE,
            sending |-> FALSE]
  /\ carried = FALSE /\ events = 0

-----------------------------------------------------------------------------
(* The main loop.                                                           *)

GoTo(place) == pc' = place

\* if (state == CONNECTED) ... else GoToSleep(): the delay of GoToSleep() comes
\* between this test and sleep_mode().
LoopTest ==
  /\ pc = "loop"
  /\ GoTo(IF state = "IDLE" THEN "drowsy" ELSE IF cardReady THEN "task" ELSE "init")
  /\ UNCHANGED <<state, cardReady, cbw, passed, sense, cached, configured, isReset,
                 pipes, card, host, carried, events>>

\* GoToSleep(): sleeps whatever has come in the meantime.
GoToSleep ==
  /\ pc = "drowsy"
  /\ cardReady' = FALSE
  /\ GoTo("asleep")
  /\ UNCHANGED <<state, cbw, passed, sense, cached, configured, isReset, pipes,
                 card, host, carried, events>>

\* SDCardManager_Init(): while(!sd_raw_init()); which needs a card.
SDCardManager_Init ==
  /\ pc = "init" /\ card # 0
  /\ cardReady' = TRUE
  /\ GoTo("task")
  /\ UNCHANGED <<state, cbw, passed, sense, cached, configured, isReset, pipes,
                 card, host, carried, events>>

-----------------------------------------------------------------------------
(* MassStorage_Task().                                                      *)

\* ReadInCommandBlock(): no command, a bad one, which stalls both pipes and stays
\* in its bank, or a good one.  A stalled OUT endpoint gives no data to read; what
\* CommandBlock then holds fails the test again.
ReadInCommandBlock ==
  /\ pc = "task"
  /\ \/ /\ ~configured
        /\ GoTo("loop") /\ UNCHANGED <<cbw, pipes>>
     \/ /\ configured /\ outBank = Empty
        /\ GoTo("endTask") /\ UNCHANGED <<cbw, pipes>>
     \/ /\ configured /\ outBank.what = "command" /\ ~outStalled
        /\ outBank.value # "badBlock"
        /\ cbw' = host.cmd /\ outBank' = Empty /\ GoTo("decode")
        /\ UNCHANGED <<inBank, outStalled, inStalled>>
     \/ /\ configured /\ outBank # Empty
        /\ outStalled \/ outBank.what = "data" \/ outBank.value = "badBlock"
        /\ outStalled' = TRUE /\ inStalled' = TRUE /\ GoTo("endTask")
        /\ UNCHANGED <<cbw, outBank, inBank>>
  /\ UNCHANGED <<state, cardReady, passed, sense, cached, configured, isReset,
                 card, host, carried, events>>

\* (A variant: the size in bytes computed without overflow.)
NbBlocksWide == IF cached # 0 THEN cached ELSE card

\* LUN_MEDIA_BLOCKS, SDCardManager_GetNbBlocks(): the size of the first card that
\* was asked for, computed in 32 bits; a size of zero is not kept.
NbBlocks == IF cached # 0 THEN cached ELSE card % WrapBlocks
AskNbBlocks == cached' = NbBlocks

\* The residue of a failed command: what the host expects and was not moved.
Residue == cbw.kind \in {"badInquiry", "read", "write", "unknown"}

\* if (Status == Fail && DataTransferResidue) Endpoint_StallTransaction(), on the
\* pipe selected by the direction of the command.
StallOnFailure ==
  /\ outStalled' = (outStalled \/ (Residue /\ cbw.kind = "write"))
  /\ inStalled' = (inStalled \/ (Residue /\ cbw.kind # "write"))

Fail(key) ==
  /\ passed' = FALSE /\ sense' = key
  /\ StallOnFailure
  /\ GoTo("waitOut") /\ UNCHANGED <<outBank, inBank>>

Pass ==
  /\ passed' = TRUE /\ sense' = "GOOD"
  /\ GoTo("waitOut")

\* The data of a short command go into the IN bank, if it is free.
Answer(value) ==
  /\ inBank' = IF inBank = Empty THEN Packet("data", cbw.tag, value) ELSE inBank
  /\ Pass /\ UNCHANGED <<outBank, outStalled, inStalled>>

Inquiry ==
  cbw.kind = "inquiry" /\ Answer("data") /\ UNCHANGED cached

\* The header with the flag of write protection.
ModeSense ==
  cbw.kind = "modeSense" /\ Answer("data") /\ UNCHANGED cached

RequestSense ==
  cbw.kind = "sense" /\ Answer(sense) /\ UNCHANGED cached

\* READ CAPACITY gives up, without a sense key, when the host has reset the device.
ReadCapacity ==
  /\ cbw.kind = "capacity"
  /\ AskNbBlocks
  /\ \/ ~isReset /\ Answer("data")
     \/ isReset /\ passed' = FALSE /\ inStalled' = TRUE /\ GoTo("waitOut")
        /\ UNCHANGED <<sense, outBank, inBank, outStalled>>

\* TEST UNIT READY and the like, and the self-test of SEND DIAGNOSTIC.
NothingToDo ==
  cbw.kind = "ready" /\ Pass /\ UNCHANGED <<cached, pipes>>

Illegal ==
  /\ cbw.kind \in {"badInquiry", "badDiagnostic", "unknown"}
  /\ Fail("ILLEGAL_REQUEST") /\ UNCHANGED cached

\* (A variant: a WRITE is refused without a sense key.)
WriteProtectedSilently ==
  /\ cbw.kind = "write" /\ passed' = FALSE
  /\ StallOnFailure /\ GoTo("waitOut") /\ UNCHANGED <<sense, cached, outBank, inBank>>

WriteProtected ==
  cbw.kind = "write" /\ Fail("DATA_PROTECT") /\ UNCHANGED cached

\* READ (10): only the first address is compared with the size.
Read10 ==
  /\ cbw.kind = "read"
  /\ AskNbBlocks
  /\ \/ cbw.addr >= NbBlocks /\ Fail("ILLEGAL_REQUEST")
     \/ cbw.addr < NbBlocks /\ GoTo("blocks") /\ UNCHANGED <<passed, sense, pipes>>

SCSI_DecodeSCSICommand ==
  /\ pc = "decode"
  /\ \/ Inquiry \/ ModeSense \/ RequestSense \/ ReadCapacity \/ NothingToDo
     \/ Illegal \/ WriteProtected \/ Read10
  /\ UNCHANGED <<state, cardReady, cbw, configured, isReset, card, host, carried, events>>

\* SDCardManager_ReadBlocks(): a block that cannot be read, or for which the bank
\* does not come free in time, is passed over, and after a reset only its first
\* bytes are put in the bank, which they may or may not fill.
BlockRead == cbw.addr < card
BankFree == inBank = Empty

\* (A variant: the flag is cleared where the abort is noticed.)
HandBlockClearsReset ==
  /\ pc = "blocks" /\ cbw.n > 0
  /\ inBank' = IF BlockRead /\ BankFree /\ ~isReset THEN Packet("data", cbw.tag, "data") ELSE inBank
  /\ isReset' = FALSE
  /\ cbw' = [cbw EXCEPT !.addr = @ + 1, !.n = @ - 1]
  /\ UNCHANGED <<state, cardReady, pc, passed, sense, cached, configured, outBank,
                 outStalled, inStalled, card, host, carried, events>>

HandBlock ==
  /\ pc = "blocks" /\ cbw.n > 0
  /\ \/ BlockRead /\ BankFree /\ inBank' = Packet("data", cbw.tag, "data") /\ UNCHANGED host
     \/ BlockRead /\ BankFree /\ isReset /\ UNCHANGED <<inBank, host>>
     \/ ~BlockRead /\ UNCHANGED <<inBank, host>>
     \/ BlockRead /\ ~BankFree /\ host' = [host EXCEPT !.late = TRUE] /\ UNCHANGED inBank
  /\ cbw' = [cbw EXCEPT !.addr = @ + 1, !.n = @ - 1]
  /\ UNCHANGED <<state, cardReady, pc, passed, sense, cached, configured, isReset,
                 outBank, outStalled, inStalled, card, carried, events>>

BlocksDone ==
  /\ pc = "blocks" /\ cbw.n = 0
  /\ Pass
  /\ UNCHANGED <<state, cardReady, cbw, cached, configured, isReset, pipes, card, host,
                 carried, events>>

\* ReturnCommandStatus(): waits for the halts to be cleared, or for a reset.
AwaitOut ==
  /\ pc = "waitOut"
  /\ \/ ~outStalled /\ GoTo("waitIn")
     \/ outStalled /\ isReset /\ GoTo("endTask")
  /\ UNCHANGED <<state, cardReady, cbw, passed, sense, cached, configured, isReset,
                 pipes, card, host, carried, events>>

AwaitIn ==
  /\ pc = "waitIn"
  /\ \/ ~inStalled /\ GoTo("status")
     \/ inStalled /\ isReset /\ GoTo("endTask")
  /\ UNCHANGED <<state, cardReady, cbw, passed, sense, cached, configured, isReset,
                 pipes, card, host, carried, events>>

\* A CSW for which the bank does not come free in time is lost.
StatusPacket == Packet("status", cbw.tag, IF passed THEN "Pass" ELSE "Fail")

\* (A variant: no CSW for a command that failed.)
SendStatusOfPassed ==
  /\ pc = "status"
  /\ inBank' = IF BankFree /\ passed THEN StatusPacket ELSE inBank
  /\ GoTo("endTask")
  /\ UNCHANGED <<state, cardReady, cbw, passed, sense, cached, configured, isReset,
                 outBank, outStalled, inStalled, card, host, carried, events>>

SendStatus ==
  /\ pc = "status"
  /\ \/ BankFree /\ inBank' = StatusPacket /\ UNCHANGED host
     \/ ~BankFree /\ host' = [host EXCEPT !.late = TRUE] /\ UNCHANGED inBank
  /\ GoTo("endTask")
  /\ UNCHANGED <<state, cardReady, cbw, passed, sense, cached, configured, isReset,
                 outBank, outStalled, inStalled, card, carried, events>>

\* if (IsMassStoreReset): both endpoints as new.
ResetEndpoints == outBank' = Empty /\ inBank' = Empty /\ outStalled' = FALSE /\ inStalled' = FALSE
EndTask ==
  /\ pc = "endTask"
  /\ \/ isReset /\ ResetEndpoints
     \/ ~isReset /\ UNCHANGED pipes
  /\ isReset' = FALSE
  /\ carried' = (carried /\ ~isReset)
  /\ cbw' = NoCommand
  /\ GoTo("loop")
  /\ UNCHANGED <<state, cardReady, passed, sense, cached, configured, card, host, events>>

Task == ReadInCommandBlock \/ SCSI_DecodeSCSICommand \/ HandBlock \/ BlocksDone
          \/ AwaitOut \/ AwaitIn \/ SendStatus \/ EndTask

-----------------------------------------------------------------------------
(* USB events, raised by interrupts; they wake the device.                  *)

Handle == events < MaxEvents /\ events' = events + 1
Wakes == pc' = IF pc = "asleep" THEN "loop" ELSE pc

EVENT_USB_Device_Connect ==
  /\ host.phase = "off" /\ Handle
  /\ state' = "CONNECTED" /\ isReset' = FALSE
  /\ host' = [host EXCEPT !.phase = "enumerate"]
  /\ Wakes
  /\ UNCHANGED <<cardReady, cbw, passed, sense, cached, configured, pipes, card, carried>>

EVENT_USB_Device_Disconnect ==
  /\ host.phase # "off" /\ Handle
  /\ state' = "IDLE" /\ configured' = FALSE
  /\ host' = [phase |-> "off", cmd |-> NoCommand, last |-> "unknown", late |-> FALSE,
            sending |-> FALSE]
  /\ Wakes
  /\ UNCHANGED <<cardReady, cbw, passed, sense, cached, isReset, pipes, card, carried>>

\* The control requests of an enumeration are served only by a processor that runs,
\* and last longer than the 10 ms of GoToSleep().
EVENT_USB_Device_ConfigurationChanged ==
  /\ host.phase = "enumerate" /\ pc \notin {"drowsy", "asleep"}
  /\ configured' = TRUE /\ ResetEndpoints
  /\ host' = [host EXCEPT !.phase = "idle"]
  /\ carried' = (pc \in {"decode", "blocks", "waitOut", "waitIn", "status"})
  /\ UNCHANGED <<firmware, isReset, card, events>>

\* MS_REQ_MassStorageReset, by a host that gives up on its command.
EVENT_USB_Device_ControlRequest ==
  /\ host.phase = "wait"
  /\ isReset' = TRUE
  /\ host' = [host EXCEPT !.phase = "recover", !.last = "unknown"]
  /\ UNCHANGED <<firmware, configured, pipes, card, carried, events>>

-----------------------------------------------------------------------------
(* The host and the user.                                                   *)

NextTag == (host.cmd.tag + 1) % 3
HostCommands ==
  /\ host.phase = "idle"
  /\ \E k \in Kinds :
       \E a \in IF k = "read" THEN Addresses ELSE {0}, n \in IF k = "read" THEN Counts ELSE {0} :
          /\ host' = [phase |-> "wait", cmd |-> Command(k, NextTag, a, n), last |-> host.last,
                      late |-> FALSE, sending |-> k = "write"]
          /\ outBank' = Packet("command", NextTag, IF k = "badBlock" THEN k ELSE "none")
  /\ UNCHANGED <<firmware, configured, isReset, inBank, outStalled, inStalled, card,
                 carried, events>>

\* A WRITE is followed by its data as soon as the bank is free, until the host meets
\* a halt.
HostSendsData ==
  /\ host.phase = "wait" /\ host.sending
  /\ outBank = Empty /\ ~outStalled
  /\ outBank' = Packet("data", host.cmd.tag, "none")
  /\ UNCHANGED <<firmware, configured, isReset, inBank, outStalled, inStalled, card,
                 host, carried, events>>

\* The host takes a packet; the status block ends the command.
HostTakes ==
  /\ host.phase = "wait" /\ ~host.sending /\ inBank # Empty /\ ~inStalled
  /\ inBank' = Empty
  /\ host' = IF inBank.what = "status"
             THEN [host EXCEPT !.phase = "idle", !.last = inBank.value] ELSE host
  /\ UNCHANGED <<firmware, configured, isReset, outBank, outStalled, inStalled, card,
                 carried, events>>

\* The host clears the halt it meets; the library also flushes the bank.
HostClearsHalt ==
  /\ host.phase = "wait"
  /\ \/ inStalled /\ inStalled' = FALSE /\ inBank' = Empty /\ UNCHANGED <<outBank, outStalled>>
     \/ outStalled /\ outStalled' = FALSE /\ outBank' = Empty /\ UNCHANGED <<inBank, inStalled>>
  /\ host' = [host EXCEPT !.sending = FALSE]
  /\ UNCHANGED <<firmware, configured, isReset, card, carried, events>>

\* After its reset, and the time to see it, the host clears both halts.
HostRecovers ==
  /\ host.phase = "recover" /\ ~isReset
  /\ ResetEndpoints
  /\ host' = [host EXCEPT !.phase = "idle"]
  /\ UNCHANGED <<firmware, configured, isReset, card, carried, events>>

ChangeCard ==
  /\ Handle
  /\ card' \in (Cards \cup {0}) \ {card}
  /\ UNCHANGED <<firmware, configured, isReset, pipes, host, carried>>

Main == LoopTest \/ GoToSleep \/ SDCardManager_Init \/ Task
HostAnswers == HostTakes \/ HostClearsHalt

Next ==
  \/ Main
  \/ EVENT_USB_Device_Connect \/ EVENT_USB_Device_Disconnect
  \/ EVENT_USB_Device_ConfigurationChanged \/ EVENT_USB_Device_ControlRequest
  \/ HostCommands \/ HostSendsData \/ HostAnswers \/ HostRecovers \/ ChangeCard

Spec == Init /\ [][Next]_vars

(***************************************************************************)
(* The main loop runs on, and a host that waits takes what it is offered.  *)
(* Nothing makes it give up, unplug, or put a card in.                     *)
(***************************************************************************)
FairSpec == Spec /\ WF_vars(Main) /\ WF_vars(HostTakes) /\ WF_vars(HostClearsHalt)

-----------------------------------------------------------------------------
Banks == [what : {"empty", "command", "data", "status"}, tag : Tags,
          value : {"none", "data", "Pass", "Fail", "badBlock"} \cup SenseKeys]
CommandSet == [kind : AllKinds, tag : Tags, addr : Nat, n : Nat]

(* The variables keep their types, a command is in the OUT bank only and a status *)
(* in the IN bank only, and only a connected device is configured.                *)
TypeOK ==
  /\ state \in {"IDLE", "CONNECTED"}
  /\ {configured, cardReady, isReset, passed, outStalled, inStalled, carried} \subseteq BOOLEAN
  /\ pc \in {"loop", "drowsy", "asleep", "init", "task", "decode", "blocks", "waitOut",
             "waitIn", "status", "endTask"}
  /\ cbw \in CommandSet /\ sense \in SenseKeys
  /\ cached \in 0 .. WrapBlocks - 1
  /\ outBank \in Banks /\ outBank.what # "status"
  /\ inBank \in Banks /\ inBank.what # "command"
  /\ card \in Cards \cup {0}
  /\ host \in [phase : {"off", "enumerate", "idle", "wait", "recover"}, cmd : CommandSet,
               last : {"unknown", "Pass", "Fail"}, late : BOOLEAN, sending : BOOLEAN]
  /\ events \in 0 .. MaxEvents
  /\ configured => state = "CONNECTED"

(* What waits for the host in the IN bank belongs to the command it gave last,    *)
(* and nothing is left there, or in a halt, when it gives the next one: resets,   *)
(* timeouts and halts cleared in the middle of ReturnCommandStatus() leave no     *)
(* packet behind.  Excepted is any command carried over from an earlier           *)
(* connection, whatever the task was doing with it when the cable was pulled.     *)
AnswerIsForCommand ==
  ~carried =>
    /\ host.phase = "wait" /\ inBank # Empty => inBank.tag = host.cmd.tag
    /\ host.phase = "idle" => inBank = Empty /\ outBank = Empty /\ ~inStalled /\ ~outStalled

(* What REQUEST SENSE would say is about the last command the host had an answer  *)
(* for: GOOD exactly when its status was Pass.                                    *)
SenseIsOfLastCommand ==
  host.phase = "idle" /\ host.last # "unknown" /\ ~carried =>
    (sense = "GOOD" <=> host.last = "Pass")

(* A command with a good block is answered: no halt, reset, timeout or unreadable *)
(* block leaves the task waiting for a host that does its part.  Excepted is a    *)
(* device that waits for a card, a host too slow for the library's timeout, and a  *)
(* command carried over.                                                          *)
CommandIsAnswered ==
  (host.phase = "wait" /\ host.cmd.kind # "badBlock")
    ~> (host.phase # "wait" \/ host.late \/ carried \/ (pc = "init" /\ card = 0))

(* Disconnect "stops the Mass Storage management task" (MassStorage.c:215): the   *)
(* device goes to sleep unless it is connected again or waits for a card.         *)
DisconnectStopsTask ==
  (state = "IDLE") ~> (state = "CONNECTED" \/ pc = "asleep" \/ (pc = "init" /\ card = 0))
=============================================================================
