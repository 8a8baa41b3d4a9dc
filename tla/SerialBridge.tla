---------------------------- MODULE SerialBridge ----------------------------
(***************************************************************************)
(* The USB to serial bridge of the 32u4: two ring buffers between a        *)
(* virtual COM port and a USART.  It is the whole of the stand-alone       *)
(* firmware USBtoSerial.c and a part of USBtoSerialMassStorage.c, which    *)
(* differ in what a connection does to the rings, in who switches the      *)
(* USART on, and in that the second sleeps while no host is connected and  *)
(* first waits for a card.  The variable standalone says which one runs.   *)
(*                                                                         *)
(* The receive interrupt and the USB events come between any two calls of  *)
(* the main loop; an operation on a ring is atomic.  The ring buffer is    *)
(* the library's and external: its count is a 16-bit number, and neither   *)
(* insertion nor removal looks whether there is room or anything left.     *)
(***************************************************************************)
EXTENDS Integers, Sequences

CONSTANTS
  Size,   \* bytes of a ring (128)
  Wrap,   \* values of its count (2^16)
  Char    \* the values of a byte that occur

ASSUME RingAssumption == Size \in Nat \ {0} /\ Wrap \in Nat /\ Wrap % Size = 0 /\ Wrap > Size
ASSUME CharAssumption == Char # {}

VARIABLES
  standalone,  \* USBtoSerial.c, or else USBtoSerialMassStorage.c
  connected,   \* state == CONNECTED
  configured,  \* USB_DeviceState == DEVICE_STATE_Configured
  serialOn,    \* the USART is enabled
  cardIn,      \* a card is in the slot
  cardReady,   \* SDCardManager_init_flag
  pc,          \* where the main loop is
  held,        \* ReceivedByte
  left,        \* BufferCount
  toSerial,    \* USBtoUSART_Buffer
  toUsb,       \* USARTtoUSB_Buffer
  serialOwed,  \* the bytes from the host that the serial line has not had yet
  usbOwed,     \* the bytes from the serial line that the host has not had yet
  overrun,     \* toUsb was given a byte too many since it was last empty
  raced        \* a connection emptied the rings between a test and the removal

rings == <<toSerial, toUsb, serialOwed, usbOwed, overrun>>
usb == <<connected, configured, serialOn, raced>>
bridgeVars == <<standalone, usb, cardIn, cardReady, pc, held, left, rings>>

-----------------------------------------------------------------------------
(* RingBuffer.h of the library.                                             *)

NewRing == [data |-> [i \in 0 .. Size - 1 |-> CHOOSE b \in Char : TRUE],
            in |-> 0, out |-> 0, count |-> 0]

Insert(r, b) ==
  [data |-> [r.data EXCEPT ![r.in] = b], in |-> (r.in + 1) % Size, out |-> r.out,
   count |-> (r.count + 1) % Wrap]

Remove(r) ==
  [data |-> r.data, in |-> r.in, out |-> (r.out + 1) % Size, count |-> (r.count - 1) % Wrap]

Peek(r) == r.data[r.out]
IsFull(r) == r.count = Size
IsEmpty(r) == r.count = 0

\* What the ring would give if it were emptied now.
Content(r) == [i \in 1 .. r.count |-> r.data[(r.out + i - 1) % Size]]

-----------------------------------------------------------------------------
GoTo(place) == pc' = place

BridgeInit ==
  /\ standalone \in BOOLEAN
  /\ connected = FALSE /\ configured = FALSE /\ serialOn = ~standalone
  /\ cardIn \in BOOLEAN /\ cardReady = FALSE
  /\ pc = "loop" /\ held = 0 /\ left = 0
  /\ toSerial = NewRing /\ toUsb = NewRing
  /\ serialOwed = <<>> /\ usbOwed = <<>>
  /\ overrun = FALSE /\ raced = FALSE

\* The combined firmware serves only a host, and only with a card.
LoopTest ==
  /\ pc = "loop"
  /\ GoTo(CASE standalone -> "receive"
            [] ~standalone /\ ~connected -> "drowsy"
            [] ~standalone /\ connected /\ cardReady -> "receive"
            [] OTHER -> "init")
  /\ UNCHANGED <<standalone, usb, cardIn, cardReady, held, left, rings>>

GoToSleep ==
  /\ pc = "drowsy"
  /\ cardReady' = FALSE /\ GoTo("asleep")
  /\ UNCHANGED <<standalone, usb, cardIn, held, left, rings>>

SDCardManager_Init ==
  /\ pc = "init" /\ cardIn
  /\ cardReady' = TRUE /\ GoTo("receive")
  /\ UNCHANGED <<standalone, usb, cardIn, held, left, rings>>

\* if (!IsFull) ReceivedByte = CDC_Device_ReceiveByte()
MayReceive == ~IsFull(toSerial)
ReceiveByte ==
  /\ pc = "receive"
  /\ \/ MayReceive /\ configured /\ (\E b \in Char : held' = b) /\ GoTo("insert")
     \/ GoTo("flush") /\ UNCHANGED held
  /\ UNCHANGED <<standalone, usb, cardIn, cardReady, left, rings>>

InsertReceived ==
  /\ pc = "insert"
  /\ toSerial' = Insert(toSerial, held)
  /\ serialOwed' = Append(serialOwed, held)
  /\ held' = 0 /\ GoTo("flush")
  /\ UNCHANGED <<standalone, usb, cardIn, cardReady, left, toUsb, usbOwed, overrun>>

\* The flush timer has run out, or the ring is nearly full.
NearlyFull == toUsb.count > (3 * Size) \div 4

\* (A variant: as many bytes as the ring has room for, whatever it holds.)
FlushWhole ==
  /\ pc = "flush"
  /\ \/ left' = Size /\ GoTo("peek")
     \/ ~NearlyFull /\ left' = 0 /\ GoTo("test")
  /\ UNCHANGED <<standalone, usb, cardIn, cardReady, held, rings>>

FlushTest ==
  /\ pc = "flush"
  /\ \/ left' = toUsb.count /\ GoTo("peek")
     \/ ~NearlyFull /\ left' = 0 /\ GoTo("test")
  /\ UNCHANGED <<standalone, usb, cardIn, cardReady, held, rings>>

\* while (BufferCount--): CDC_Device_SendByte() fails without a host that takes the
\* byte in time, and the byte stays in the ring.
PeekAndSend ==
  /\ pc = "peek"
  /\ \/ left > 0 /\ configured /\ left' = left - 1 /\ held' = Peek(toUsb) /\ GoTo("sent")
     \/ left' = 0 /\ GoTo("test") /\ UNCHANGED held
  /\ UNCHANGED <<standalone, usb, cardIn, cardReady, rings>>

Pop(q) == IF q = <<>> THEN q ELSE Tail(q)
RemoveSent ==
  /\ pc = "sent"
  /\ toUsb' = Remove(toUsb)
  /\ usbOwed' = IF IsEmpty(toUsb') THEN <<>> ELSE IF overrun THEN usbOwed ELSE Pop(usbOwed)
  /\ overrun' = (overrun /\ ~IsEmpty(toUsb'))
  /\ held' = 0 /\ GoTo("peek")
  /\ UNCHANGED <<standalone, usb, cardIn, cardReady, left, toSerial, serialOwed>>

\* if (!IsEmpty) Serial_SendByte(Remove): the test and the removal are two calls.

\* (A variant: a byte goes out on the serial line only when the ring is full.)
FullTest ==
  /\ pc = "test"
  /\ GoTo(IF IsFull(toSerial) THEN "send" ELSE "loop")
  /\ UNCHANGED <<standalone, usb, cardIn, cardReady, held, left, rings>>

EmptyTest ==
  /\ pc = "test"
  /\ GoTo(IF IsEmpty(toSerial) THEN "loop" ELSE "send")
  /\ UNCHANGED <<standalone, usb, cardIn, cardReady, held, left, rings>>

SendToSerial ==
  /\ pc = "send"
  /\ toSerial' = Remove(toSerial)
  /\ serialOwed' = Pop(serialOwed)
  /\ GoTo("loop")
  /\ UNCHANGED <<standalone, usb, cardIn, cardReady, held, left, toUsb, usbOwed, overrun>>

-----------------------------------------------------------------------------
(* Interrupts.                                                              *)

\* ISR(USART1_RX_vect): nobody asks whether there is room, and a host that takes nothing
\* lets the count come round to zero; not in the time the loop needs for its bytes.
USART1_RX ==
  /\ serialOn /\ configured
  /\ toUsb.count = Wrap - 1 => pc \notin {"peek", "sent"}
  /\ \E b \in Char :
       /\ toUsb' = Insert(toUsb, b)
       /\ overrun' = ((overrun \/ IsFull(toUsb)) /\ ~IsEmpty(toUsb'))
       /\ usbOwed' = IF overrun' \/ IsEmpty(toUsb') THEN <<>> ELSE Append(usbOwed, b)
  /\ UNCHANGED <<standalone, usb, cardIn, cardReady, pc, held, left, toSerial, serialOwed>>

Wakes == pc' = IF pc = "asleep" THEN "loop" ELSE pc

\* Only the stand-alone bridge begins a connection with empty rings.
EmptyRings ==
  /\ toSerial' = NewRing /\ toUsb' = NewRing
  /\ serialOwed' = <<>> /\ usbOwed' = <<>> /\ overrun' = FALSE
EVENT_USB_Device_Connect ==
  /\ ~connected
  /\ connected' = TRUE
  /\ \/ standalone /\ EmptyRings /\ raced' = (pc \in {"peek", "sent", "send"})
     \/ ~standalone /\ UNCHANGED <<rings, raced>>
  /\ Wakes
  /\ UNCHANGED <<standalone, configured, serialOn, cardIn, cardReady, held, left>>

EVENT_USB_Device_Disconnect ==
  /\ connected
  /\ connected' = FALSE /\ configured' = FALSE
  /\ Wakes
  /\ UNCHANGED <<standalone, serialOn, raced, cardIn, cardReady, held, left, rings>>

\* Not by a processor asleep or in the last 10 ms before.
EVENT_USB_Device_ConfigurationChanged ==
  /\ connected /\ ~configured /\ pc \notin {"drowsy", "asleep"}
  /\ configured' = TRUE
  /\ UNCHANGED <<standalone, connected, serialOn, raced, cardIn, cardReady, pc, held, left, rings>>

\* Only the stand-alone bridge lets the host set, and so switch on, the USART.
EVENT_CDC_Device_LineEncodingChanged ==
  /\ configured /\ standalone
  /\ serialOn' = TRUE
  /\ UNCHANGED <<standalone, connected, configured, raced, cardIn, cardReady, pc, held, left,
                 rings>>

ChangeCard ==
  /\ cardIn' = ~cardIn
  /\ UNCHANGED <<standalone, usb, cardReady, pc, held, left, rings>>

Main == LoopTest \/ GoToSleep \/ SDCardManager_Init \/ ReceiveByte \/ InsertReceived
          \/ FlushTest \/ PeekAndSend \/ RemoveSent \/ EmptyTest \/ SendToSerial

BridgeNext ==
  \/ Main
  \/ USART1_RX
  \/ EVENT_USB_Device_Connect \/ EVENT_USB_Device_Disconnect
  \/ EVENT_USB_Device_ConfigurationChanged \/ EVENT_CDC_Device_LineEncodingChanged
  \/ ChangeCard

BridgeSpec == BridgeInit /\ [][BridgeNext]_bridgeVars

-----------------------------------------------------------------------------
Ring == [data : [0 .. Size - 1 -> Char], in : 0 .. Size - 1, out : 0 .. Size - 1,
         count : 0 .. Wrap - 1]

(* The variables keep their types, the indices of a ring are as far apart as its  *)
(* count says, and the ring towards the serial line, from which each round of the *)
(* loop takes what it has put in, never holds more than one byte.                 *)
BridgeTypeOK ==
  /\ {standalone, connected, configured, serialOn, cardIn, cardReady, overrun, raced}
       \subseteq BOOLEAN
  /\ pc \in {"loop", "drowsy", "asleep", "init", "receive", "insert", "flush", "peek", "sent",
             "test", "send"}
  /\ held \in Char \cup {0} /\ left \in 0 .. Wrap - 1
  /\ toSerial \in Ring /\ toUsb \in Ring
  /\ \A r \in {toSerial, toUsb} : (r.out + r.count) % Size = r.in
  /\ ~raced => toSerial.count <= 1
  /\ configured => connected

(* The rings give every byte once and in the order in which it came: the one      *)
(* towards the host unless it was overrun since it was last empty, after which it *)
(* is in step again; both unless a connection emptied them between a test and the *)
(* removal it was for.                                                            *)
BytesInOrder ==
  ~raced => /\ Content(toSerial) = serialOwed
            /\ ~overrun => Content(toUsb) = usbOwed
=============================================================================
