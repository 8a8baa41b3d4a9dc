------------------------------- MODULE SdRaw -------------------------------
(***************************************************************************)
(* The SD card as the USB host sees it: the one-block write-back cache of  *)
(* sd_raw.c in the 32u4, driven by SDCardManager.c and SCSI.c, in front of *)
(* a card that the 1284p reads and writes on request (sd_reader_int.cpp).  *)
(*                                                                         *)
(* A SCSI command names a run of blocks.  Their data travels in chunks (16 *)
(* bytes in the code), four of which make a USB packet, and a chunk is     *)
(* merged into the cached block; the cache goes to the card when another   *)
(* block is needed, and only then: no command of the host makes it go      *)
(* there.  Nothing that goes wrong ends a command: the loops over blocks   *)
(* and the SCSI handler look at no status, so the next block is tried with *)
(* what is in the endpoint, and the host is told of success.               *)
(***************************************************************************)
EXTENDS Integers, FiniteSets

CONSTANTS
  NBlocks,     \* number of blocks of the card
  NParts,      \* chunks per block
  NPacket,     \* chunks per USB packet
  Values,      \* contents of a chunk
  Zero,        \* the chunk of zeros that fills the cache at reset
  NoPromise,   \* nothing has been acknowledged for the block
  NoAnswer,
  Idle,        \* no SCSI command is running
  FaultKinds,  \* which of the faults below can happen
  MaxFaults    \* bound on the number of faults of a behaviour

ASSUME SizesAssumption ==
  /\ NBlocks \in Nat \ {0} /\ NParts \in Nat \ {0} /\ Zero \in Values
  /\ NPacket \in Nat \ {0} /\ NParts % NPacket = 0
ASSUME FaultsAssumption ==
  /\ FaultKinds \subseteq {"fetch", "flush", "refuse", "late", "unplug", "reset"}
  /\ MaxFaults \in Nat

Blocks == 0 .. NBlocks - 1
NoBlock == -1
Parts == 1 .. NParts
Data == [Parts -> Values]
Zeros == [p \in Parts |-> Zero]

\* A command.  block and part are where sd_raw.c is; from and chunk name the next
\* chunk of the host's data, which are what it sends or what it has been sent.
Commands ==
  [kind : {"read", "write"}, first : Blocks, last : Blocks, block : Blocks, part : Parts,
   data : [Blocks -> Data], from : Blocks, chunk : Parts,
   at : {"start", "take", "card"},     \* in the wait before the data, in the handler
                                       \* that takes a chunk, or in sd_raw.c
   host : {"here", "gone", "reset"}]   \* waits for the data; the cable was pulled, or
                                       \* IsMassStoreReset

ASSUME TokensAssumption ==
  /\ NoPromise \notin Data
  /\ Idle \notin Commands
  /\ NoAnswer \notin Blocks \X Data

VARIABLES
  card,       \* what is on the card
  cacheAddr,  \* raw_block_address
  cacheData,  \* raw_block
  written,    \* raw_block_written: the cache holds nothing the card lacks
  link,       \* "down" asleep, "init" in SDCardManager_Init, "up" serving
  op,         \* the SCSI READ or WRITE that is running, or Idle
  answer,     \* the block the host took last, and the data it took for it
  promise,    \* history: the data last acknowledged to the host
  harmed,     \* history: blocks that a fault has hit since they were last written
  faults      \* history: how many faults there have been

cacheVars == <<cacheAddr, cacheData, written>>
hostVars == <<op, answer, promise>>
faultVars == <<harmed, faults>>
vars == <<card, cacheVars, link, hostVars, faultVars>>

TypeOK ==
  /\ card \in [Blocks -> Data]
  /\ cacheAddr \in Blocks \cup {NoBlock}
  /\ cacheData \in Data
  /\ written \in BOOLEAN
  /\ link \in {"down", "init", "up"}
  /\ op \in Commands \cup {Idle}
  /\ answer \in (Blocks \X Data) \cup {NoAnswer}
  /\ promise \in [Blocks -> Data \cup {NoPromise}]
  /\ harmed \in SUBSET Blocks
  /\ faults \in Nat

\* Reset leaves the statics zero: an unwritten block of zeros at address 0.
ResetCache == cacheAddr' = 0 /\ cacheData' = Zeros /\ written' = FALSE

Init ==
  /\ card \in [Blocks -> Data]
  /\ cacheAddr = 0 /\ cacheData = Zeros /\ written = FALSE
  /\ link = "down"
  /\ op = Idle
  /\ answer = NoAnswer
  /\ promise = [b \in Blocks |-> NoPromise]
  /\ harmed = {}
  /\ faults = 0

Fault(kind, blocks) ==
  /\ kind \in FaultKinds
  /\ faults < MaxFaults
  /\ faults' = faults + 1
  /\ harmed' = harmed \cup blocks

\* The block whose only copy is the cache.
Unsaved == IF link = "up" /\ ~written THEN {cacheAddr} ELSE {}

-----------------------------------------------------------------------------
(* Connection *)

\* EVENT_USB_Device_Connect: the main loop goes on to SDCardManager_Init.
Connect ==
  /\ link = "down"
  /\ link' = "init"
  /\ UNCHANGED <<card, cacheVars, hostVars, faultVars>>

\* sd_raw_init(): the cache is emptied, whatever it held, and block 0 read in.
SdRawInit ==
  /\ link = "init"
  /\ cacheAddr' = 0 /\ cacheData' = card[0] /\ written' = TRUE
  /\ link' = "up"
  /\ UNCHANGED <<card, hostVars, faultVars>>

\* The read ahead fails: SDCardManager_Init tries for ever.
SdRawInitFails ==
  /\ link = "init"
  /\ Fault("fetch", {})
  /\ cacheAddr' = NoBlock /\ written' = TRUE
  /\ UNCHANGED <<card, cacheData, link, hostVars>>

-----------------------------------------------------------------------------
(* SCSI READ (10) and WRITE (10) *)

Command(kind, first, last, data) ==
  [kind |-> kind, first |-> first, last |-> last, block |-> first, part |-> 1,
   data |-> data, from |-> first, chunk |-> 1, at |-> "start", host |-> "here"]

StartRead(first, last) ==
  /\ link = "up" /\ op = Idle
  /\ op' = Command("read", first, last, [b \in Blocks |-> Zeros])
  /\ answer' = NoAnswer
  /\ UNCHANGED <<card, cacheVars, link, promise, faultVars>>

StartWrite(first, last, data) ==
  /\ link = "up" /\ op = Idle
  /\ op' = Command("write", first, last, data)
  /\ promise' = [b \in Blocks |-> IF b \in first .. last THEN NoPromise ELSE promise[b]]
  /\ harmed' = harmed \ (first .. last)
  /\ answer' = NoAnswer
  /\ UNCHANGED <<card, cacheVars, link, faults>>

Running == link = "up" /\ op # Idle
Miss == Running /\ op.at = "card" /\ op.block # cacheAddr
Hit == Running /\ op.at = "card" /\ op.block = cacheAddr

\* Where a chunk begins: a WRITE takes it from the host, a READ from sd_raw.c.
Top == IF op.kind = "write" THEN "take" ELSE "card"

\* Mutant: the host's data is never followed into the next block.
GoOnWithin(block, part) == [op EXCEPT !.block = block, !.part = part, !.at = Top, !.chunk = @ + 1]

\* One more chunk has passed the endpoint, and a part of a block is next.
GoOn(block, part) ==
  [op EXCEPT !.block = block, !.part = part, !.at = Top,
             !.from = IF op.chunk < NParts THEN @ ELSE @ + 1,
             !.chunk = IF @ < NParts THEN @ + 1 ELSE 1]

\* No chunk has passed, and the next block is next.
GoOnWithout == [op EXCEPT !.block = @ + 1, !.part = 1]

\* The SCSI command succeeds; a host that has left hears nothing of it.
Finish ==
  /\ op' = Idle
  /\ promise' = [b \in Blocks |->
       IF op.kind = "write" /\ op.host = "here" /\ b \in op.first .. op.last
         THEN op.data[b] ELSE promise[b]]

\* A block is over, well or badly: the loops of SDCardManager.c go on with the
\* next one.  Only WriteBlocks looks at IsMassStoreReset.
NextBlock(next) ==
  IF op.block < op.last /\ (op.kind = "write" => op.host # "reset")
    THEN op' = next /\ UNCHANGED promise
    ELSE Finish

\* The block fails inside sd_raw_read or sd_raw_write.  SDCardManager.c ignores
\* the status; a chunk already taken from the host is gone, the rest of the
\* block stays in the endpoint for the next block.
SkipBlock == NextBlock(IF op.kind = "write" THEN GoOn(op.block + 1, 1) ELSE GoOnWithout)

\* Endpoint_WaitUntilReady() before the first block: there is a packet, or room.
Ready ==
  /\ Running /\ op.at = "start"
  /\ op' = [op EXCEPT !.at = Top]
  /\ UNCHANGED <<card, cacheVars, link, answer, promise, faultVars>>

\* SDCardManager_WriteBlockHandler takes a chunk.  From a host that has begun
\* anew it takes what there is of another command.
Take ==
  /\ Running /\ op.kind = "write" /\ op.at = "take"
  /\ \E v \in IF op.host = "here" THEN {op.data[op.from][op.chunk]} ELSE Values :
       op' = [op EXCEPT !.at = "card", !.data[op.from][op.chunk] = v]
  /\ UNCHANGED <<card, cacheVars, link, answer, promise, faultVars>>

\* A chunk that begins a packet, but for the first, which Ready has waited for.
NewPacket == (op.chunk - 1) % NPacket = 0 /\ <<op.from, op.chunk>> # <<op.first, 1>>

\* No packet for 100 ms, or a bus that is suspended or gone (whose reset empties the
\* endpoint).  Before the first block, the command is over; in a handler the block
\* is, and a chunk that was to go to the host with it.
WaitFails ==
  /\ Running
  /\ \/ op.at = "start" /\ Finish
     \/ /\ op.at = "take" \/ (Hit /\ op.kind = "read")
        /\ op.host = "here" => NewPacket
        /\ NextBlock(GoOnWithout)
  /\ IF op.host = "here"
       THEN Fault("late", IF op.kind = "write" THEN op.block .. op.last ELSE {})
       ELSE UNCHANGED faultVars
  /\ UNCHANGED <<card, cacheVars, link, answer>>

\* sd_raw_sync() before another block is brought in.
Flush ==
  /\ Miss /\ ~written
  /\ card' = [card EXCEPT ![cacheAddr] = cacheData]
  /\ written' = TRUE
  /\ UNCHANGED <<cacheAddr, cacheData, link, hostVars, faultVars>>

\* card.writeBlock() fails and the 1284p answers "always success".
FlushLost ==
  /\ Miss /\ ~written
  /\ Fault("flush", {cacheAddr})
  /\ written' = TRUE
  /\ UNCHANGED <<card, cacheAddr, cacheData, link, hostVars>>

\* Mutant: sd_raw_sync() marks the block written before it looks at the status.
FlushForgotten ==
  /\ Miss /\ ~written
  /\ Fault("refuse", op.block .. op.last)
  /\ SkipBlock
  /\ written' = TRUE
  /\ UNCHANGED <<card, cacheAddr, cacheData, link, answer>>

\* The WRITE command itself is refused: the cache stays as it is.
FlushRefused ==
  /\ Miss /\ ~written
  /\ Fault("refuse", op.block .. op.last)
  /\ SkipBlock
  /\ UNCHANGED <<card, cacheVars, link, answer>>

\* Mutant: sd_raw_read() does not call sd_raw_sync().
FetchWithoutSync ==
  /\ Miss
  /\ cacheAddr' = op.block
  /\ cacheData' = card[op.block]
  /\ written' = TRUE
  /\ UNCHANGED <<card, link, hostVars, faultVars>>

Fetch ==
  /\ Miss /\ written
  /\ cacheAddr' = op.block
  /\ cacheData' = card[op.block]
  /\ UNCHANGED <<card, written, link, hostVars, faultVars>>

FetchFails ==
  /\ Miss /\ written
  /\ Fault("fetch", op.block .. op.last)
  /\ SkipBlock
  /\ UNCHANGED <<card, cacheVars, link, answer>>

\* SDCardManager_ReadBlockHandler: a chunk of the cached block goes to the host,
\* which takes it for the one that is due.
Deliver ==
  /\ Hit /\ op.kind = "read"
  /\ LET sent == [op.data EXCEPT ![op.from][op.chunk] = cacheData[op.part]]
         Sent(next) == [next EXCEPT !.data = sent]
     IN  /\ answer' = IF op.chunk = NParts /\ op.host = "here" THEN <<op.from, sent[op.from]>>
                                                               ELSE answer
         /\ IF op.part < NParts /\ op.host # "reset"
              THEN op' = Sent(GoOn(op.block, op.part + 1)) /\ UNCHANGED promise
              ELSE NextBlock(Sent(GoOn(op.block + 1, 1)))
  /\ UNCHANGED <<card, cacheVars, link, faultVars>>

\* The chunk taken from the host goes into the cached block.
MergeChunk ==
  /\ Hit /\ op.kind = "write"
  /\ cacheData' = [cacheData EXCEPT ![op.part] = op.data[op.from][op.chunk]]
  /\ written' = FALSE
  /\ IF op.part < NParts
       THEN op' = GoOn(op.block, op.part + 1) /\ UNCHANGED promise
       ELSE NextBlock(GoOn(op.block + 1, 1))
  /\ UNCHANGED <<card, cacheAddr, link, answer, faultVars>>

-----------------------------------------------------------------------------
(* The cable and the watchdog *)

\* The host leaves a command that is running, which goes on: its cable is pulled
\* (and back before the main loop looks, or not), or it resets the interface, in
\* an interrupt.
HostLeaves(how) ==
  /\ Running
  /\ op.host # "reset" /\ how # op.host
  /\ op' = [op EXCEPT !.host = how]
  /\ UNCHANGED <<card, cacheVars, link, answer, promise, faultVars>>

\* EVENT_USB_Device_Disconnect, then, from the main loop, GoToSleep(): the cache
\* keeps what it has.
Disconnect ==
  /\ link = "up" /\ op = Idle
  /\ Fault("unplug", Unsaved)
  /\ link' = "down"
  /\ UNCHANGED <<card, cacheVars, hostVars>>

\* The watchdog cuts a command of sd_raw.c short.  In the middle of a block that
\* goes to the card, the 1284p clocks in noise for the rest of it and writes that.
WatchdogReset ==
  /\ link = "init" \/ Miss
  /\ Fault("reset", Unsaved)
  /\ card' \in {card} \cup {[card EXCEPT ![b] = d] : b \in Unsaved, d \in Data}
  /\ ResetCache
  /\ link' = "init"
  /\ op' = Idle
  /\ UNCHANGED <<answer, promise>>

HostStep ==
  \/ \E first, last \in Blocks :
       /\ first <= last
       /\ \/ StartRead(first, last)
          \/ \E data \in [Blocks -> Data] :
               /\ \A b \in Blocks \ (first .. last) : data[b] = Zeros
               /\ StartWrite(first, last, data)
  \/ \E how \in {"gone", "reset"} : HostLeaves(how)

EndpointStep == Ready \/ Take \/ WaitFails

CacheStep == Flush \/ Fetch \/ Deliver \/ MergeChunk

FaultStep ==
  \/ SdRawInitFails \/ FlushLost \/ FlushRefused \/ FetchFails
  \/ Disconnect \/ WatchdogReset

Next == Connect \/ SdRawInit \/ HostStep \/ EndpointStep \/ CacheStep \/ FaultStep

Spec == Init /\ [][Next]_vars

-----------------------------------------------------------------------------
(* Properties *)

\* What the host would read: the cache in front of the card.
View == [b \in Blocks |-> IF link = "up" /\ b = cacheAddr THEN cacheData ELSE card[b]]

\* The array of blocks the host was promised.
Device == INSTANCE BlockDevice WITH store <- View

\* Until something fails or the cable is pulled, the host has its array of blocks:
\* flushing and fetching are invisible, and a read returns what the block holds, of
\* whichever commands its chunks came from.
ImplementsBlockDevice == Device!Init /\ [][Device!Next \/ faults' > 0]_<<View, answer>>

\* A cache that says it is written holds what the card holds, with cables pulled
\* and 32u4s reset at any point, if no block is lost on its way to the card.
CleanCacheIsCoherent == link = "up" /\ written => cacheData = card[cacheAddr]

Kept(b) ==
  promise[b] \in {NoPromise, card[b]} \/ (link = "up" /\ cacheAddr = b /\ cacheData = promise[b])

\* A fault - a block the card does not take, a command it refuses, a packet of the
\* host that comes late, a pulled cable, a watchdog reset - costs the host nothing
\* but the block in the cache or the blocks that were left of the command it hit,
\* until they are written again.
DamageIsLocal == \A b \in Blocks : Kept(b) \/ b \in harmed

(* What comments of the code say and the code does not do *)

\* "you should call this function before disconnecting the card to ensure all
\* remaining data has been written" (sd_raw.c:685-688): once disconnected, every
\* acknowledged block is on the card.
OnCardWhenDisconnected == link = "down" => \A b \in Blocks : promise[b] \in {NoPromise, card[b]}
=============================================================================
