# bGeigie: a verification project in TLA+

The bGeigie is a mobile radiation logger: a Geiger tube, a GPS receiver, a radio and an SD card on an
ATmega1284p, with an ATmega32u4 beside it that shows the same SD card to a computer as a USB drive.
The Ninja 2 is its wireless display. This directory models the firmware in C and C++ (Arduino
sketches, their libraries, and the LUFA based USB firmware), checks the models with TLC on small
instances, and proves the main safety properties with TLAPS for every value of the constants.

## 1. Inventory

| Part | Source (under `src/`) | State | Operations | What is hard |
|---|---|---|---|---|
| Power management | `examples/bGeigie3/bg_pwr.cpp` | `bg_pwr_state`, button flag and time, `bg_pwr_exec_sleep_routine_flag` | button ISR, `bg_pwr_loop`, `bg_pwr_down`, `bg_pwr_turn_off` | ISRs between a test and the sleep it guards; one flag cleared on some paths only |
| SD reader service (1284p) | `examples/bGeigie3/sd_reader_int.cpp` | `sd_reader_state` IDLE / ACTIVE / DISABLED, `sd_reader_interrupted`, time of the last request | request ISR, `sd_reader_loop`, `sd_reader_lock`, `sd_reader_unlock`, `sd_reader_process_interrupt` | a session that ends by silence alone; a request that comes anywhere; an unframed exchange of bytes |
| Main loop | `examples/bGeigie3/bGeigie3.ino` | who holds the card, powered or not; the window of bins, the status flag, the log file's name | `loop`, `power_up`, `shutdown`, `check_battery_voltage`, `diagnostics` | sharing one card; data that survive a sleep |
| Block cache (32u4) | `SDReader32u4/USBtoSerialMassStorage/` (`sd_raw.c`, `SDCardManager.c`, `SCSI.c`) | one cached block, its address, its clean flag | SCSI READ and WRITE, `sd_raw_read`, `sd_raw_write`, `sd_raw_sync`, `sd_raw_init`, connect, disconnect, watchdog | write-back without a flush; errors of the card; unplugging |
| Mass storage firmware (32u4) | `SDReader32u4/MassStorage/` | connection and configuration, the command in hand, status, sense key, cached capacity | `MassStorage_Task` with CBW, data and CSW, every SCSI command, `GoToSleep`, USB events | resets, halts and timeouts between two steps of the task; packets left in a bank |
| SPI link | `MassStorage/Lib/sd_raw.c` with `sd_reader_int.cpp` | command, argument, buffer and position on each side; one received byte and its flag | `sd_raw_init`, `_send_command`, `_read`, `_write`, `_get_info`; the five answers of the 1284p | nothing frames the bytes; retries; a watchdog that resets one side in the middle |
| USB-serial bridge (32u4) | `SDReader32u4/USBtoSerial/`, `USBtoSerialMassStorage.c` | two ring buffers, connection, USART | main loop, receive interrupt, connect, configure, line encoding | rings emptied between a test and a removal; overflow |
| Hardware pulse counter | `HardwareCounter.cpp` | timer, overflow count, start time | `start`, `count`, `available`, overflow ISR | pulses between two statements; two counters that wrap |
| Interrupt pulse counter | `bGeigieMini/InterruptCounter.cpp` | `_count` (4 bytes), start time | `interruptCounterReset`, `Count`, `Available`, ISR | a count of several bytes that an interrupt increments |
| bGeigieMini | `bGeigieMini/bGeigieMini.ino`, `GPS.cpp`, `sd_logger.cpp` | line buffer, GPS data, window, file name, logger status | `setup`, `loop`, `truncate_JP`, `gps_update`, `sd_log_writeln` | one buffer for the GPS line and the log line; everything between two interrupts |
| GPS receiver, SD logger (bGeigie3) | `GPS.cpp`, `sd_logger.cpp` | line buffer, `_updating`, last data; inserted, initialised, last write | `gps_update`, `gps_init`, `sd_log_init`, `sd_log_writeln` | lines that are cut, stale data; write and verify, a card inserted late |
| Configuration | `examples/bGeigie3/config.cpp`, `commands.cpp` | `theConfig`, EEPROM, `BGCONFIG.TXT` | `config_init`, `config` command | power cuts between bytes; three copies to reconcile |
| Ninja 2 display | `examples/bGeigieNinja2/` | `devices[]`, `dev_index`, power state | `extract_data`, `find_device`, selection, timeouts, button ISR, `power_up` | more detectors than slots; an ISR that moves the selection |
| Others | sensors, LED, older devices, burners, boot loader, factory script | | | see `PROJECT.json`, each with its reason |

How they interact. The 1284p runs one thread, `loop()`. On every pass it tests the battery, lets
`bg_pwr_loop()` look at the button (and sleep inside it as long as the state is DOWN), lets
`sd_reader_loop()` serve a command of the 32u4, and if the device is on and the reader gives the card
up (`sd_reader_lock()`), counts, names a file and writes a line. The 32u4 raises a request line, waits
for the 1284p to notice (an ISR sets a flag), exchanges a command and up to 512 bytes over SPI, and is
reset by its watchdog when it waits longer than four seconds. The host sees only the cache of the 32u4,
and that only through a USB transport with one packet per endpoint. The configuration is read at every
`power_up()`, after the card. The bGeigieMini is one processor with one thread and one interrupt.

What makes each part correct:

* power: asleep means off; only the user switches on; one press, one switch; off leads to sleep, on to logging;
* reader: the logger and the host never have the card at the same time, neither starves the other;
* link: a command that ends well has moved the bytes it was meant to move, and every command ends;
* cache: the host sees an array of blocks; a failure costs no more than the data it hits;
* transport: every packet and status belongs to the command the host waits for, and it gets one;
* bridge: bytes come out once and in order;
* counters: no pulse lost or counted twice, the measuring period right over the wrap of `millis()`;
* log: the reported sum is that of the last minute's bins, `A` means a full window, one file per drive;
* bGeigieMini: in addition, GPS and log line do not meet in their buffer, and a due bin is logged;
* configuration: what was saved comes back; a valid line of the file wins; a power cut invents no values;
* display: one slot per detector, no foreign counts, and room for newcomers.

## 2. Modules

| Module | Lines | Models | Proofs |
|---|---|---|---|
| `MainCpu` | 443 | power management, reader service and main loop of the 1284p, composed: one program counter for `loop()`, two ISRs, a user, a battery, a card slot and a 32u4 as environment | `MainCpuProofs` |
| `SpiLink`, `MCSpiLink` | 487 | both ends of the SPI exchange, byte by byte, with watchdog, retries, card slot and reconnection | `LinkProofs` |
| `SdRaw` | 378 | the 32u4's block cache between SCSI commands and the card, with six kinds of faults | `SdRawProofs` |
| `BlockDevice` | 34 | the abstract specification of `SdRaw`: an array of blocks | (refinement, in `SdRawProofs`) |
| `MassStorage` | 442 | the stand-alone mass storage firmware, its two endpoints and a host that resets, unplugs and clears halts | `MassStorageProofs` |
| `SerialBridge` | 253 | both firmwares with the USB-serial bridge: rings, main loop, sleep, interrupts | `LinkProofs` |
| `HardwareCounter` | 204 | `start()`, `count()`, `available()` and the overflow ISR, statement by statement | `CountingProofs` |
| `GeigerLog` | 237 | one bin of the bGeigie3 under the lock: window, status, file name; GPS sentences and power cycles | `CountingProofs` |
| `MiniLoop`, `MCMiniLoop` | 439 | the bGeigieMini: loop, interrupt counter, GPS line, logger | `MiniLoopProofs` |
| `Config`, `MCConfig` | 308 | the merge of EEPROM and file, the `config` command, power cuts inside writes, a card begun or not | `ConfigProofs` |
| `DeviceTable` | 256 | the Ninja 2's table, selection, timeouts, button ISR and power cycle | `DeviceTableProofs` |

Constants without a model-checking module are given in the `.cfg`; the `MC` modules are those whose
constants are functions. `PROJECT.json` maps every definition to the lines it stands for. Definitions
marked as variants or mutants are plausible mistakes in the definition that follows them; no
specification uses them, and `PROJECT.json` names the property each one violates.

### MainCpu
`pc` names the places of `loop()` where an interrupt can make a difference; the comment over
`Locations` says which code lies between them. `pwr`, `execSleep`, `pressed`, `reader`, `interrupted`
and `initStatus` are the globals of the same meaning. Times are abstracted to the one comparison made
with them (`pressAged`, `readerAged`): only ageing past the limit matters, and it can happen at any
moment at which the timer runs. `powered` stands for the high voltage board, GPS and sensors, which
`power_up()` and `shutdown()` switch together. The 32u4 is reduced to its request line: it goes high
while a host is attached and goes low by an answer or by the watchdog; the command itself is any of
those `sd_reader_process_interrupt()` tells apart, with any outcome (`SpiLink` has the bytes). The
watchdog is excluded between the test of the `while` and `sleep_mode()`: four seconds against a few
lines. `toggled` is a history variable for `OneSwitchPerHold`.

### SpiLink
`mphase` and `mi` are where the master is: in which group of transfers, at which byte; `spc`, `sphase`
and `si` are the same for the slave. One `Transfer` swaps two bytes and leaves what the master sent in
the slave's receive buffer with `SPIF` set, whether the slave waits for it or not; that is how the two
get out of step. A transfer waits for a slave that is in a wait loop to take the byte before
(`spi_delay()`), for nobody else. `Serve` is the switch over `cmd`, `Dispatch` the refusal with the
constant `if (SD_READER_ACTIVE)`. A watchdog bites a slave that nobody serves (`Starved`), as often as
that happens, and `MaxResets` times one whose master is merely late. `torn` remembers what may have set
the sides apart since the last boot: a refusal; noise from a 32u4 without SPI that the master took for a
command; a reset; and a boot that ended before the master lowered its flag ("late"). What the cache does
with a block is `SdRaw`; here a WRITE sends one of `Blocks`.

### SdRaw and BlockDevice
One SCSI command runs at a time (the USB task is a single thread). A step is one call's effect on the
cache: flush, fetch, deliver a chunk to the host, take one from it, merge it. The code's chunks of 16
bytes are `NParts` parts of a block, `NPacket` of them a USB packet. No failure ends a command: when a
handler returns 0, or `sd_raw.c` fails, the block is over, `WriteBlocks` and `ReadBlocks` go on with the
next one (`NextBlock`), and `SCSI.c` reports success (`Finish`). A command has therefore two places,
`block` and `part` in `sd_raw.c` and `from` and `chunk` in the host's data, and after a failure they drift
apart: the rest of one block of data goes into the next block of the card. Only the write handler's loop
and the read handler look at `IsMassStoreReset`; a host that has left otherwise (`op.host`) does not
stop the loops either, and every wait for it fails.

Faults, each a kind in `FaultKinds`: a read that fails ("fetch"), a write that the card does not take
while the 1284p answers success ("flush"), a command that is refused ("refuse"), a packet of the host
that comes after the wait for it has timed out ("late"), a pulled cable ("unplug"), a watchdog reset in
the middle of a transfer ("reset", which leaves the statics zero and the block being written with any
content). `promise` remembers what was acknowledged to the host and not overwritten since, `harmed` the
blocks a fault has named. The write permission (`sd_rw`) is taken to be on; with it off every WRITE is
refused. Left out: a packet that arrives in the few cycles between `Endpoint_IsReadWriteAllowed()` and
`Endpoint_ClearOUT()`, which the latter would drop.
`BlockDevice` knows only blocks: writing a part, asking, and answering with the block's content. The
mapping is `store <- View`, the cache laid over the card, and it holds until the first fault; it holds
too for a command whose host has left, whatever data the next command brings into it.

### MassStorage
`pc` follows the main loop and `MassStorage_Task()`: reading the command block, decoding it, serving
blocks, the two waits of `ReturnCommandStatus()`, the status, the end of the task. Each endpoint is one
bank and one STALL flag. A packet carries the tag of its command (tags count modulo three: a packet
that is two commands old would show). The SCSI commands of the code are the eight disjuncts of
`SCSI_DecodeSCSICommand`. USB events come between any two steps, as their interrupts do. The host is
external: it gives one command at a time, clears the halts it meets, gives up when it likes and then
leaves the device the time to see the reset. `host.late` notes that the library's timeout for a bank
that stays full has passed; `carried` that the task was still at work on a command of an earlier
connection when a new host configured the device.

### SerialBridge
The ring buffer is LUFA's and external: its count is a 16-bit number and neither insertion nor removal
tests it, so the model's wraps too (`Wrap`). `standalone`, chosen in `Init`, tells the two firmwares
apart: what a connection does to the rings, who switches the USART on, and whether the device sleeps and
waits for a card. `serialOwed` and `usbOwed` are the bytes that should still come out. `raced` marks a
behaviour in which a connection emptied the rings between a test and its removal; the count then is off
for good.

### HardwareCounter
Each statement of `start()` and `count()` that touches the gate, the timer or `g_ovf_n` is a step, in
the order of the source (the object code keeps it for the register accesses; `g_ovf_n` is not volatile
and the order is an assumption about the compiler). A pulse can come between any two steps, at most
one between two adjacent statements; the overflow ISR runs before the next pulse. `Clock` and `Mod`
are 2^32 and 2^16 in the code.

### GeigerLog
Its state and actions, and those of `SerialBridge`, have a prefix in their names (`LogInit`, `LogNext`;
`BridgeInit`, `BridgeNext`) where another component has the same name, because one module of proofs
extends both. `Bin` is the whole block of `loop()` under `hwc.available()`: insert the bin, sum, update
the total, set the status, name the file, write. `gps_update()` is three actions by its effect on the
flags the block reads. Dates are model values, `Year80` the receiver's date without a clock and `NoDate`
an empty field. `running` keeps bins from being made before the button was ever held; `Diagnostics` is
what `diagnostics()` does to the state, the success of a test write. While the reader has the card,
`loop()` restarts the counter and touches nothing else here.

### MiniLoop
The bytes of `_count` are read and cleared one at a time, `low` and `high` standing for two adjacent
ones of the four; an interrupt can come between any two. A GPS character is told apart as far as the
code does: the newline, and whether the buffer holds the present sentence from its start without a gap
(`whole`), which is when its checksum can be right. The log line is made in the same buffer (`Bin`).
`LoseCharacters` is the serial buffer that overflows while `loop()` is busy. Positions are pairs of
numbers and `TruncateJP` is the arithmetic of the code, with its two grids. `sd_log_writeln()` is four
actions: no card or no file, open, print with interrupts off, verify. `place` is truncated in place,
`sentPlace` remembers what the GPS module sent.

### Config
`config_t` is its eight bytes, as in EEPROM, so that a power cut can fall between the two bytes of the
id. `todo` lists the writes under way: eight for the EEPROM, three for the file (removed, created empty,
closed with its content: the SD library enters the size at closing). `SetDefault` keeps the four tests
of `cfgSetDefault()` as they are, `AsHex` the conversion from `%u` to base 16.

A card is "out" of the slot, "in" it, or "begun". `SD.begin()` is called by `sd_log_init()` alone, which
`setup()` and `power_up()` call before `config_init()`, so a card that is put in later is not begun: no file
of it opens, every step of `configToFile()` fails, and its callers do not look at what it returns. The
user can still reach the file through the reader. `savedTo` remembers the state of the card at the last
full `config save`. A byte of the EEPROM is written whole or not at all (the hardware promises less when
the supply fails in the 3.4 ms of a write), and the card is not pulled in the middle of the writes.

### DeviceTable
One pass of `loop()` is `receive`, `select` and a `timeout` test per slot; the button ISR
(`NextDevice`) and the clock (`Tick`) come between any two. Slots start as zeros, hence the detector
number 0 among the ids: it looks like an unused slot. `age` is the time since the last sentence, up to
the first value beyond the timeout. `power_up()` and the power cycle of `pwr.cpp` are actions too.

## 3. Runs

| Run | Instance (distinct states) | What it shows |
|---|---|---|
| `main_cpu` | both states of the card slot, no bound (19 392) | safety and liveness of the power state machine and the arbitration |
| `main_cpu_stuck` | same | *violation:* with no card at power up, a noted request keeps a device that is switched off awake for ever, because `sd_reader_loop()`, the only code to lower the flag, is not called |
| `main_cpu_dark` | card present | *violation:* a request during the press that switches the device on makes `power_up()` return at once; the device logs with its detector off |
| `sd_raw` | 2 blocks of 2 parts, 2 values, at most 2 faults of any of the 6 kinds (1 090 594) | refinement of `BlockDevice` until the first fault; what a fault can damage |
| `spi_link` | arguments of 2 bytes, blocks of 7, registers of 1, 2 addresses, 3 tries, 1 early reset (951 517) | commands move the bytes they should; a write goes where the last WRITE asked; every command ends |
| `mass_storage` | cards of 2 and 3 blocks, all 11 kinds of command, addresses 0 and 1, 1 or 2 blocks, 4 changes of cable or card (833 586) | packets and status belong to the command; the sense key to the last one; commands are answered |
| `serial_bridge` | rings of 2, counts modulo 6, 2 bytes, both firmwares (443 390) | bytes once and in order |
| `hardware_counter` | timer of 3, clock of 6, delay 3, 7 pulses, 5 ticks (28 050) | no pulse lost; exact reading with one exception; the period |
| `geiger_log` | window of 3, counts 0..2, 2 dates, total up to 3 (13 538) | the sum of the last bins, the flag, one file |
| `mini_loop` | buffer of 2, window of 1, bytes of 2 values, 2 pulses, one date and one position (689 488) | buffer, count, file, position; a due bin is logged |
| `config` | 2 ids that differ in both bytes, 4 files (complete, one flag, id only, empty), 5 user actions, 2 interrupted writes (4 680 867) | recovery and precedence |
| `device_table` | 3 detectors (0 among them), 2 slots, counts 0 and 1, timeout 0 (47 054) | distinct slots, own counts, newcomers get in |

Why the bounds are enough. MainCpu has none. SdRaw: two blocks are one that is cached and one that is
not, two parts give a block that is half merged, with packets of one part every chunk can be the late
one, and every history variable is per block; the second fault hits the state the first has left.
SpiLink: two addresses tell a block from its neighbour, a block of seven is longer than a command and
its answer, so that one side can be a whole command behind; three tries reach the last one; the second
reset would start from `Init` but for the card. MassStorage: a card smaller than the wrapped size and
one equal to it, a read within and one past the end, four events are two connections or a connection and
two cards. SerialBridge: a ring of two overflows, turns around and empties again; a byte cannot be told
from its successor with fewer than two values. HardwareCounter: seven pulses are more than two turns of
a timer of 3, and `Clock` of 6 lets every start time wrap within five ticks. GeigerLog: the ring turns
around with the fourth bin, `MaxRun` tells a full window from one bin more. MiniLoop: two pulses carry
from one byte of two values into the next, the second character fills the buffer, and the position
changes when truncated, by a grid that differs from that of the latitude not truncated; windows longer
than one bin are `GeigerLog`'s. Config: five user actions give a valid file, take the card out, put it
in again, change and save; without a step of the card, they are enough to change again after the save;
two cuts are one inside a save and one inside the recovery. DeviceTable: three detectors for two slots
is the smallest overfull table; with Timeout 0 one tick makes a slot expire. What is proved (section 4)
does not depend on these bounds.

Deadlock is checked in every run but `mass_storage` and `serial_bridge`: there the device may sleep for
good, with the events used up or no host.

Properties worth a word:

* `SleepsPoweredOff` is about `bg_pwr_exec_sleep_routine_flag`, set and cleared on three paths each.
* `NeverRefusedByLock`: the first branch of `sd_reader_process_interrupt()` (card locked, answer
  RETRY) is dead, since `loop()` unlocks in the same pass.
* `FlaggedRequestIsHandled` holds although a request may come between the test and `sleep_mode()`: the
  falling edge of the line, made by the 32u4's watchdog, wakes the CPU again.
* `OffSleepsOnLogs` asks only that the host is gone, whatever session it has left open.
* `ExchangeIsWhole` is conditional on `torn = {}`; this is the strongest condition we know. Commands
  that fail, cards pulled between two transfers and resets of a starved slave are inside it.
* `WriteGoesWhereAsked` holds through any reset of the 32u4, in the middle of a WRITE too: the 1284p
  goes on with the address it has. It needs what `torn \subseteq {"reset"}` says: no refusal, no noise
  taken for a command and no boot that the master's flag outlived (section 5).
* `CommandEnds` excepts READ and INFO, whose last waits are without a watchdog. It says that each trial
  ends, in an answer, a reset or the pause before the next trial; the trials are counted by the code.
* `DamageIsLocal` is the strongest statement we know to be true of the cache: not durability, but that
  a fault costs the block in the cache, or the rest of the command it hit, and nothing else. The data
  that a late packet or a failed block shifts goes into blocks of the same command, and only into those.
* `AnswerIsForCommand` and `SenseIsOfLastCommand` except a command that outlived its connection
  (`carried`), cut while an endpoint was halted or otherwise: section 5.
* `BytesInOrder`: after an overflow the host gets bytes twice and out of order only until the ring is
  next empty.
* `CountIsPulsesOrOneTurnMore`: `count()` reopens the gate before it reads `g_ovf_n`, so a pulse that
  overflows the timer in that gap is added to a reading taken before it. The timer must stand at its
  last value, hence the exact second disjunct (the comment at `HardwareCounter.cpp:105` is stronger).
  `CpbIsPulsesOrOnePageMore` is the same question asked of the other counter, at its carry.
* `CpmIsLastBins`: the number on the line is the sum of the bins that were counted last, though the code
  adds up an array whose oldest entry it overwrites. That the array is a ring of those bins is the
  invariant of its proof (`WindowIsRing`).
* `LineTakesEmptyBuffer`: `gps_available()` alone keeps a half received sentence out of the log line.
* `RestartKeepsId`: `config save` writes the file before the EEPROM; until the file is closed the
  EEPROM is whole, and from then on the file wins. It is said of a save to a card that was begun: without
  one, and in `config save eeprom`, nothing protects the EEPROM (section 5). `SavedReturns` is said of a
  save to a card that was begun or with no card in the slot: with one that was put in while the device
  was on, the EEPROM alone is written, and the card's old file wins at the next start (section 5).
* `NewcomerGetsIn` fails if the timeout test forgets the slot of a silent detector; the button and the
  order of sentences are arbitrary.

### Fairness
`MainCpu`: weak fairness of the main thread (a CPU executes its next instruction), of the 32u4's
watchdog (hardware) and of the reader's silence growing old (`millis()` runs). Users, hosts, cards
and batteries owe nothing. Liveness is stated for a reader that came up (`initStatus`); the other case
is `main_cpu_stuck`. `DeviceTable`: weak fairness of `loop()` and of the clock. `SpiLink`: weak fairness
of both programs and of the watchdog of a slave that is starved; neither host, cable nor card is asked
for anything. `MassStorage`: weak fairness of the main loop, and of a host that waits for an answer and
takes packets and clears halts; nothing makes it reset, unplug or put in a card. `MiniLoop`: weak
fairness of the CPU and of the newline (the GPS module completes its sentences), strong fairness of
`StartBin`: the module sends one burst a second, so that `loop()` finds the line idle again and again,
though not for good. All other runs are safety.

## 4. Proofs

Every module below is proved from the assumptions its component names (sizes positive, tokens
distinct; for the link, more than one try, the code has 255), for all values of the constants.

* `MainCpuProofs`. `IInv` is types, `FlagInv` (powered implies that the next sleep runs `shutdown()`,
  and past that point the flag is low), `CardInv` (IDLE in the whole of the sleep call, DISABLED only
  between lock and unlock) and `WakeInv` (why `power_up()` was called). None of the properties is
  inductive alone: asleep says nothing of what comes before it. `HoldInv` (a press that still
  counts was never a switch) gives `OneSwitchPerHold`.
* `SdRawProofs`. `Typed` adds the place in the host's data to the types. `CoherentAlways` needs
  that no write fails silently: `"flush" \notin FaultKinds`, which is what the 1284p's "always success"
  answer takes away. `Implements` is the refinement: until the first fault every step is a step of
  `BlockDevice` or a stutter, by coherence and `DueIsNext` (what a host that has not left takes next is
  what `sd_raw.c` is about to read). `DamageInv` says that each promise is harmed or safe, and what a
  running WRITE still owes (`WriteOnCourse`): its blocks are promised to nobody, and while its host waits,
  those behind it are harmed or safe and either the two places agree (`Aligned`) or all that is left of
  the command is harmed. The loops may then shift the data as they like.
* `CountingProofs`. For the pulse counter, `CountInv` follows timer, pending interrupt and overflow
  count through the statements of `count()`; `ClockInv` relates `millis()` to the age of the count. For
  the log, for every window length, `WindowIsRing` (place i of the array holds the last bin written
  there), `StatusInv` (`str_count` never ahead of the bins) and `FileInv`. The sum is a fold, and
  `LogTypeCorrect` and `CpmIsLastBinsAlways` need what it computes for a window of any length. The
  library's induction theorems take an operator and cannot be used here, so the induction over the bins
  is done on sets of numbers: a set of counterexamples would have a least element, by the
  well-foundedness of `<`. From it come the lemmas that a sum is a number, what replacing one bin does to
  it, and that the last bins shifted by one have the sum the code's array has.
* `LinkProofs`, SPI link. Types come in parts (`MasterTyped`, `Place`, `SlavePlace`, ...). `InStep` is
  the heart: while nothing has torn the sides apart, the pair is in one of ten stages (`Idle`, `Called`,
  `Commanding`, `Deciding`, `Answering`, `Answered`, `Reading`, `Writing`, `Storing`, `Informing`), each
  of which fixes both program counters, the distance of the two positions, the byte in the shift
  register and in the receive buffer, and which bytes are already across. A transfer that swaps two
  bytes and a slave that takes one lead from stage to stage. `ExchangeIsWholeAlways` is what `Reading`,
  `Storing` and `Informing` say at their last byte. After a reset nothing of this is left, and
  `WriteGoesWhereAskedAlways` rests on less: `SentAsAsked` (in step, the first trial is the only one and
  carries the address asked for), `ServesTheLast` (the master goes on with the WRITE it has and takes no
  other from a slave that is not there) and `Sane` (a 32u4 that boots has no SPI; only a WRITE is
  written). `WaitsAreWatchedAlways`: every wait of the 32u4 that can last runs under the watchdog, but
  those of READ and INFO; this is the safety half of `CommandEnds`.
* `LinkProofs`, bridge. `BridgeInv` is types, with the indices of a ring inside it (`Aligned`); `CountsFit`
  (between the test of a ring and the removal it is for there is a byte to remove, unless a connection
  has `raced` it) and `BytesInOrder` itself. The lemmas are about remainders and about the sequence
  that a ring's array, first index and count stand for, under an insertion and a removal.
* `MiniLoopProofs`. `CountInv` says what the bytes hold at each place between two of their accesses,
  and rests on a few lemmas about `%` and a carry; `BufferInv` that a lowered `_updating` means an empty
  buffer; `FileInv` that the file is named before the first line; `PlaceInv` that a truncated position is
  one that truncating leaves alone, which is why the order of the two truncations matters.
* `MassStorageProofs`. `WireInv` says what the two banks and the task hold for each phase of the host:
  clean pipes between two commands (`IdleInv`), command, data or nothing in the OUT bank (`OutInv`), only
  what belongs to the command in the IN bank and the status last (`InInv`), and how far each wait of
  `ReturnCommandStatus()` has cleared its pipe (`TaskInv`). `AnswerIsForCommand` alone is not inductive:
  a halt that the host clears late would be enough to break it, were the status not still owed.
* `DeviceTableProofs`. `UnusedInv`: of two slots with one id the later is inactive and empty, the reason
  why `find_device()` cannot give a detector a second slot; `OwnInv` for dropped slots too.
* `ConfigProofs`. Types, for the conversions above all; `MagicInv`: memory always has the magic, and
  the EEPROM of a running device has it or its two bytes are the next writes (`MagicDue`). The rest hangs
  on `Left(list)`, that what is to be written is the end of one of three known lists: `FileInv` (the
  bytes already copied agree with the file), `SavingInv` and `SavedInv` (how far a save has come, and what
  it has left in file and EEPROM unless its card was in but not begun), `IdInv` (after a save to a card
  that was begun, the id that a restart would find is one of those allowed, through each write of each
  list). The conditions on `savedTo` are those of the properties.

Theorems without a run of their own property: `SleepsWithReaderIdleAlways`, `PowersUpForUserOnlyAlways`,
`OneSwitchPerHoldAlways`, `CoherentAlways`, `CounterHoldsPulsesAlways`, `WindowIsRingAlways`,
`WaitsAreWatchedAlways`, `MagicStaysAlways`.

What a failed proof taught. `WriteGoesWhereAsked` was first stated under "no refusal" alone, and TLC
agreed with the addresses of its instance. The proof would not close after a boot with the flag still
raised: an address byte can be the byte of WRITE, and then a master that is one command behind takes it
for one. The property says now what it needs, and `MCSpiLinkLate.cfg` has the behaviour.

Only model-checked: liveness (`FlaggedRequestIsHandled`, `OffSleepsOnLogs`, `NewcomerGetsIn`,
`DueBinIsLogged`, `CommandEnds`, `CommandIsAnswered`), which is out of the prover's reach, as is
everything that speaks of ENABLED. All other properties of the passing runs are theorems.

## 5. Observations that no run states

Eight of these have a configuration that reproduces them; the command is given.

* A block that was acknowledged to the host and is only in the cache is lost on disconnection: nothing
  calls `sd_raw_sync()`, although `sd_raw.c:685` describes what it is for.
  `tlc -config SdRawUnplug.cfg SdRaw`
* On a new device `cfgSetDefault()` leaves three of four flags at 0xFF: every test looks at
  `serial_output` (config.cpp:98; config.cpp:80 says "check all the values in EEPROM and set to default
  if necessary"). `tlc -config MCConfigDefault.cfg MCConfig`
* With a card that was put in while the device was on, `config save` prints "Saved." (commands.cpp:102)
  although the file could not be opened: the EEPROM alone is written, and the card's old file wins at the
  next start. `tlc -config MCConfigLateCard.cfg MCConfig`
* A `config save` that reaches no file, cut in the two bytes of the id in EEPROM, leaves the low byte of one
  id and the high byte of another for the next start. `tlc -config MCConfigTornId.cfg MCConfig`
* Ninja 2: the loss of the device on the display rings no alarm when the button has moved `dev_index` to
  another slot (bGeigieNinja2.ino:376). `tlc -config DeviceTableAlarm.cfg DeviceTable`
* sd_reader_int.cpp:314 tests a constant, so after R1_WAIT_RETRY ("indicate to 32u4 to wait and retry",
  :78) the command is served all the same, the extra answer is taken for the first byte of the next
  command, and the two sides are apart. `tlc -config MCSpiLinkRefused.cfg MCSpiLink`
* After a watchdog reset the 32u4 can be up again while the flag of the request it made before is still
  raised in the 1284p, which answers it although the 32u4 has not asked; from then on the two sides are
  one command apart. The address bytes of a command are then read as commands, and one that has the value of
  WRITE (0x58) makes the 1284p write a block to an address nobody asked for.
  `tlc -config MCSpiLinkLate.cfg MCSpiLink`
* A host unplugged while an endpoint is halted leaves `ReturnCommandStatus()` waiting for ever, while
  MassStorage.c:215 says that a disconnection "stops the Mass Storage management task"; the next host then
  finds the status of an old command. `tlc -config MassStorageUnplugged.cfg MassStorage`

Others follow from the definitions:

* A wake-up for the reader raises `bg_pwr_exec_sleep_routine_flag` (bg_pwr.cpp:219), so the next sleep
  executes `shutdown()` on a device already shut down; harmless, but not what bg_pwr.cpp:152 describes.
* `card.writeBlock()` failing is answered with success (sd_reader_int.cpp:466): the clean flag is then
  wrong. The fault kind "flush" of `SdRaw`, and `lost` of `SpiLink`.
* SCSI.c ignores the result of `sd_raw_write_interval()` and acknowledges a WRITE that was refused. A
  READ passes although blocks could not be read: they are skipped.
* A packet of the host that comes after the timeout of `Endpoint_WaitUntilReady()` ends one block, not the
  command: its data go into the next block, shifted, and SCSI.c:326 reports success all the same
  (SDCardManager.c:88, 120, 160). The fault kind "late" of `SdRaw`.
* After the silence of SD_READER_TIMEOUT the logger writes to the card behind the cache of the 32u4; a
  later hit returns the old block, a later flush overwrites the new one.
* `GoToSleep()` sleeps whatever came in its 10 ms: a connection in them is noticed at the next USB event.
  `while(!sd_raw_init())` blocks the 32u4 without a card. `sd_raw_get_info()` waits without a watchdog.
* The capacity is cached until reset, over a change of card, and computed in 32 bits: cards of 4 GB and
  more wrap. Only the first address of a READ is compared with it.
* The bridge of the combined firmware keeps its rings over a disconnection; that of the stand-alone one
  has no USART until the host sends the first line encoding. Its receive interrupt does not ask whether
  the ring is full. A connection that empties the rings between the test of one and the removal leaves its
  count below zero, that is, at 65535: the loop then sends what the array holds (USBtoSerial.c:157; such a
  behaviour is `raced` in `SerialBridge`, and excepted by `BytesInOrder`).
* `GeigerLog`: a gap in which the reader had the card does not empty the window, so lines flagged `A`
  can sum bins from before and after it; any date other than year 80, an empty one or the one of the
  last drive included, is accepted for a file's name (bGeigie3.ino:342).
* bGeigieMini: if the supply is low in the bin that acquires the date, the drive never gets a file name;
  a card that is put in after `setup()` is detected but never begun; a line of more than 100 characters is
  written whole and reported as failed; a count read at the carry of a byte is 256 pulses too large.
* Ninja 2: `uSh_dec` subtracts `uSh_int*LND7313_CONVERSION_FACTOR` where `uSh_int*1000` is due
  (bGeigieNinja2.ino:657).
* A flag of 0xFF is written to the file as 255 and read back as 0x55; `hv_sense` and `sd_rw` are taken
  from the file whatever they are (config.cpp:68, 73), also 0xFF when the line is missing.

## 6. Not modelled

The text of lines and the digits of GPS fields; radio, sensors, voltages and LEDs; what the Ninja 2
draws; the EEPROM dosimeter of the bGeigieMini; directory listings; the older devices (bGeigie Ninja,
Classic, `bGeigieMini.pde`), burners and the factory script; the boot loader and other third-party code,
with LUFA and the SD library modelled only as far as this code uses them. `PROJECT.json` lists each with
its reason, and under `hazards` the lines at which no property covers something that can go wrong.

## 7. What could come next

1. `SharedCard`: `MainCpu`'s arbitration, the 32u4's cache and the logger on one card: what a host sees,
   and overwrites, when the logger writes behind the cache.
2. A refinement from `SpiLink` to the atomic command of `MainCpu`, under `torn = {}`: the stages of
   `InStep` are the mapping.
3. The second logger of the bGeigie3 and `GPS.cpp` of the library, which differ from those of `MiniLoop`
   in their time stamps and directory listing.

The number of questions the project asks is kept small on purpose: a new module replaces runs whose
question it subsumes.
