---------------------------- MODULE DeviceTable ----------------------------
(***************************************************************************)
(* The bGeigie Ninja 2 (bGeigieNinja2.ino): a display that listens to the  *)
(* radio sentences of several detectors, keeps the last values of each in  *)
(* a small table, drops the detectors it no longer hears and shows one.    *)
(*                                                                         *)
(* loop() handles one packet, selects what to display and then tests every *)
(* slot for its timeout.  The button's interrupt changes the selected slot *)
(* between any two of these steps, and time passes in all of them.         *)
(***************************************************************************)
EXTENDS Integers

CONSTANTS
  NSlots,    \* MAX_DEV_NUM
  Ids,       \* device ids, as converted to uint16_t
  Cpms,      \* counts per minute a detector can report
  Timeout    \* DEV_TIMEOUT, in ticks

ASSUME SlotsAssumption == NSlots \in Nat \ {0}
ASSUME IdsAssumption == Ids \subseteq Nat /\ 0 \in Ids
ASSUME CpmsAssumption == Cpms \subseteq Nat /\ 0 \in Cpms
ASSUME TimeoutAssumption == Timeout \in Nat

Slots == 0 .. NSlots - 1
NoSlot == -1
NoId == -1
Old == Timeout + 1     \* any age beyond the timeout

VARIABLES
  pc,        \* "receive", "select", "timeout"
  next,      \* the slot whose timeout is tested next
  id,        \* devices[d].id
  active,    \* devices[d].active
  age,       \* millis() - devices[d].timestamp, up to Old
  cpm,       \* devices[d].CPM
  devIndex,  \* dev_index
  display,   \* the slot on the display, or NoSlot
  alarm,     \* the timeout test that has just been made rang the alarm
  heard,     \* history: the device of the last sentence of loop(), or NoId
  reported   \* history: the CPM every device has reported last

tableVars == <<id, active, age, cpm>>
viewVars == <<devIndex, display>>
historyVars == <<heard, reported>>
vars == <<pc, next, tableVars, viewVars, alarm, historyVars>>

TypeOK ==
  /\ pc \in {"receive", "select", "timeout"}
  /\ next \in Slots
  /\ id \in [Slots -> Ids]
  /\ active \in [Slots -> BOOLEAN]
  /\ age \in [Slots -> 0 .. Old]
  /\ cpm \in [Slots -> Cpms]
  /\ devIndex \in Slots
  /\ display \in Slots \cup {NoSlot}
  /\ alarm \in BOOLEAN
  /\ heard \in Ids \cup {NoId}
  /\ reported \in [Ids -> Cpms]

\* memset(devices, 0, ...) and dev_index = 0
Init ==
  /\ pc = "receive" /\ next = 0
  /\ id = [d \in Slots |-> 0]
  /\ active = [d \in Slots |-> FALSE]
  /\ age = [d \in Slots |-> Old]
  /\ cpm = [d \in Slots |-> 0]
  /\ devIndex = 0
  /\ display = NoSlot
  /\ alarm = FALSE
  /\ heard = NoId
  /\ reported = [i \in Ids |-> 0]

Goto(from, to) == pc = from /\ pc' = to

-----------------------------------------------------------------------------
(* Packets *)

IsFirst(d, slots) == d \in slots /\ \A e \in slots : d <= e
Known(i) == {d \in Slots : id[d] = i}
Free == {d \in Slots : ~active[d]}

\* Mutant: one loop looks for the device and for a free slot.
FirstKnownOrFree(d, i) == IsFirst(d, Known(i) \cup Free)

\* find_device(): the slot of the device, dropped or not, or else a free one.
Located(d, i) ==
  \/ IsFirst(d, Known(i))
  \/ Known(i) = {} /\ IsFirst(d, Free)

\* Mutant: a slot that changes hands keeps the values of its former device.
HeldWithoutInit(d, i) == cpm[d]

\* What the slot holds once it is the device's: init_device() if it changes hands.
Held(d, i) == IF Known(i) = {} THEN 0 ELSE cpm[d]

\* extract_data(): the slot is stamped, and dropped again if the sentence is of
\* no known kind.
Stamp(d, i, recognised, value) ==
  /\ id' = [id EXCEPT ![d] = i]
  /\ active' = [active EXCEPT ![d] = recognised]
  /\ age' = [age EXCEPT ![d] = 0]
  /\ cpm' = [cpm EXCEPT ![d] = value]

\* $BMRDD and $BNXRDD
ReceiveReport(i, d, value) ==
  /\ Goto("receive", "select")
  /\ Located(d, i)
  /\ Stamp(d, i, TRUE, value)
  /\ heard' = i
  /\ reported' = [reported EXCEPT ![i] = value]
  /\ alarm' = FALSE
  /\ UNCHANGED <<next, viewVars>>

\* $BMSTS and $BNXSTS
ReceiveStatus(i, d) ==
  /\ Goto("receive", "select")
  /\ Located(d, i)
  /\ Stamp(d, i, TRUE, Held(d, i))
  /\ heard' = i
  /\ alarm' = FALSE
  /\ UNCHANGED <<next, viewVars, reported>>

ReceiveUnrecognised(i, d) ==
  /\ Goto("receive", "select")
  /\ Located(d, i)
  /\ Stamp(d, i, FALSE, Held(d, i))
  /\ heard' = NoId
  /\ alarm' = FALSE
  /\ UNCHANGED <<next, viewVars, reported>>

\* No packet, one that fails the checks or has no id, or no slot for its device.
ReceiveNothing ==
  /\ Goto("receive", "select")
  /\ heard' \in {NoId} \cup {i \in Ids : Known(i) = {} /\ Free = {}}
  /\ alarm' = FALSE
  /\ UNCHANGED <<next, tableVars, viewVars, reported>>

-----------------------------------------------------------------------------
(* Display and timeouts *)

Selected(d) ==
  IF active[devIndex] THEN d = devIndex ELSE IsFirst(d, Slots \ Free)

Select ==
  /\ Goto("select", "timeout")
  /\ \/ \E d \in Slots : Selected(d) /\ display' = d
     \/ Free = Slots /\ display' = NoSlot
  /\ next' = 0
  /\ alarm' = FALSE
  /\ UNCHANGED <<tableVars, devIndex, historyVars>>

\* Mutant: the alarm is all there is.
RingOnly ==
  /\ pc = "timeout"
  /\ alarm' = (active[next] /\ age[next] > Timeout /\ next = devIndex)
  /\ IF next < NSlots - 1
       THEN next' = next + 1 /\ UNCHANGED pc
       ELSE pc' = "receive" /\ UNCHANGED next
  /\ UNCHANGED <<tableVars, viewVars, historyVars>>

\* One turn of the loop over the slots.
TestTimeout ==
  LET lost == active[next] /\ age[next] > Timeout
  IN  /\ pc = "timeout"
      /\ active' = [active EXCEPT ![next] = @ /\ ~lost]
      /\ alarm' = (lost /\ next = devIndex)
      /\ IF next < NSlots - 1
           THEN next' = next + 1 /\ UNCHANGED pc
           ELSE pc' = "receive" /\ UNCHANGED next
      /\ UNCHANGED <<id, age, cpm, viewVars, historyVars>>

\* power_up(): the table is zeroed.
PowerUp ==
  /\ id' = [d \in Slots |-> 0]
  /\ active' = [d \in Slots |-> FALSE]
  /\ age' = [d \in Slots |-> Old]
  /\ cpm' = [d \in Slots |-> 0]
  /\ devIndex' = 0

\* The button is held while bg_pwr_loop() runs: shutdown(), sleep, and, once the button
\* has been held again, power_up().  Edges that are not followed by two seconds of
\* holding find the CPU asleep again; what they do to dev_index, power_up() undoes.
PowerCycle ==
  /\ pc = "receive"
  /\ PowerUp
  /\ display' = NoSlot
  /\ alarm' = FALSE
  /\ heard' = NoId
  /\ UNCHANGED <<pc, next, reported>>

-----------------------------------------------------------------------------
(* The button and the clock *)

\* Mutant: the index is not taken modulo the size of the table.
NextDeviceUnbounded ==
  /\ devIndex' = devIndex + 1
  /\ alarm' = FALSE
  /\ UNCHANGED <<pc, next, tableVars, display, historyVars>>

\* switch_isr(): every press, also the one that switches the device off.
NextDevice ==
  /\ devIndex' = (devIndex + 1) % NSlots
  /\ alarm' = FALSE
  /\ UNCHANGED <<pc, next, tableVars, display, historyVars>>

Tick ==
  /\ age' = [d \in Slots |-> IF age[d] < Old THEN age[d] + 1 ELSE Old]
  /\ alarm' = FALSE
  /\ UNCHANGED <<pc, next, id, active, cpm, viewVars, historyVars>>

Loop ==
  \/ \E i \in Ids, d \in Slots :
       \/ \E value \in Cpms : ReceiveReport(i, d, value)
       \/ ReceiveStatus(i, d)
       \/ ReceiveUnrecognised(i, d)
  \/ ReceiveNothing
  \/ Select
  \/ TestTimeout

Next == Loop \/ PowerCycle \/ NextDevice \/ Tick

Spec == Init /\ [][Next]_vars

\* The CPU runs and its clock ticks; detectors and users owe nothing.
Fairness == WF_vars(Loop) /\ WF_vars(Tick)

FairSpec == Spec /\ Fairness

-----------------------------------------------------------------------------
(* Properties *)

\* No detector has two live slots, though find_device() searches by id among
\* slots that are dropped, reused, or zero and thus look like a detector 0.
ActiveIdsDistinct ==
  \A d, e \in Slots : active[d] /\ active[e] /\ id[d] = id[e] => d = e

\* A live slot never shows a count that another detector reported: it has the last
\* report of its own detector, or zero.
CpmIsOwn == \A d \in Slots : active[d] => cpm[d] \in {reported[id[d]], 0}

IsActive(i) == \E d \in Slots : active[d] /\ id[d] = i

\* With one detector more than slots: one that is heard again and again gets in
\* once another has gone silent for good.
NewcomerGetsIn ==
  \A i, k \in Ids : <>[](heard # k) /\ []<>(heard = i) => []<>IsActive(i)

(* What comments of the code say and the code does not do *)

\* "ring the alarm if this is the device that is selected" (bGeigieNinja2.ino:376),
\* and "if device is not active anymore select first active device" (231): when
\* the selected device, on the display, is dropped for its silence, it rings.
AlarmWhenSelectedIsLost ==
  [][\A d \in Slots :
       pc = "timeout" /\ Selected(d) /\ display = d /\ active[d] /\ ~active'[d] => alarm']_vars
=============================================================================
