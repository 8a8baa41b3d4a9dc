------------------------- MODULE DeviceTableProofs -------------------------
(***************************************************************************)
(* The device table for every number of slots, devices and counts.         *)
(***************************************************************************)
EXTENDS DeviceTable, TLAPS

\* Two slots have the same id only when the later one has not been used since the
\* table was zeroed.
UnusedInv == \A d, e \in Slots : d < e /\ id[d] = id[e] => ~active[e] /\ cpm[e] = 0

\* What CpmIsOwn says of live slots holds of the dropped ones, which a returning
\* device finds as it left them.
OwnInv == \A d \in Slots : cpm[d] \in {reported[id[d]], 0}

IInv == TypeOK /\ UnusedInv /\ OwnInv

-----------------------------------------------------------------------------

LEMMA InitIInv == Init => IInv
<1> SUFFICES ASSUME Init PROVE IInv
  OBVIOUS
<1>1. 0 \in Slots /\ 0 \in Ids /\ 0 \in Cpms /\ Old \in 0 .. Old
  BY SlotsAssumption, IdsAssumption, CpmsAssumption, TimeoutAssumption DEF Slots, Old
<1>2. TypeOK
  BY <1>1 DEF Init, TypeOK
<1>3. UnusedInv
  BY <1>1 DEF Init, UnusedInv
<1>4. OwnInv
  BY <1>1 DEF Init, OwnInv
<1>5. QED
  BY <1>2, <1>3, <1>4 DEF IInv

\* A sentence of device i goes to slot d, which is the first with that id or, if
\* there is none, a free one; it leaves there what the device reported, or zero.
LEMMA StampIInv ==
  ASSUME IInv, NEW i \in Ids, NEW d \in Slots, NEW recognised \in BOOLEAN, NEW value \in Cpms,
         Located(d, i), Stamp(d, i, recognised, value),
         UNCHANGED <<devIndex, display, next>>,
         pc' = "select", alarm' = FALSE, heard' \in Ids \cup {NoId},
         \/ reported' = [reported EXCEPT ![i] = value]
         \/ UNCHANGED reported /\ value = Held(d, i)
  PROVE  IInv'
<1>t. TypeOK /\ UnusedInv /\ OwnInv
  BY DEF IInv
<1>0. 0 \in 0 .. Old
  BY TimeoutAssumption DEF Old
<1>1. TypeOK'
  <2>1. /\ id' \in [Slots -> Ids] /\ active' \in [Slots -> BOOLEAN]
        /\ age' \in [Slots -> 0 .. Old] /\ cpm' \in [Slots -> Cpms]
    BY <1>t, <1>0 DEF TypeOK, Stamp
  <2>2. reported' \in [Ids -> Cpms]
    BY <1>t DEF TypeOK
  <2>3. pc' \in {"receive", "select", "timeout"} /\ alarm' \in BOOLEAN
    OBVIOUS
  <2>4. QED
    BY <1>t, <2>1, <2>2, <2>3 DEF TypeOK
<1>2. \A e \in Slots : /\ id'[e] = IF e = d THEN i ELSE id[e]
                       /\ active'[e] = IF e = d THEN recognised ELSE active[e]
                       /\ cpm'[e] = IF e = d THEN value ELSE cpm[e]
  BY <1>t DEF TypeOK, Stamp
<1>3. \A e \in Slots : e # d /\ id[e] = i => d < e /\ id[d] = id[e]
  <2> SUFFICES ASSUME NEW e \in Slots, e # d, id[e] = i PROVE d < e /\ id[d] = id[e]
    OBVIOUS
  <2>1. e \in Known(i)
    BY DEF Known
  <2>2. IsFirst(d, Known(i))
    BY <2>1 DEF Located
  <2>3. d <= e /\ id[d] = i
    BY <2>1, <2>2 DEF IsFirst, Known
  <2>4. QED
    BY <2>3 DEF Slots
<1>4. UnusedInv'
  <2> SUFFICES ASSUME NEW e \in Slots, NEW f \in Slots, e < f, id'[e] = id'[f]
               PROVE  ~active'[f] /\ cpm'[f] = 0
    BY DEF UnusedInv
  <2>1. CASE e = d
    <3>1. f # d /\ id[f] = i
      BY <2>1, <1>2 DEF Slots
    <3>2. d < f /\ id[d] = id[f]
      BY <3>1, <1>3
    <3>3. ~active[f] /\ cpm[f] = 0
      BY <3>2, <1>t DEF UnusedInv
    <3>4. QED
      BY <3>1, <3>3, <1>2
  <2>2. CASE f = d
    <3>1. e # d /\ id[e] = i
      BY <2>2, <1>2 DEF Slots
    <3>2. d < e
      BY <3>1, <1>3
    <3>3. QED
      BY <3>2, <2>2 DEF Slots
  <2>3. CASE e # d /\ f # d
    BY <2>3, <1>2, <1>t DEF UnusedInv
  <2>4. QED
    BY <2>1, <2>2, <2>3
<1>5. OwnInv'
  <2> SUFFICES ASSUME NEW e \in Slots PROVE cpm'[e] \in {reported'[id'[e]], 0}
    BY DEF OwnInv
  <2>1. CASE e = d
    <3>1. id'[e] = i /\ cpm'[e] = value
      BY <2>1, <1>2
    <3>2. CASE reported' = [reported EXCEPT ![i] = value]
      <4>1. reported'[i] = value
        BY <3>2, <1>t DEF TypeOK
      <4>2. QED
        BY <3>1, <4>1
    <3>3. CASE UNCHANGED reported /\ value = Held(d, i)
      <4>1. CASE Known(i) = {}
        BY <3>1, <3>3, <4>1 DEF Held
      <4>2. CASE Known(i) # {}
        <5>1. id[d] = i
          BY <4>2 DEF Located, IsFirst, Known
        <5>2. cpm[d] \in {reported[i], 0}
          BY <5>1, <1>t DEF OwnInv
        <5>3. QED
          BY <3>1, <3>3, <4>2, <5>2 DEF Held
      <4>3. QED
        BY <4>1, <4>2
    <3>4. QED
      BY <3>2, <3>3
  <2>2. CASE e # d
    <3>1. id'[e] = id[e] /\ cpm'[e] = cpm[e]
      BY <2>2, <1>2
    <3>2. CASE id[e] = i
      <4>1. d < e /\ id[d] = id[e]
        BY <2>2, <3>2, <1>3
      <4>2. cpm[e] = 0
        BY <4>1, <1>t DEF UnusedInv
      <4>3. QED
        BY <3>1, <4>2
    <3>3. CASE id[e] # i
      <4>1. reported'[id[e]] = reported[id[e]]
        BY <3>3, <1>t DEF TypeOK
      <4>2. QED
        BY <3>1, <4>1, <1>t DEF OwnInv
    <3>4. QED
      BY <3>2, <3>3
  <2>3. QED
    BY <2>1, <2>2
<1>6. QED
  BY <1>1, <1>4, <1>5 DEF IInv

\* Steps that neither write a slot nor make one live.
LEMMA OtherStepsIInv ==
  ASSUME IInv, UNCHANGED <<id, cpm, reported>>,
         active' \in [Slots -> BOOLEAN], \A d \in Slots : active'[d] => active[d],
         age' \in [Slots -> 0 .. Old],
         pc' \in {"receive", "select", "timeout"}, next' \in Slots, devIndex' \in Slots,
         display' \in Slots \cup {NoSlot}, alarm' \in BOOLEAN, heard' \in Ids \cup {NoId}
  PROVE  IInv'
<1>1. TypeOK'
  BY DEF IInv, TypeOK
<1>2. UnusedInv' /\ OwnInv'
  BY DEF IInv, UnusedInv, OwnInv
<1>3. QED
  BY <1>1, <1>2 DEF IInv

LEMMA NextIInv == IInv /\ [Next]_vars => IInv'
<1> SUFFICES ASSUME IInv, [Next]_vars PROVE IInv'
  OBVIOUS
<1>t. TypeOK
  BY DEF IInv
<1>z. 0 \in Slots /\ 0 \in Ids /\ 0 \in Cpms /\ Old \in 0 .. Old
  BY SlotsAssumption, IdsAssumption, CpmsAssumption, TimeoutAssumption DEF Slots, Old
<1>1. ASSUME NEW i \in Ids, NEW d \in Slots, NEW value \in Cpms, ReceiveReport(i, d, value)
      PROVE  IInv'
  <2>1. Located(d, i) /\ Stamp(d, i, TRUE, value) /\ pc' = "select" /\ alarm' = FALSE
    BY <1>1 DEF ReceiveReport, Goto
  <2>2. UNCHANGED <<devIndex, display, next>> /\ heard' \in Ids \cup {NoId}
    BY <1>1 DEF ReceiveReport, viewVars
  <2>3. reported' = [reported EXCEPT ![i] = value]
    BY <1>1 DEF ReceiveReport
  <2>4. QED
    BY <2>1, <2>2, <2>3, StampIInv
<1>2. ASSUME NEW i \in Ids, NEW d \in Slots, ReceiveStatus(i, d)
      PROVE  IInv'
  <2>1. Located(d, i) /\ Stamp(d, i, TRUE, Held(d, i)) /\ pc' = "select" /\ alarm' = FALSE
    BY <1>2 DEF ReceiveStatus, Goto
  <2>2. UNCHANGED <<devIndex, display, next>> /\ heard' \in Ids \cup {NoId}
    BY <1>2 DEF ReceiveStatus, viewVars
  <2>3. UNCHANGED reported /\ Held(d, i) \in Cpms
    BY <1>2, <1>t, <1>z DEF ReceiveStatus, Held, TypeOK
  <2>4. QED
    BY <2>1, <2>2, <2>3, StampIInv
<1>3. ASSUME NEW i \in Ids, NEW d \in Slots, ReceiveUnrecognised(i, d)
      PROVE  IInv'
  <2>1. Located(d, i) /\ Stamp(d, i, FALSE, Held(d, i)) /\ pc' = "select" /\ alarm' = FALSE
    BY <1>3 DEF ReceiveUnrecognised, Goto
  <2>2. UNCHANGED <<devIndex, display, next>> /\ heard' \in Ids \cup {NoId}
    BY <1>3 DEF ReceiveUnrecognised, viewVars
  <2>3. UNCHANGED reported /\ Held(d, i) \in Cpms
    BY <1>3, <1>t, <1>z DEF ReceiveUnrecognised, Held, TypeOK
  <2>4. QED
    BY <2>1, <2>2, <2>3, StampIInv
<1>4. CASE ReceiveNothing
  BY <1>4, <1>t, OtherStepsIInv DEF ReceiveNothing, Goto, tableVars, viewVars, TypeOK
<1>5. CASE Select
  BY <1>5, <1>t, <1>z, OtherStepsIInv DEF Select, Goto, tableVars, historyVars, TypeOK
<1>6. CASE TestTimeout
  <2>1. /\ active' \in [Slots -> BOOLEAN] /\ \A d \in Slots : active'[d] => active[d]
    BY <1>6, <1>t DEF TestTimeout, TypeOK
  <2>2. pc' \in {"receive", "select", "timeout"} /\ next' \in Slots
    BY <1>6, <1>t, SlotsAssumption DEF TestTimeout, TypeOK, Slots
  <2>3. alarm' \in BOOLEAN
    BY <1>6 DEF TestTimeout
  <2>4. UNCHANGED <<id, cpm, age, devIndex, display, heard, reported>>
    BY <1>6 DEF TestTimeout, viewVars, historyVars
  <2>5. QED
    BY <2>1, <2>2, <2>3, <2>4, <1>t, OtherStepsIInv DEF TypeOK
<1>7. CASE PowerCycle
  <2>1. TypeOK'
    BY <1>7, <1>t, <1>z DEF PowerCycle, PowerUp, TypeOK
  <2>2. UnusedInv'
    BY <1>7 DEF PowerCycle, PowerUp, UnusedInv
  <2>3. OwnInv'
    BY <1>7 DEF PowerCycle, PowerUp, OwnInv
  <2>4. QED
    BY <2>1, <2>2, <2>3 DEF IInv
<1>8. CASE NextDevice
  <2>1. devIndex' \in Slots
    BY <1>8, <1>t, SlotsAssumption DEF NextDevice, TypeOK, Slots
  <2>2. QED
    BY <1>8, <1>t, <2>1, OtherStepsIInv DEF NextDevice, tableVars, historyVars, TypeOK
<1>9. CASE Tick
  <2>1. age' \in [Slots -> 0 .. Old]
    BY <1>9, <1>t, TimeoutAssumption DEF Tick, TypeOK, Old
  <2>2. QED
    BY <1>9, <1>t, <2>1, OtherStepsIInv DEF Tick, viewVars, historyVars, TypeOK
<1>10. CASE UNCHANGED vars
  BY <1>10, <1>t, OtherStepsIInv DEF vars, tableVars, viewVars, historyVars, TypeOK
<1>11. QED
  BY <1>1, <1>2, <1>3, <1>4, <1>5, <1>6, <1>7, <1>8, <1>9, <1>10 DEF Next, Loop

LEMMA Invariance == Spec => []IInv
BY InitIInv, NextIInv, PTL DEF Spec

\* Every variable keeps its type.
THEOREM TypeCorrect == Spec => []TypeOK
BY Invariance, PTL DEF IInv

\* No detector ever has two live slots.
THEOREM ActiveIdsDistinctAlways == Spec => []ActiveIdsDistinct
<1>1. IInv => ActiveIdsDistinct
  BY DEF IInv, UnusedInv, ActiveIdsDistinct, Slots
<1>2. QED
  BY <1>1, Invariance, PTL

\* A live slot shows nothing that another detector reported.
THEOREM CpmIsOwnAlways == Spec => []CpmIsOwn
<1>1. IInv => CpmIsOwn
  BY DEF IInv, OwnInv, CpmIsOwn
<1>2. QED
  BY <1>1, Invariance, PTL
=============================================================================
