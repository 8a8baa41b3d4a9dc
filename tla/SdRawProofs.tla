---------------------------- MODULE SdRawProofs ----------------------------
(***************************************************************************)
(* Proofs about SdRaw, for a card and a block of any size: the cache       *)
(* agrees with the card, and the host has its array of blocks.             *)
(***************************************************************************)
EXTENDS SdRaw, TLAPS

-----------------------------------------------------------------------------
(* Types *)

LEMMA Sizes ==
  /\ 0 \in Blocks /\ 1 \in Parts /\ Zeros \in Data
  /\ Blocks \subseteq Int /\ Parts \subseteq Int
BY SizesAssumption DEF Blocks, Parts, Data, Zeros

LEMMA InitTyped == Init => TypeOK
<1>. SUFFICES ASSUME Init PROVE TypeOK
  OBVIOUS
<1>1. cacheAddr \in Blocks \cup {NoBlock} /\ cacheData \in Data
  BY Sizes DEF Init
<1>2. promise \in [Blocks -> Data \cup {NoPromise}]
  BY DEF Init
<1>3. QED
  BY <1>1, <1>2 DEF Init, TypeOK

\* A command whose place in the host's data has not passed its place on the card.
WellFormed(o) ==
  /\ o \in Commands
  /\ o.block <= o.last
  /\ o.from < o.block \/ (o.from = o.block /\ o.chunk <= o.part)

CommandTyped == op = Idle \/ WellFormed(op)

\* Only a card that is up serves commands, and then the cache has a block.
UpServes ==
  /\ link # "up" => op = Idle
  /\ link = "up" => cacheAddr \in Blocks

Typed == TypeOK /\ CommandTyped /\ UpServes

LEMMA InitTypedToo == Init => Typed
BY InitTyped DEF Init, Typed, CommandTyped, UpServes

\* What a command is made of.
LEMMA CommandFields ==
  ASSUME NEW o \in Commands
  PROVE  /\ o.kind \in {"read", "write"} /\ o.block \in Blocks /\ o.last \in Blocks
         /\ o.first \in Blocks /\ o.part \in Parts /\ o.data \in [Blocks -> Data]
         /\ o.from \in Blocks /\ o.chunk \in Parts
         /\ o.at \in {"start", "take", "card"} /\ o.host \in {"here", "gone", "reset"}
BY DEF Commands

LEMMA Runs == Typed /\ op # Idle => op \in Commands /\ WellFormed(op)
BY DEF Typed, CommandTyped, WellFormed

LEMMA BlockRange ==
  ASSUME NEW o \in Commands
  PROVE  o.block .. o.last \in SUBSET Blocks
BY CommandFields, SizesAssumption DEF Blocks

\* One chunk on, a command stays well formed, in the same block or the next.
LEMMA OnFacts ==
  ASSUME WellFormed(op), NEW b, NEW p,
         \/ b = op.block + 1 /\ p = 1 /\ op.block < op.last
         \/ b = op.block /\ p = op.part + 1 /\ op.part < NParts
  PROVE  LET o == GoOn(b, p)
         IN  /\ WellFormed(o)
             /\ o.kind = op.kind /\ o.first = op.first /\ o.last = op.last
             /\ o.data = op.data /\ o.host = op.host
             /\ o.block = b /\ o.part = p
             /\ o.from = IF op.chunk < NParts THEN op.from ELSE op.from + 1
             /\ o.chunk = IF op.chunk < NParts THEN op.chunk + 1 ELSE 1
<1> DEFINE f == IF op.chunk < NParts THEN op.from ELSE op.from + 1
           c == IF op.chunk < NParts THEN op.chunk + 1 ELSE 1
           t == Top
           o == GoOn(b, p)
<1>0. op \in Commands
  BY DEF WellFormed
<1>1. o = [op EXCEPT !.block = b, !.part = p, !.at = t, !.from = f, !.chunk = c]
  BY DEF GoOn
<1>2. b \in Blocks /\ p \in Parts /\ b <= op.last
  BY <1>0, CommandFields, SizesAssumption DEF WellFormed, Blocks, Parts
<1>3. f < b \/ (f = b /\ c <= p)
  BY <1>0, CommandFields, SizesAssumption DEF WellFormed, Blocks, Parts
<1>4. f \in Blocks /\ c \in Parts
  BY <1>0, <1>2, <1>3, CommandFields, SizesAssumption DEF Blocks, Parts
<1>5. t \in {"take", "card"}
  BY DEF Top
<1> HIDE DEF f, c, t, o
<1>6. o \in Commands
  BY <1>0, <1>1, <1>2, <1>4, <1>5 DEF Commands
<1>7. /\ o.block = b /\ o.part = p /\ o.from = f /\ o.chunk = c
      /\ o.kind = op.kind /\ o.host = op.host
      /\ o.last = op.last /\ o.first = op.first /\ o.data = op.data
  BY <1>0, <1>1 DEF Commands
<1>8. QED
  BY <1>2, <1>3, <1>6, <1>7 DEF WellFormed, f, c, o

\* One block on without a chunk.
LEMMA WithoutFacts ==
  ASSUME WellFormed(op), op.block < op.last
  PROVE  /\ WellFormed(GoOnWithout)
         /\ GoOnWithout.kind = op.kind /\ GoOnWithout.first = op.first
         /\ GoOnWithout.last = op.last /\ GoOnWithout.data = op.data
         /\ GoOnWithout.host = op.host
         /\ GoOnWithout.block = op.block + 1 /\ GoOnWithout.part = 1
<1>0. op \in Commands
  BY DEF WellFormed
<1>1. op.block + 1 \in Blocks /\ 1 \in Parts
  BY <1>0, CommandFields, SizesAssumption DEF Blocks, Parts
<1>2. GoOnWithout \in Commands
  BY <1>0, <1>1 DEF GoOnWithout, Commands
<1>3. /\ GoOnWithout.block = op.block + 1 /\ GoOnWithout.part = 1
      /\ GoOnWithout.kind = op.kind /\ GoOnWithout.first = op.first
      /\ GoOnWithout.last = op.last /\ GoOnWithout.data = op.data
      /\ GoOnWithout.host = op.host /\ GoOnWithout.from = op.from
      /\ GoOnWithout.chunk = op.chunk
  BY <1>0 DEF GoOnWithout, Commands
<1>4. GoOnWithout.block <= GoOnWithout.last /\ GoOnWithout.from < GoOnWithout.block
  <2>1. op.block \in Int /\ op.last \in Int /\ op.from \in Int
    BY <1>0, CommandFields, Sizes
  <2>2. op.from <= op.block
    BY <2>1 DEF WellFormed
  <2>3. QED
    BY <1>3, <2>1, <2>2
<1>5. QED
  BY <1>2, <1>3, <1>4 DEF WellFormed

\* A command whose phase, host or data change stays well formed.
LEMMA SamePlaceFormed ==
  ASSUME WellFormed(op), NEW o \in Commands,
         o.block = op.block, o.last = op.last, o.from = op.from, o.chunk = op.chunk,
         o.part = op.part
  PROVE  WellFormed(o)
BY DEF WellFormed

LEMMA FinishTyped ==
  ASSUME Typed, op # Idle, Finish
  PROVE  op' = Idle /\ promise' \in [Blocks -> Data \cup {NoPromise}]
<1>1. op.data \in [Blocks -> Data]
  BY Runs, CommandFields
<1>2. promise \in [Blocks -> Data \cup {NoPromise}]
  BY DEF Typed, TypeOK
<1>3. ASSUME NEW b \in Blocks PROVE op.data[b] \in Data /\ promise[b] \in Data \cup {NoPromise}
  BY <1>1, <1>2
<1>4. promise' = [b \in Blocks |->
        IF op.kind = "write" /\ op.host = "here" /\ b \in op.first .. op.last
          THEN op.data[b] ELSE promise[b]]
  BY DEF Finish
<1>5. QED
  BY <1>3, <1>4 DEF Finish

\* What the loops of SDCardManager.c leave of the command.
LEMMA NextBlockTyped ==
  ASSUME Typed, op # Idle, NEW next, NextBlock(next),
         op.block < op.last => WellFormed(next)
  PROVE  CommandTyped' /\ promise' \in [Blocks -> Data \cup {NoPromise}]
<1>1. CASE Finish
  BY <1>1, FinishTyped DEF CommandTyped
<1>2. CASE op' = next /\ op.block < op.last /\ UNCHANGED promise
  <2>1. WellFormed(op')
    BY <1>2
  <2>2. QED
    BY <1>2, <2>1 DEF CommandTyped, WellFormed, Typed, TypeOK
<1>3. QED
  BY <1>1, <1>2 DEF NextBlock

LEMMA SkipTyped ==
  ASSUME Typed, op # Idle, SkipBlock
  PROVE  CommandTyped' /\ promise' \in [Blocks -> Data \cup {NoPromise}]
<1>1. WellFormed(op)
  BY Runs
<1>2. CASE op.kind = "write"
  <2>1. NextBlock(GoOn(op.block + 1, 1))
    BY <1>2 DEF SkipBlock
  <2>2. op.block < op.last => WellFormed(GoOn(op.block + 1, 1))
    BY <1>1, OnFacts
  <2>3. QED
    BY <2>1, <2>2, NextBlockTyped
<1>3. CASE op.kind # "write"
  <2>1. NextBlock(GoOnWithout)
    BY <1>3 DEF SkipBlock
  <2>2. QED
    BY <1>1, <2>1, WithoutFacts, NextBlockTyped
<1>4. QED
  BY <1>2, <1>3

\* A fault only adds to the history.
LEMMA FaultTyped ==
  ASSUME TypeOK, NEW kind, NEW S \in SUBSET Blocks, Fault(kind, S)
  PROVE  harmed' \in SUBSET Blocks /\ faults' \in Nat
BY DEF TypeOK, Fault

LEMMA UnsavedTyped == Typed => Unsaved \in SUBSET Blocks
BY DEF Typed, UpServes, Unsaved

LEMMA TypedStep == Typed /\ [Next]_vars => Typed'
<1>. SUFFICES ASSUME Typed, [Next]_vars PROVE Typed'
  OBVIOUS
<1>. USE DEF hostVars, cacheVars, faultVars
<1>1. CASE UNCHANGED vars
  BY <1>1 DEF vars, Typed, TypeOK, CommandTyped, WellFormed, UpServes
<1>2. CASE Connect
  BY <1>2 DEF Connect, Typed, TypeOK, CommandTyped, WellFormed, UpServes
<1>3. CASE SdRawInit
  BY <1>3, Sizes DEF SdRawInit, Typed, TypeOK, CommandTyped, WellFormed, UpServes
<1>4. CASE SdRawInitFails
  <2>1. harmed' \in SUBSET Blocks /\ faults' \in Nat
    BY <1>4, FaultTyped DEF SdRawInitFails, Typed
  <2>2. QED
    BY <1>4, <2>1 DEF SdRawInitFails, Typed, TypeOK, CommandTyped, WellFormed, UpServes
<1>5. ASSUME NEW first \in Blocks, NEW last \in Blocks, first <= last, StartRead(first, last)
      PROVE  Typed'
  <2>1. op' \in Commands /\ op'.block <= op'.last /\ op'.from = op'.block /\ op'.chunk <= op'.part
    BY <1>5, Sizes DEF StartRead, Command, Commands
  <2>2. WellFormed(op')
    BY <2>1 DEF WellFormed
  <2>3. QED
    BY <1>5, <2>1, <2>2 DEF StartRead, Typed, TypeOK, CommandTyped, WellFormed, UpServes
<1>6. ASSUME NEW first \in Blocks, NEW last \in Blocks, first <= last,
             NEW data \in [Blocks -> Data], StartWrite(first, last, data)
      PROVE  Typed'
  <2>1. op' \in Commands /\ op'.block <= op'.last /\ op'.from = op'.block /\ op'.chunk <= op'.part
    BY <1>6, Sizes DEF StartWrite, Command, Commands
  <2>2. promise' \in [Blocks -> Data \cup {NoPromise}] /\ harmed' \in SUBSET Blocks
    BY <1>6 DEF StartWrite, Typed, TypeOK
  <2>3. WellFormed(op')
    BY <2>1 DEF WellFormed
  <2>4. QED
    BY <1>6, <2>1, <2>2, <2>3 DEF StartWrite, Typed, TypeOK, CommandTyped, WellFormed, UpServes
<1>7. CASE Ready \/ Take \/ \E how \in {"gone", "reset"} : HostLeaves(how)
  <2>1. WellFormed(op) /\ op \in Commands /\ link = "up"
    BY <1>7, Runs DEF Ready, Take, HostLeaves, Running
  <2>2. /\ op' \in Commands /\ op'.block = op.block /\ op'.last = op.last
        /\ op'.from = op.from /\ op'.chunk = op.chunk /\ op'.part = op.part
    <3>1. CASE Ready
      <4>1. Top \in {"take", "card"}
        BY DEF Top
      <4>2. QED
        BY <2>1, <3>1, <4>1 DEF Ready, Commands
    <3>2. CASE Take
      <4>1. op.data[op.from][op.chunk] \in Values
        BY <2>1, CommandFields DEF Data
      <4>2. PICK v \in Values : op' = [op EXCEPT !.at = "card", !.data[op.from][op.chunk] = v]
        BY <3>2, <4>1 DEF Take
      <4>3. [op.data EXCEPT ![op.from][op.chunk] = v] \in [Blocks -> Data]
        BY <2>1, CommandFields DEF Data
      <4>4. op' = [op EXCEPT !.at = "card", !.data = [op.data EXCEPT ![op.from][op.chunk] = v]]
        BY <2>1, <4>2 DEF Commands
      <4>5. QED
        BY <2>1, <4>3, <4>4 DEF Commands
    <3>3. CASE \E how \in {"gone", "reset"} : HostLeaves(how)
      BY <2>1, <3>3 DEF HostLeaves, Commands
    <3>4. QED
      BY <1>7, <3>1, <3>2, <3>3
  <2>3. WellFormed(op')
    BY <2>1, <2>2, SamePlaceFormed
  <2>4. QED
    BY <1>7, <2>1, <2>2, <2>3 DEF Ready, Take, HostLeaves, Typed, TypeOK, CommandTyped, WellFormed, UpServes
<1>8. CASE Flush
  <2>1. card' \in [Blocks -> Data]
    BY <1>8 DEF Flush, Typed, TypeOK
  <2>2. QED
    BY <1>8, <2>1 DEF Flush, Typed, TypeOK, CommandTyped, WellFormed, UpServes
<1>9. CASE Fetch
  <2>1. op # Idle /\ link = "up"
    BY <1>9 DEF Fetch, Miss, Running
  <2>2. op.block \in Blocks
    BY <2>1, Runs, CommandFields
  <2>3. cacheAddr' \in Blocks /\ cacheData' \in Data
    BY <1>9, <2>2 DEF Fetch, Typed, TypeOK
  <2>4. QED
    BY <1>9, <2>1, <2>3 DEF Fetch, Typed, TypeOK, CommandTyped, WellFormed, UpServes
<1>10. CASE Deliver
  <2>1. op # Idle /\ link = "up" /\ WellFormed(op) /\ op \in Commands
    BY <1>10, Runs DEF Deliver, Hit, Running
  <2> DEFINE sent == [op.data EXCEPT ![op.from][op.chunk] = cacheData[op.part]]
             Sent(next) == [next EXCEPT !.data = sent]
  <2>2. sent \in [Blocks -> Data]
    BY <2>1, CommandFields DEF Typed, TypeOK, Data
  <2>3. answer' \in (Blocks \X Data) \cup {NoAnswer}
    BY <1>10, <2>1, <2>2, CommandFields DEF Deliver, Typed, TypeOK
  <2>4. ASSUME NEW o, WellFormed(o) PROVE WellFormed(Sent(o))
    <3>1. Sent(o) \in Commands /\ Sent(o).block = o.block /\ Sent(o).last = o.last
          /\ Sent(o).from = o.from /\ Sent(o).chunk = o.chunk /\ Sent(o).part = o.part
      BY <2>2, <2>4 DEF WellFormed, Commands
    <3>2. QED
      BY <2>4, <3>1 DEF WellFormed
  <2>5. CommandTyped' /\ promise' \in [Blocks -> Data \cup {NoPromise}]
    <3>1. CASE op.part < NParts /\ op.host # "reset"
      <4>1. op' = Sent(GoOn(op.block, op.part + 1)) /\ UNCHANGED promise
        BY <1>10, <3>1 DEF Deliver
      <4>2. WellFormed(GoOn(op.block, op.part + 1))
        BY <2>1, <3>1, OnFacts
      <4>3. WellFormed(op')
        BY <2>4, <4>1, <4>2
      <4>4. QED
        BY <4>1, <4>3 DEF CommandTyped, WellFormed, Typed, TypeOK
    <3>2. CASE ~(op.part < NParts /\ op.host # "reset")
      <4>1. NextBlock(Sent(GoOn(op.block + 1, 1)))
        BY <1>10, <3>2 DEF Deliver
      <4>2. op.block < op.last => WellFormed(Sent(GoOn(op.block + 1, 1)))
        BY <2>1, <2>4, OnFacts
      <4>3. QED
        BY <2>1, <4>1, <4>2, NextBlockTyped
    <3>3. QED
      BY <3>1, <3>2
  <2>6. QED
    BY <1>10, <2>1, <2>3, <2>5 DEF Deliver, Typed, TypeOK, CommandTyped, WellFormed, UpServes
<1>11. CASE MergeChunk
  <2>1. op # Idle /\ link = "up" /\ WellFormed(op) /\ op \in Commands
    BY <1>11, Runs DEF MergeChunk, Hit, Running
  <2>2. op.data[op.from][op.chunk] \in Values
    BY <2>1, CommandFields DEF Data
  <2>3. cacheData' \in Data
    BY <1>11, <2>2 DEF MergeChunk, Typed, TypeOK, Data
  <2>4. CommandTyped' /\ promise' \in [Blocks -> Data \cup {NoPromise}]
    <3>1. CASE op.part < NParts
      <4>1. op' = GoOn(op.block, op.part + 1) /\ promise' = promise
        BY <1>11, <3>1 DEF MergeChunk
      <4>2. WellFormed(op')
        BY <2>1, <3>1, <4>1, OnFacts
      <4>3. QED
        BY <4>1, <4>2 DEF CommandTyped, WellFormed, Typed, TypeOK
    <3>2. CASE ~(op.part < NParts)
      <4>1. NextBlock(GoOn(op.block + 1, 1))
        BY <1>11, <3>2 DEF MergeChunk
      <4>2. op.block < op.last => WellFormed(GoOn(op.block + 1, 1))
        BY <2>1, OnFacts
      <4>3. QED
        BY <2>1, <4>1, <4>2, NextBlockTyped
    <3>3. QED
      BY <3>1, <3>2
  <2>5. QED
    BY <1>11, <2>1, <2>3, <2>4 DEF MergeChunk, Typed, TypeOK, CommandTyped, WellFormed, UpServes
<1>12. CASE FlushLost
  <2>1. cacheAddr \in Blocks
    BY <1>12 DEF FlushLost, Miss, Running, Typed, UpServes
  <2>2. harmed' \in SUBSET Blocks /\ faults' \in Nat
    BY <1>12, <2>1, FaultTyped DEF FlushLost, Typed
  <2>3. QED
    BY <1>12, <2>2 DEF FlushLost, Typed, TypeOK, CommandTyped, WellFormed, UpServes
<1>13. CASE FlushRefused \/ FetchFails
  <2>1. op # Idle /\ link = "up" /\ SkipBlock
    BY <1>13 DEF FlushRefused, FetchFails, Miss, Running
  <2>2. op.block .. op.last \in SUBSET Blocks
    BY <2>1, Runs, BlockRange
  <2>3. harmed' \in SUBSET Blocks /\ faults' \in Nat
    BY <1>13, <2>2, FaultTyped DEF FlushRefused, FetchFails, Typed
  <2>4. CommandTyped' /\ promise' \in [Blocks -> Data \cup {NoPromise}]
    BY <2>1, SkipTyped
  <2>5. QED
    BY <1>13, <2>1, <2>3, <2>4 DEF FlushRefused, FetchFails, Typed, TypeOK, CommandTyped, WellFormed, UpServes
<1>14. CASE Disconnect
  <2>1. harmed' \in SUBSET Blocks /\ faults' \in Nat
    BY <1>14, UnsavedTyped, FaultTyped DEF Disconnect, Typed
  <2>2. QED
    BY <1>14, <2>1 DEF Disconnect, Typed, TypeOK, CommandTyped, WellFormed, UpServes
<1>15. CASE WatchdogReset
  <2>1. harmed' \in SUBSET Blocks /\ faults' \in Nat
    BY <1>15, UnsavedTyped, FaultTyped DEF WatchdogReset, Typed
  <2>2. card' \in [Blocks -> Data]
    BY <1>15, UnsavedTyped DEF WatchdogReset, Typed, TypeOK
  <2>3. QED
    BY <1>15, <2>1, <2>2, Sizes DEF WatchdogReset, ResetCache, Typed, TypeOK, CommandTyped, WellFormed, UpServes
<1>16. CASE WaitFails
  <2>1. op # Idle /\ link = "up" /\ WellFormed(op)
    BY <1>16, Runs DEF WaitFails, Running
  <2>2. op.block .. op.last \in SUBSET Blocks
    BY <2>1, Runs, BlockRange
  <2>3. harmed' \in SUBSET Blocks /\ faults' \in Nat
    BY <1>16, <2>2, FaultTyped DEF WaitFails, Typed, TypeOK
  <2>4. CommandTyped' /\ promise' \in [Blocks -> Data \cup {NoPromise}]
    <3>1. CASE Finish
      BY <2>1, <3>1, FinishTyped DEF CommandTyped
    <3>2. CASE NextBlock(GoOnWithout)
      BY <2>1, <3>2, WithoutFacts, NextBlockTyped
    <3>3. QED
      BY <1>16, <3>1, <3>2 DEF WaitFails
  <2>5. QED
    BY <1>16, <2>1, <2>3, <2>4 DEF WaitFails, Typed, TypeOK, CommandTyped, WellFormed, UpServes
<1>17. QED
  BY <1>1, <1>2, <1>3, <1>4, <1>5, <1>6, <1>7, <1>8, <1>9, <1>10, <1>11, <1>12, <1>13, <1>14,
     <1>15, <1>16 DEF Next, HostStep, EndpointStep, CacheStep, FaultStep

\* Every variable keeps its type.
THEOREM TypeCorrect == Spec => []TypeOK
<1>1. Init => Typed
  BY InitTypedToo
<1>2. Typed => TypeOK
  BY DEF Typed
<1>3. QED
  BY <1>1, <1>2, TypedStep, PTL DEF Spec

LEMMA AlwaysTyped == Spec => []Typed
<1>1. Init => Typed
  BY InitTypedToo
<1>2. QED
  BY <1>1, TypedStep, PTL DEF Spec

-----------------------------------------------------------------------------
(* The cache and the card *)

LEMMA CoherentStep ==
  ASSUME Typed, CleanCacheIsCoherent, [Next]_vars, ~FlushLost
  PROVE  CleanCacheIsCoherent'
<1>. USE DEF CleanCacheIsCoherent, hostVars, cacheVars, faultVars
<1>1. CASE UNCHANGED vars
  BY <1>1 DEF vars
<1>2. CASE Connect \/ SdRawInitFails \/ Disconnect
  BY <1>2 DEF Connect, SdRawInitFails, Disconnect
<1>3. CASE SdRawInit
  BY <1>3 DEF SdRawInit
<1>4. CASE \E first, last \in Blocks :
             StartRead(first, last) \/ \E data \in [Blocks -> Data] : StartWrite(first, last, data)
  BY <1>4 DEF StartRead, StartWrite
<1>5. CASE Flush
  BY <1>5 DEF Flush, Typed, TypeOK, UpServes
<1>6. CASE Fetch
  BY <1>6 DEF Fetch
<1>7. CASE Deliver
  BY <1>7 DEF Deliver
<1>8. CASE MergeChunk
  BY <1>8 DEF MergeChunk
<1>9. CASE FlushRefused \/ FetchFails
  BY <1>9 DEF FlushRefused, FetchFails
<1>10. CASE WatchdogReset
  BY <1>10 DEF WatchdogReset
<1>11. CASE EndpointStep \/ \E how \in {"gone", "reset"} : HostLeaves(how)
  BY <1>11 DEF EndpointStep, Ready, Take, WaitFails, HostLeaves
<1>12. QED
  BY <1>1, <1>2, <1>3, <1>4, <1>5, <1>6, <1>7, <1>8, <1>9, <1>10, <1>11
     DEF Next, HostStep, CacheStep, FaultStep

\* Unless the 1284p drops a block it has acknowledged, a cache that says it is
\* written agrees with the card, whatever else fails.
THEOREM CoherentAlways == "flush" \notin FaultKinds => (Spec => []CleanCacheIsCoherent)
<1>. SUFFICES ASSUME "flush" \notin FaultKinds PROVE Spec => []CleanCacheIsCoherent
  OBVIOUS
<1>1. Init => CleanCacheIsCoherent
  BY DEF Init, CleanCacheIsCoherent
<1>2. Typed /\ CleanCacheIsCoherent /\ [Next]_vars => CleanCacheIsCoherent'
  <2>1. ~FlushLost
    BY DEF FlushLost, Fault
  <2>2. QED
    BY <2>1, CoherentStep
<1>3. QED
  BY <1>1, <1>2, AlwaysTyped, PTL DEF Spec

-----------------------------------------------------------------------------
(* The array of blocks *)

\* What a host that has not left takes next is what sd_raw.c is about to read, and
\* what it has of the block so far is what the cache holds.
DueIsNext ==
  op # Idle /\ op.kind = "read" /\ op.host = "here" =>
    /\ op.from = op.block /\ op.chunk = op.part
    /\ op.part > 1 => cacheAddr = op.block
    /\ \A q \in Parts : q < op.part => op.data[op.block][q] = cacheData[q]

\* What a READ of a host that has not left has sent after one more chunk.
LEMMA Delivered ==
  ASSUME Typed, DueIsNext, Deliver, op.host = "here"
  PROVE  LET sent == [op.data EXCEPT ![op.from][op.chunk] = cacheData[op.part]]
         IN  /\ op.from = op.block /\ op.chunk = op.part /\ op.part \in Parts
             /\ \A q \in Parts : q <= op.part => sent[op.block][q] = cacheData[q]
             /\ op.part = NParts => sent[op.block] = cacheData
<1> DEFINE sent == [op.data EXCEPT ![op.from][op.chunk] = cacheData[op.part]]
<1>1. op # Idle /\ op \in Commands /\ op.kind = "read"
  BY Runs DEF Deliver, Hit, Running
<1>2. op.from = op.block /\ op.chunk = op.part /\ op.part \in Parts /\ op.block \in Blocks
  BY <1>1, CommandFields DEF DueIsNext
<1>3. op.data[op.block] \in Data /\ cacheData \in Data
  BY <1>1, <1>2, CommandFields DEF Typed, TypeOK
<1>4. sent[op.block] = [op.data[op.block] EXCEPT ![op.part] = cacheData[op.part]]
  BY <1>1, <1>2, CommandFields
<1>5. ASSUME NEW q \in Parts, q <= op.part PROVE sent[op.block][q] = cacheData[q]
  <2>1. CASE q = op.part
    BY <1>2, <1>3, <1>4, <2>1 DEF Data
  <2>2. CASE q # op.part
    <3>1. q < op.part
      BY <1>2, <1>5, <2>2 DEF Parts
    <3>2. op.data[op.block][q] = cacheData[q]
      BY <1>1, <3>1 DEF DueIsNext
    <3>3. QED
      BY <1>2, <1>3, <1>4, <2>2, <3>2 DEF Data
  <2>3. QED
    BY <2>1, <2>2
<1>6. ASSUME op.part = NParts PROVE sent[op.block] = cacheData
  <2>1. \A q \in Parts : sent[op.block][q] = cacheData[q]
    BY <1>5, <1>6, SizesAssumption DEF Parts
  <2>2. sent[op.block] \in Data
    BY <1>2, <1>3, <1>4 DEF Data
  <2>3. QED
    BY <1>3, <2>1, <2>2 DEF Data
<1>7. QED
  BY <1>2, <1>5, <1>6

LEMMA DueStep ==
  ASSUME Typed, DueIsNext, ~FaultStep, UNCHANGED faults, [Next]_vars
  PROVE  DueIsNext'
<1>. USE DEF hostVars, cacheVars, faultVars
<1>1. CASE UNCHANGED vars \/ Connect \/ SdRawInit \/ Flush \/ Fetch
  <2>1. CASE UNCHANGED vars
    BY <2>1 DEF vars, DueIsNext
  <2>2. CASE Connect \/ SdRawInit
    BY <2>2 DEF Connect, SdRawInit, DueIsNext, Typed, UpServes
  <2>3. CASE Flush
    BY <2>3 DEF Flush, DueIsNext
  <2>4. CASE Fetch
    <3>1. op' = op /\ op # Idle /\ op.block # cacheAddr
      BY <2>4 DEF Fetch, Miss, Running
    <3>2. op.part \in Parts
      BY <3>1, Runs, CommandFields
    <3>3. op.kind = "read" /\ op.host = "here" => ~(op.part > 1)
      BY <3>1 DEF DueIsNext
    <3>4. op.part = 1 => \A q \in Parts : ~(q < op.part)
      BY DEF Parts
    <3>5. QED
      BY <3>1, <3>2, <3>3, <3>4 DEF DueIsNext, Parts
  <2>5. QED
    BY <1>1, <2>1, <2>2, <2>3, <2>4
<1>2. ASSUME NEW how \in {"gone", "reset"}, HostLeaves(how)
      PROVE  DueIsNext'
  <2>1. op # Idle /\ op \in Commands
    BY <1>2, Runs DEF HostLeaves, Running
  <2>2. op'.host = how
    BY <1>2, <2>1 DEF HostLeaves, Commands
  <2>3. QED
    BY <2>2 DEF DueIsNext
<1>3. ASSUME NEW first \in Blocks, NEW last \in Blocks, StartRead(first, last)
      PROVE  DueIsNext'
  BY <1>3, Sizes DEF StartRead, Command, DueIsNext, Parts
<1>4. ASSUME NEW first \in Blocks, NEW last \in Blocks, NEW data \in [Blocks -> Data],
             StartWrite(first, last, data)
      PROVE  DueIsNext'
  BY <1>4 DEF StartWrite, Command, DueIsNext
<1>5. CASE Ready
  <2>1. op # Idle /\ op \in Commands
    BY <1>5, Runs DEF Ready, Running
  <2>2. /\ op'.kind = op.kind /\ op'.host = op.host /\ op'.from = op.from
        /\ op'.block = op.block /\ op'.chunk = op.chunk /\ op'.part = op.part
        /\ op'.data = op.data /\ UNCHANGED <<cacheAddr, cacheData>>
    BY <1>5, <2>1 DEF Ready, Commands
  <2>3. QED
    BY <2>1, <2>2 DEF DueIsNext
<1>6. CASE Take \/ MergeChunk \/ (WaitFails /\ op.host # "here")
           \/ (Deliver /\ op.host # "here")
  <2>1. op # Idle /\ op \in Commands /\ WellFormed(op)
    BY <1>6, Runs DEF Take, MergeChunk, WaitFails, Deliver, Hit, Running
  <2>2. \/ op' = Idle
        \/ op'.kind = op.kind /\ op'.host = op.host
    <3>1. CASE Take
      BY <2>1, <3>1 DEF Take, Commands
    <3>2. CASE MergeChunk
      BY <2>1, <3>2 DEF MergeChunk, NextBlock, Finish, GoOn, Commands
    <3>3. CASE WaitFails
      BY <2>1, <3>3 DEF WaitFails, NextBlock, Finish, GoOnWithout, Commands
    <3>4. CASE Deliver
      BY <2>1, <3>4 DEF Deliver, NextBlock, Finish, GoOn, Commands
    <3>5. QED
      BY <1>6, <3>1, <3>2, <3>3, <3>4
  <2>3. Take => op.kind # "read"
    BY DEF Take
  <2>4. QED
    BY <1>6, <2>2, <2>3 DEF MergeChunk, DueIsNext
<1>7. CASE Deliver /\ op.host = "here"
  <2> DEFINE sent == [op.data EXCEPT ![op.from][op.chunk] = cacheData[op.part]]
             Sent(next) == [next EXCEPT !.data = sent]
  <2>1. op # Idle /\ op \in Commands /\ WellFormed(op) /\ op.block = cacheAddr
    BY <1>7, Runs DEF Deliver, Hit, Running
  <2>2. /\ op.from = op.block /\ op.chunk = op.part /\ op.part \in Parts
        /\ \A q \in Parts : q <= op.part => sent[op.block][q] = cacheData[q]
    BY <1>7, Delivered
  <2>3. op.block \in Int /\ op.part \in Int /\ NParts \in Int /\ op.part <= NParts
    BY <2>1, <2>2, CommandFields, SizesAssumption DEF Blocks, Parts
  <2>4. ASSUME NEW o, WellFormed(o)
        PROVE  /\ Sent(o).from = o.from /\ Sent(o).block = o.block /\ Sent(o).part = o.part
               /\ Sent(o).chunk = o.chunk /\ Sent(o).data = sent
    BY <2>4 DEF WellFormed, Commands
  <2>5. CASE op.part < NParts
    <3>1. op' = Sent(GoOn(op.block, op.part + 1))
      BY <1>7, <2>5 DEF Deliver
    <3>2. /\ WellFormed(GoOn(op.block, op.part + 1))
          /\ GoOn(op.block, op.part + 1).from = op.block
          /\ GoOn(op.block, op.part + 1).chunk = op.part + 1
          /\ GoOn(op.block, op.part + 1).block = op.block
          /\ GoOn(op.block, op.part + 1).part = op.part + 1
      BY <2>1, <2>2, <2>5, OnFacts
    <3>3. /\ op'.from = op.block /\ op'.chunk = op.part + 1 /\ op'.block = op.block
          /\ op'.part = op.part + 1 /\ op'.data = sent
      BY <2>4, <3>1, <3>2
    <3>4. \A q \in Parts : q < op.part + 1 => q <= op.part
      BY <2>3 DEF Parts
    <3>5. UNCHANGED <<cacheAddr, cacheData>>
      BY <1>7 DEF Deliver
    <3>6. QED
      BY <2>1, <2>2, <3>3, <3>4, <3>5 DEF DueIsNext
  <2>6. CASE ~(op.part < NParts)
    <3>1. op' = Idle \/ (op.block < op.last /\ op' = Sent(GoOn(op.block + 1, 1)))
      BY <1>7, <2>6 DEF Deliver, NextBlock, Finish
    <3>2. CASE op' = Idle
      BY <3>2 DEF DueIsNext
    <3>3. CASE op.block < op.last /\ op' = Sent(GoOn(op.block + 1, 1))
      <4>1. /\ WellFormed(GoOn(op.block + 1, 1))
            /\ GoOn(op.block + 1, 1).from = op.block + 1
            /\ GoOn(op.block + 1, 1).chunk = 1
            /\ GoOn(op.block + 1, 1).block = op.block + 1
            /\ GoOn(op.block + 1, 1).part = 1
        BY <2>1, <2>2, <2>6, <3>3, OnFacts
      <4>2. op'.from = op'.block /\ op'.chunk = 1 /\ op'.part = 1
        BY <2>4, <3>3, <4>1
      <4>3. \A q \in Parts : ~(q < 1)
        BY DEF Parts
      <4>4. QED
        BY <4>2, <4>3 DEF DueIsNext
    <3>4. QED
      BY <3>1, <3>2, <3>3
  <2>7. QED
    BY <2>5, <2>6
<1>8. ASSUME WaitFails PROVE op.host # "here"
  BY <1>8 DEF WaitFails, Fault, Typed, TypeOK
<1>9. QED
  BY <1>1, <1>2, <1>3, <1>4, <1>5, <1>6, <1>7, <1>8
     DEF Next, HostStep, EndpointStep, CacheStep

LEMMA InitMaps == Init => Device!Init
<1>. SUFFICES ASSUME Init PROVE Device!Init
  OBVIOUS
<1>1. View = card
  BY DEF Init, View
<1>2. QED
  BY <1>1 DEF Init, Device!Init, Device!Data, Data

LEMMA StepMaps ==
  ASSUME Typed, CleanCacheIsCoherent, DueIsNext, ~FaultStep, UNCHANGED faults, [Next]_vars
  PROVE  [Device!Next]_<<View, answer>>
<1>. USE DEF hostVars, cacheVars, faultVars
<1>1. CASE UNCHANGED vars
  BY <1>1 DEF vars, View
<1>2. CASE Connect
  BY <1>2 DEF Connect, View
<1>3. CASE SdRawInit
  <2>1. View = card /\ View' = card /\ UNCHANGED answer
    BY <1>3, Sizes DEF SdRawInit, View, Typed, TypeOK
  <2>2. QED
    BY <2>1
<1>4. CASE \E first, last \in Blocks :
             StartRead(first, last) \/ \E data \in [Blocks -> Data] : StartWrite(first, last, data)
  <2>1. View' = View /\ answer' = NoAnswer
    BY <1>4 DEF StartRead, StartWrite, View
  <2>2. QED
    BY <2>1 DEF Device!Next, Device!Ask
<1>5. CASE EndpointStep \/ \E how \in {"gone", "reset"} : HostLeaves(how)
  BY <1>5 DEF EndpointStep, Ready, Take, WaitFails, HostLeaves, View
<1>6. CASE Flush
  <2>1. View' = View /\ UNCHANGED answer
    BY <1>6 DEF Flush, Miss, Running, View, Typed, TypeOK
  <2>2. QED
    BY <2>1
<1>7. CASE Fetch
  BY <1>7 DEF Fetch, Miss, Running, View, CleanCacheIsCoherent
<1>8. CASE Deliver
  <2>1. View' = View
    BY <1>8 DEF Deliver, View
  <2>2. CASE UNCHANGED answer
    BY <2>1, <2>2
  <2>3. CASE op.chunk = NParts /\ op.host = "here"
    <3>1. /\ op # Idle /\ op \in Commands /\ op.block \in Blocks /\ op.block = cacheAddr
          /\ link = "up"
      BY <1>8, Runs, CommandFields DEF Deliver, Hit, Running
    <3>2. op.from = op.block /\ [op.data EXCEPT ![op.from][op.chunk] = cacheData[op.part]][op.block] = cacheData
      BY <1>8, <2>3, Delivered
    <3>3. answer' = <<op.block, cacheData>>
      BY <1>8, <2>3, <3>2 DEF Deliver
    <3>4. View[op.block] = cacheData
      BY <3>1 DEF View
    <3>5. Device!Get(op.block)
      BY <2>1, <3>3, <3>4 DEF Device!Get
    <3>6. QED
      BY <3>1, <3>5 DEF Device!Next
  <2>4. QED
    BY <1>8, <2>2, <2>3 DEF Deliver
<1>9. CASE MergeChunk
  <2>1. op # Idle /\ op \in Commands /\ op.block = cacheAddr /\ link = "up"
    BY <1>9, Runs DEF MergeChunk, Hit, Running
  <2>2. op.block \in Blocks /\ op.part \in Parts /\ op.data[op.from][op.chunk] \in Values
    BY <2>1, CommandFields DEF Data
  <2>3. View[op.block] = cacheData /\ View \in [Blocks -> Data]
    BY <2>1, <2>2 DEF View, Typed, TypeOK
  <2>4. View' = [View EXCEPT ![op.block] =
                   [cacheData EXCEPT ![op.part] = op.data[op.from][op.chunk]]]
    BY <1>9, <2>1, <2>2 DEF MergeChunk, View
  <2>5. Device!Put(op.block, op.part, op.data[op.from][op.chunk])
    BY <1>9, <2>3, <2>4 DEF MergeChunk, Device!Put
  <2>6. QED
    BY <2>2, <2>5 DEF Device!Next
<1>10. QED
  BY <1>1, <1>2, <1>3, <1>4, <1>5, <1>6, <1>7, <1>8, <1>9
     DEF Next, HostStep, EndpointStep, CacheStep

\* A fault is counted, and the count never goes down.
LEMMA FaultCounts ==
  ASSUME Typed, [Next]_vars
  PROVE  /\ faults' \in Nat /\ (faults' = 0 => UNCHANGED faults)
         /\ FaultStep => faults' # 0
<1>. USE DEF Typed, TypeOK, hostVars, cacheVars, faultVars
<1>1. CASE FaultStep
  BY <1>1 DEF FaultStep, SdRawInitFails, FlushLost, FlushRefused, FetchFails, Disconnect,
     WatchdogReset, Fault
<1>2. CASE WaitFails
  BY <1>2 DEF WaitFails, Fault, FaultStep, SdRawInitFails, FlushLost, FlushRefused, FetchFails,
     Disconnect, WatchdogReset
<1>3. CASE ~FaultStep /\ ~WaitFails
  <2>1. faults' = faults
    BY <1>3 DEF Next, vars, Connect, SdRawInit, HostStep, StartRead, StartWrite, HostLeaves,
       EndpointStep, Ready, Take, CacheStep, Flush, Fetch, Deliver, MergeChunk
  <2>2. QED
    BY <1>3, <2>1
<1>4. QED
  BY <1>1, <1>2, <1>3

\* What holds until the first fault.
FaultFree == faults = 0 => CleanCacheIsCoherent /\ DueIsNext

LEMMA FaultFreeAlways == Spec => []FaultFree
<1>1. Init => FaultFree
  BY DEF Init, FaultFree, CleanCacheIsCoherent, DueIsNext
<1>2. Typed /\ FaultFree /\ [Next]_vars => FaultFree'
  <2>. SUFFICES ASSUME Typed, FaultFree, [Next]_vars, faults' = 0
                PROVE  CleanCacheIsCoherent' /\ DueIsNext'
    BY DEF FaultFree
  <2>1. CleanCacheIsCoherent /\ DueIsNext /\ ~FaultStep /\ UNCHANGED faults
    BY FaultCounts DEF FaultFree
  <2>2. QED
    BY <2>1, CoherentStep, DueStep DEF FaultStep
<1>3. QED
  BY <1>1, <1>2, AlwaysTyped, PTL DEF Spec

\* Until the first fault, the cache and the card together are the host's array of
\* blocks: every step of sd_raw.c is a step of it or invisible.
THEOREM Implements == Spec => ImplementsBlockDevice
<1>1. Typed /\ FaultFree /\ [Next]_vars
        => [Device!Next \/ faults' > 0]_<<View, answer>>
  <2>. SUFFICES ASSUME Typed, FaultFree, [Next]_vars
                PROVE  [Device!Next]_<<View, answer>> \/ faults' > 0
    OBVIOUS
  <2>1. CASE faults' = 0
    <3>1. CleanCacheIsCoherent /\ DueIsNext /\ ~FaultStep /\ UNCHANGED faults
      BY <2>1, FaultCounts DEF FaultFree
    <3>2. QED
      BY <3>1, StepMaps
  <2>2. CASE faults' # 0
    BY <2>2, FaultCounts
  <2>3. QED
    BY <2>1, <2>2
<1>2. QED
  BY <1>1, InitMaps, AlwaysTyped, FaultFreeAlways, PTL DEF Spec, ImplementsBlockDevice

-----------------------------------------------------------------------------
(* The damage of a fault.  The property speaks of acknowledged blocks; to be  *)
(* inductive it needs to know what has become of the command that is running. *)

\* The block has the data, and will keep it when the cache is replaced.
Safe(b, d) ==
  IF link = "up" /\ cacheAddr = b
    THEN cacheData = d /\ (written => card[b] = d)
    ELSE card[b] = d

PromisesKept == \A b \in Blocks : promise[b] = NoPromise \/ b \in harmed \/ Safe(b, promise[b])

\* The chunk that comes next is the one that the place in the block is for.
Aligned ==
  /\ op.from = op.block /\ op.chunk = op.part
  /\ op.part > 1 =>
       /\ cacheAddr = op.block /\ ~written
       /\ \A q \in Parts : q < op.part => cacheData[q] = op.data[op.block][q]

WriteOnCourse ==
  op # Idle /\ op.kind = "write" =>
    /\ op.first <= op.block
    /\ \A b \in Blocks : b \in op.first .. op.last => promise[b] = NoPromise
    /\ op.host = "here" =>
         /\ \A b \in Blocks : op.first <= b /\ b < op.block => b \in harmed \/ Safe(b, op.data[b])
         /\ Aligned \/ \A b \in Blocks : b \in op.block .. op.last => b \in harmed

DamageInv == Typed /\ PromisesKept /\ WriteOnCourse

LEMMA InvImpliesLocal == DamageInv => DamageIsLocal
BY DEF DamageInv, PromisesKept, Safe, DamageIsLocal, Kept

LEMMA InitInv == Init => DamageInv
BY InitTypedToo DEF DamageInv, Init, PromisesKept, WriteOnCourse

\* The steps that move whole blocks between card and cache, or none.
BlockStep ==
  \/ Connect \/ SdRawInit \/ SdRawInitFails \/ Flush \/ Fetch \/ FlushLost
  \/ Disconnect \/ WatchdogReset
  \/ UNCHANGED <<card, cacheVars, link>>

\* Only the merge of a chunk changes a block that no fault has hit.
LEMMA SafeKept ==
  ASSUME Typed, NEW b \in Blocks, BlockStep \/ (MergeChunk /\ b # op.block),
         NEW d, Safe(b, d), b \notin harmed'
  PROVE  Safe(b, d)'
<1>. USE DEF Safe, hostVars, cacheVars, faultVars
<1>1. CASE UNCHANGED <<card, cacheVars, link>>
  BY <1>1
<1>2. CASE Connect \/ SdRawInit \/ SdRawInitFails
  BY <1>2 DEF Connect, SdRawInit, SdRawInitFails
<1>3. CASE Flush
  BY <1>3 DEF Flush, Miss, Running, Typed, TypeOK, UpServes
<1>4. CASE Fetch
  BY <1>4 DEF Fetch, Miss, Running
<1>5. CASE MergeChunk /\ b # op.block
  BY <1>5 DEF MergeChunk, Hit, Running
<1>6. CASE FlushLost
  BY <1>6 DEF FlushLost, Fault, Miss, Running
<1>7. CASE Disconnect
  <2>1. b \notin Unsaved
    BY <1>7 DEF Disconnect, Fault
  <2>2. QED
    BY <1>7, <2>1 DEF Disconnect, Unsaved
<1>8. CASE WatchdogReset
  <2>1. b \notin Unsaved
    BY <1>8 DEF WatchdogReset, Fault
  <2>2. card'[b] = card[b]
    BY <1>8, <2>1 DEF WatchdogReset, Typed, TypeOK
  <2>3. QED
    BY <1>8, <2>1, <2>2 DEF WatchdogReset, Unsaved
<1>9. QED
  BY <1>1, <1>2, <1>3, <1>4, <1>5, <1>6, <1>7, <1>8 DEF BlockStep

\* What a WRITE knows of its blocks, apart from where it is in the current one.
LEMMA WriteFacts ==
  ASSUME DamageInv, op # Idle, op.kind = "write"
  PROVE  /\ op \in Commands /\ WellFormed(op)
         /\ op.first <= op.block /\ op.block <= op.last
         /\ op.block \in Blocks /\ op.first \in Blocks /\ op.last \in Blocks
         /\ op.block \in Int /\ op.first \in Int /\ op.last \in Int
         /\ op.part \in Parts /\ op.chunk \in Parts /\ op.part \in Int /\ op.chunk \in Int
         /\ NParts \in Int /\ \A b \in Blocks : b \in Int
         /\ \A b \in Blocks : op.data[b] \in Data
<1>1. Typed /\ WriteOnCourse
  BY DEF DamageInv
<1>2. op \in Commands /\ WellFormed(op)
  BY <1>1, Runs
<1>3. /\ op.block \in Blocks /\ op.first \in Blocks /\ op.last \in Blocks
      /\ op.part \in Parts /\ op.chunk \in Parts /\ op.data \in [Blocks -> Data]
  BY <1>2, CommandFields
<1>4. op.first <= op.block /\ op.block <= op.last
  BY <1>1, <1>2 DEF WriteOnCourse, WellFormed
<1>5. QED
  BY <1>2, <1>3, <1>4, SizesAssumption DEF Blocks, Parts

LEMMA MergeCompletes ==
  ASSUME DamageInv, MergeChunk, Aligned, op.part = NParts
  PROVE  link' = "up" /\ cacheAddr' = op.block /\ ~written' /\ cacheData' = op.data[op.block]
<1>1. op # Idle /\ op.kind = "write" /\ link = "up" /\ cacheAddr = op.block
  BY DEF MergeChunk, Hit, Running
<1>2. op.data[op.block] \in Data /\ cacheData \in Data /\ op.part \in Parts
  BY <1>1, WriteFacts DEF DamageInv, Typed, TypeOK
<1>3. cacheData' = [cacheData EXCEPT ![op.part] = op.data[op.block][op.part]]
  BY DEF MergeChunk, Aligned
<1>4. ASSUME NEW q \in Parts PROVE cacheData'[q] = op.data[op.block][q]
  <2>1. CASE q = op.part
    BY <1>2, <1>3, <2>1 DEF Data
  <2>2. CASE q # op.part
    <3>1. q < op.part /\ op.part > 1
      BY <2>2, SizesAssumption DEF Parts
    <3>2. cacheData[q] = op.data[op.block][q]
      BY <3>1 DEF Aligned
    <3>3. QED
      BY <1>2, <1>3, <2>2, <3>2 DEF Data
  <2>3. QED
    BY <2>1, <2>2
<1>5. cacheData' \in Data
  BY <1>2, <1>3 DEF Data
<1>6. cacheData' = op.data[op.block]
  BY <1>2, <1>4, <1>5 DEF Data
<1>7. QED
  BY <1>1, <1>6 DEF MergeChunk

\* Blocks that were acknowledged before the step and still are.
LEMMA OldPromises ==
  ASSUME DamageInv, NEW b \in Blocks,
         promise'[b] \in {promise[b], NoPromise}, b \in harmed => b \in harmed',
         BlockStep \/ (MergeChunk /\ (b = op.block => promise[b] = NoPromise))
  PROVE  promise'[b] = NoPromise \/ b \in harmed' \/ Safe(b, promise[b])'
<1>. SUFFICES ASSUME promise'[b] # NoPromise, b \notin harmed'
              PROVE  Safe(b, promise[b])'
  OBVIOUS
<1>1. promise'[b] = promise[b] /\ Safe(b, promise[b])
  BY DEF DamageInv, PromisesKept
<1>2. BlockStep \/ (MergeChunk /\ b # op.block)
  BY <1>1
<1>3. \A d : Safe(b, d) => Safe(b, d)'
  BY <1>2, SafeKept DEF DamageInv
<1>4. QED
  BY <1>1, <1>3 DEF Safe

\* The block comes out of the step with the data.
SafeNext(b, d) ==
  IF link' = "up" /\ cacheAddr' = b
    THEN cacheData' = d /\ (written' => card'[b] = d)
    ELSE card'[b] = d

\* Blocks that the running WRITE has finished, or finishes in this step.
LEMMA WrittenBlocks ==
  ASSUME DamageInv, op # Idle, op.kind = "write", op.host = "here", harmed \subseteq harmed',
         BlockStep \/ MergeChunk,
         NEW b \in Blocks, op.first <= b,
         b < op.block \/ (b = op.block /\ MergeChunk /\ op.part = NParts)
  PROVE  b \in harmed' \/ SafeNext(b, op.data[b])
<1>. SUFFICES ASSUME b \notin harmed'
              PROVE  SafeNext(b, op.data[b])
  OBVIOUS
<1>0. op.block \in Blocks /\ op.block <= op.last /\ op.last \in Blocks /\ op.first <= op.block
  BY WriteFacts
<1>1. b \notin harmed
  OBVIOUS
<1>2. CASE b < op.block
  <2>1. Safe(b, op.data[b])
    BY <1>1, <1>2 DEF DamageInv, WriteOnCourse
  <2>2. \A d : Safe(b, d) => Safe(b, d)'
    BY <1>0, <1>2, SafeKept, Sizes DEF DamageInv
  <2>3. QED
    BY <2>1, <2>2 DEF Safe, SafeNext
<1>3. CASE b = op.block /\ MergeChunk /\ op.part = NParts
  <2>1. b \in op.block .. op.last
    BY <1>0, <1>3, Sizes
  <2>2. Aligned
    BY <1>1, <2>1 DEF DamageInv, WriteOnCourse
  <2>3. QED
    BY <1>3, <2>2, MergeCompletes DEF SafeNext
<1>4. QED
  BY <1>2, <1>3

\* What a WRITE leaves of the promises when it ends, and of a block it has tried.
LEMMA FinishKeeps ==
  ASSUME DamageInv, op # Idle, op.kind = "write", harmed \subseteq harmed',
         BlockStep \/ MergeChunk, Finish,
         op.host = "here" =>
           \/ op.block .. op.last \subseteq harmed'
           \/ MergeChunk /\ op.part = NParts /\ op.block = op.last
  PROVE  PromisesKept' /\ WriteOnCourse'
<1>0. /\ op.block \in Int /\ op.last \in Int /\ op.first \in Int
      /\ op.first <= op.block /\ op.block <= op.last /\ \A b \in Blocks : b \in Int
  BY WriteFacts
<1>1. /\ op' = Idle
      /\ promise' = [b \in Blocks |->
           IF op.host = "here" /\ b \in op.first .. op.last THEN op.data[b] ELSE promise[b]]
  BY DEF Finish
<1>2. ASSUME NEW b \in Blocks
      PROVE  promise'[b] = NoPromise \/ b \in harmed' \/ Safe(b, promise[b])'
  <2>1. CASE b \in op.first .. op.last /\ op.host = "here"
    <3>1. promise'[b] = op.data[b]
      BY <1>1, <2>1
    <3>2. op.first <= b /\ (b < op.block \/ b \in op.block .. op.last)
      BY <1>0, <2>1
    <3>3. CASE b < op.block
      BY <2>1, <3>1, <3>2, <3>3, WrittenBlocks DEF Safe, SafeNext
    <3>4. CASE b \in op.block .. op.last
      <4>1. CASE op.block .. op.last \subseteq harmed'
        BY <3>4, <4>1
      <4>2. CASE MergeChunk /\ op.part = NParts /\ op.block = op.last
        <5>1. b = op.block
          BY <1>0, <3>4, <4>2
        <5>2. QED
          BY <2>1, <3>1, <3>2, <4>2, <5>1, WrittenBlocks DEF Safe, SafeNext
      <4>3. QED
        BY <2>1, <4>1, <4>2
    <3>5. QED
      BY <3>2, <3>3, <3>4
  <2>2. CASE ~(b \in op.first .. op.last /\ op.host = "here")
    <3>1. promise'[b] = promise[b]
      BY <1>1, <2>2
    <3>2. b = op.block => promise[b] = NoPromise
      BY <1>0 DEF DamageInv, WriteOnCourse
    <3>3. QED
      BY <3>1, <3>2, OldPromises
  <2>3. QED
    BY <2>1, <2>2
<1>3. QED
  BY <1>1, <1>2 DEF PromisesKept, WriteOnCourse

\* A WRITE goes on with the next block, and has merged the whole of this one or
\* been hit by a fault.
LEMMA NextKeeps ==
  ASSUME DamageInv, op # Idle, op.kind = "write", harmed \subseteq harmed',
         BlockStep \/ MergeChunk, op.block < op.last, UNCHANGED promise,
         op'.kind = "write", op'.block = op.block + 1, op'.part = 1, op'.first = op.first,
         op'.last = op.last, op'.data = op.data, op'.host = op.host,
         op.host = "here" =>
           \/ op.block .. op.last \subseteq harmed'
           \/ /\ MergeChunk /\ op.part = NParts
              /\ op'.from = IF op.chunk < NParts THEN op.from ELSE op.from + 1
              /\ op'.chunk = IF op.chunk < NParts THEN op.chunk + 1 ELSE 1
  PROVE  PromisesKept' /\ WriteOnCourse'
<1>0. /\ op.block \in Int /\ op.last \in Int /\ op.first \in Int /\ op.chunk \in Int
      /\ NParts \in Int
      /\ op.first <= op.block /\ op.block <= op.last /\ \A b \in Blocks : b \in Int
  BY WriteFacts
<1>1. ASSUME NEW b \in Blocks
      PROVE  promise'[b] = NoPromise \/ b \in harmed' \/ Safe(b, promise[b])'
  <2>1. b = op.block => promise[b] = NoPromise
    BY <1>0 DEF DamageInv, WriteOnCourse
  <2>2. QED
    BY <2>1, OldPromises
<1>2. \A b \in Blocks : b \in op'.first .. op'.last => promise'[b] = NoPromise
  BY DEF DamageInv, WriteOnCourse
<1>3. ASSUME op.host = "here", NEW b \in Blocks, op'.first <= b, b < op'.block
      PROVE  b \in harmed' \/ SafeNext(b, op.data[b])
  <2>1. op.first <= b /\ (b < op.block \/ b = op.block)
    BY <1>0, <1>3
  <2>2. CASE b < op.block
    BY <1>3, <2>1, <2>2, WrittenBlocks
  <2>3. CASE b = op.block /\ op.block .. op.last \subseteq harmed'
    BY <1>0, <2>3
  <2>4. CASE b = op.block /\ MergeChunk /\ op.part = NParts
    BY <1>3, <2>1, <2>4, WrittenBlocks
  <2>5. QED
    BY <1>3, <2>1, <2>2, <2>3, <2>4
<1>4. ASSUME op.host = "here"
      PROVE  Aligned' \/ \A b \in Blocks : b \in op'.block .. op'.last => b \in harmed'
  <2>1. CASE op.block .. op.last \subseteq harmed'
    BY <1>0, <2>1
  <2>2. CASE Aligned /\ ~(op.block .. op.last \subseteq harmed')
    BY <1>0, <1>4, <2>2 DEF Aligned
  <2>3. CASE \A b \in Blocks : b \in op.block .. op.last => b \in harmed
    BY <1>0, <2>3
  <2>4. QED
    BY <1>4, <2>1, <2>2, <2>3 DEF DamageInv, WriteOnCourse
<1>5. op'.first <= op'.block
  BY <1>0
<1>6. \A b \in Blocks : op.host = "here" /\ op'.first <= b /\ b < op'.block =>
        b \in harmed' \/ Safe(b, op.data[b])'
  BY <1>3 DEF Safe, SafeNext
<1>7. QED
  BY <1>1, <1>2, <1>4, <1>5, <1>6 DEF PromisesKept, WriteOnCourse

\* A block that fails, in sd_raw.c or for want of a packet.
LEMMA FailedBlock ==
  ASSUME DamageInv, op # Idle, op.kind = "write", harmed \subseteq harmed', BlockStep,
         op.host = "here" => op.block .. op.last \subseteq harmed',
         Finish \/ NextBlock(GoOn(op.block + 1, 1)) \/ NextBlock(GoOnWithout)
  PROVE  PromisesKept' /\ WriteOnCourse'
<1>1. CASE Finish
  BY <1>1, FinishKeeps
<1>2. CASE op.block < op.last /\ op' \in {GoOn(op.block + 1, 1), GoOnWithout} /\ UNCHANGED promise
  <2>1. WellFormed(op)
    BY WriteFacts
  <2>2. /\ op'.kind = "write" /\ op'.block = op.block + 1 /\ op'.part = 1
        /\ op'.first = op.first /\ op'.last = op.last /\ op'.data = op.data
        /\ op'.host = op.host
    <3>1. CASE op' = GoOn(op.block + 1, 1)
      BY <1>2, <2>1, <3>1, OnFacts
    <3>2. CASE op' = GoOnWithout
      BY <1>2, <2>1, <3>2, WithoutFacts
    <3>3. QED
      BY <1>2, <3>1, <3>2
  <2>3. QED
    BY <1>2, <2>2, NextKeeps
<1>3. QED
  BY <1>1, <1>2 DEF NextBlock

\* A step that leaves the place of the command and the promises alone.
LEMMA CommandStays ==
  ASSUME DamageInv, BlockStep, UNCHANGED promise, harmed \subseteq harmed',
         \/ op = Idle /\ op' = Idle
         \/ /\ op # Idle /\ op'.kind = op.kind /\ op'.first = op.first /\ op'.last = op.last
            /\ op'.block = op.block /\ op'.part = op.part /\ op'.from = op.from
            /\ op'.chunk = op.chunk
            /\ op'.host = "here" => op.host = "here" /\ op'.data = op.data,
         op # Idle => UNCHANGED <<cacheAddr, cacheData, written>> \/ Miss
  PROVE  PromisesKept' /\ WriteOnCourse'
<1>1. ASSUME NEW b \in Blocks
      PROVE  promise'[b] = NoPromise \/ b \in harmed' \/ Safe(b, promise[b])'
  BY OldPromises
<1>2. ASSUME op # Idle, op.kind = "write"
      PROVE  WriteOnCourse'
  <2>1. \A b \in Blocks : b \in op'.first .. op'.last => promise'[b] = NoPromise
    BY <1>2 DEF DamageInv, WriteOnCourse
  <2>2. ASSUME op'.host = "here", NEW b \in Blocks, op.first <= b, b < op.block
        PROVE  b \in harmed' \/ SafeNext(b, op.data[b])
    BY <1>2, <2>2, WrittenBlocks
  <2>3. op'.host = "here" /\ Aligned => Aligned'
    BY <1>2, WriteFacts DEF Aligned, Miss, Parts
  <2>4. op'.first <= op'.block
    BY <1>2 DEF DamageInv, WriteOnCourse
  <2>5. op'.host = "here" =>
          Aligned' \/ \A b \in Blocks : b \in op'.block .. op'.last => b \in harmed'
    BY <1>2, <2>3 DEF DamageInv, WriteOnCourse
  <2>6. op'.host = "here" =>
          \A b \in Blocks : op'.first <= b /\ b < op'.block => b \in harmed' \/ Safe(b, op.data[b])'
    BY <1>2, <2>2 DEF Safe, SafeNext
  <2>7. QED
    BY <2>1, <2>4, <2>5, <2>6 DEF WriteOnCourse
<1>3. QED
  BY <1>1, <1>2 DEF PromisesKept, WriteOnCourse

\* A step that ends the command, or runs a READ, and breaks no promise.
LEMMA NoWriteRuns ==
  ASSUME DamageInv, BlockStep, op' = Idle \/ op'.kind = "read",
         UNCHANGED promise, harmed \subseteq harmed'
  PROVE  PromisesKept' /\ WriteOnCourse'
<1>1. ASSUME NEW b \in Blocks
      PROVE  promise'[b] = NoPromise \/ b \in harmed' \/ Safe(b, promise[b])'
  BY OldPromises
<1>2. QED
  BY <1>1 DEF PromisesKept, WriteOnCourse

LEMMA WriteStarts ==
  ASSUME DamageInv, NEW first \in Blocks, NEW last \in Blocks, first <= last,
         NEW data \in [Blocks -> Data], StartWrite(first, last, data)
  PROVE  PromisesKept' /\ WriteOnCourse'
<1>1. ASSUME NEW b \in Blocks
      PROVE  promise'[b] = NoPromise \/ b \in harmed' \/ Safe(b, promise[b])'
  <2>1. BlockStep
    BY DEF StartWrite, BlockStep
  <2>2. promise'[b] = IF b \in first .. last THEN NoPromise ELSE promise[b]
    BY DEF StartWrite
  <2>3. b \in harmed /\ b \notin first .. last => b \in harmed'
    BY DEF StartWrite
  <2>4. QED
    BY <2>1, <2>2, <2>3, OldPromises
<1>2. /\ op'.kind = "write" /\ op'.block = first /\ op'.first = first /\ op'.last = last
      /\ op'.part = 1 /\ op'.from = first /\ op'.chunk = 1
  BY DEF StartWrite, Command
<1>3. \A b \in Blocks : b \in first .. last => promise'[b] = NoPromise
  BY DEF StartWrite
<1>4. Aligned'
  BY <1>2 DEF Aligned
<1>5. \A b \in Blocks : ~(first <= b /\ b < first)
  BY Sizes
<1>6. first <= first
  BY Sizes
<1>7. QED
  BY <1>1, <1>2, <1>3, <1>4, <1>5, <1>6 DEF PromisesKept, WriteOnCourse

LEMMA PartMerges ==
  ASSUME DamageInv, MergeChunk, op.part < NParts
  PROVE  PromisesKept' /\ WriteOnCourse'
<1>1. /\ op # Idle /\ op.kind = "write" /\ op.block = cacheAddr
      /\ op' = GoOn(op.block, op.part + 1)
      /\ written' = FALSE /\ UNCHANGED <<promise, harmed, cacheAddr>>
      /\ cacheData' = [cacheData EXCEPT ![op.part] = op.data[op.from][op.chunk]]
  BY DEF MergeChunk, Hit, Running, faultVars
<1>2. /\ WellFormed(op) /\ op.block \in Blocks /\ op.block <= op.last /\ op.last \in Blocks
      /\ op.first \in Blocks /\ op.first <= op.block /\ op.part \in Parts
      /\ cacheData \in Data
  BY <1>1, WriteFacts DEF DamageInv, Typed, TypeOK
<1>3. op.block \in Int /\ op.last \in Int /\ op.first \in Int /\ op.part \in Int
  BY <1>1, WriteFacts
<1>4. /\ op'.kind = "write" /\ op'.block = op.block /\ op'.part = op.part + 1
      /\ op'.last = op.last /\ op'.first = op.first /\ op'.data = op.data
      /\ op'.host = op.host
      /\ op'.from = IF op.chunk < NParts THEN op.from ELSE op.from + 1
      /\ op'.chunk = IF op.chunk < NParts THEN op.chunk + 1 ELSE 1
  BY <1>1, <1>2, OnFacts
<1>5. ASSUME NEW b \in Blocks
      PROVE  promise'[b] = NoPromise \/ b \in harmed' \/ Safe(b, promise[b])'
  <2>1. b = op.block => promise[b] = NoPromise
    BY <1>1, <1>2, <1>3 DEF DamageInv, WriteOnCourse
  <2>2. QED
    BY <1>1, <2>1, OldPromises
<1>6. ASSUME op.host = "here", NEW b \in Blocks, op.first <= b, b < op.block
      PROVE  b \in harmed' \/ SafeNext(b, op.data[b])
  BY <1>1, <1>6, WrittenBlocks
<1>7. ASSUME Aligned PROVE Aligned'
  <2>1. op'.from = op'.block /\ op'.chunk = op'.part
    BY <1>4, <1>7 DEF Aligned
  <2>2. ASSUME NEW q \in Parts, q < op.part + 1
        PROVE  cacheData'[q] = op.data[op.block][q]
    <3>1. CASE q = op.part
      BY <1>1, <1>2, <1>7, <3>1 DEF Aligned, Data
    <3>2. CASE q # op.part
      <4>1. q < op.part /\ op.part > 1
        BY <1>2, <2>2, <3>2 DEF Parts
      <4>2. cacheData[q] = op.data[op.block][q]
        BY <1>7, <4>1 DEF Aligned
      <4>3. QED
        BY <1>1, <1>2, <3>2, <4>2 DEF Data
    <3>3. QED
      BY <3>1, <3>2
  <2>3. QED
    BY <1>1, <1>4, <2>1, <2>2 DEF Aligned
<1>8. op.host = "here" =>
        Aligned' \/ \A b \in Blocks : b \in op'.block .. op'.last => b \in harmed'
  BY <1>1, <1>4, <1>7 DEF DamageInv, WriteOnCourse
<1>9. \A b \in Blocks : b \in op'.first .. op'.last => promise'[b] = NoPromise
  BY <1>1, <1>4 DEF DamageInv, WriteOnCourse
<1>10. \A b \in Blocks : op.host = "here" /\ op'.first <= b /\ b < op'.block =>
         b \in harmed' \/ Safe(b, op.data[b])'
  BY <1>4, <1>6 DEF Safe, SafeNext
<1>11. QED
  BY <1>2, <1>4, <1>5, <1>8, <1>9, <1>10 DEF PromisesKept, WriteOnCourse

LEMMA DamageStep ==
  ASSUME DamageInv, [Next]_vars
  PROVE  PromisesKept' /\ WriteOnCourse'
<1>. USE DEF hostVars, cacheVars, faultVars
<1>1. CASE UNCHANGED vars
  BY <1>1, CommandStays DEF vars, BlockStep
<1>2. CASE Connect \/ SdRawInit \/ SdRawInitFails
  <2>1. op = Idle /\ UNCHANGED <<op, promise>> /\ harmed \subseteq harmed' /\ BlockStep
    BY <1>2 DEF Connect, SdRawInit, SdRawInitFails, Fault, DamageInv, Typed, UpServes, BlockStep
  <2>2. QED
    BY <2>1, CommandStays
<1>3. CASE Flush \/ FlushLost \/ Fetch
  <2>1. Miss /\ UNCHANGED <<op, promise>> /\ harmed \subseteq harmed' /\ BlockStep
    BY <1>3 DEF Flush, FlushLost, Fetch, Fault, BlockStep
  <2>2. QED
    BY <2>1, CommandStays
<1>4. CASE Disconnect \/ WatchdogReset
  <2>1. op' = Idle /\ UNCHANGED promise /\ harmed \subseteq harmed' /\ BlockStep
    BY <1>4 DEF Disconnect, WatchdogReset, Fault, BlockStep
  <2>2. QED
    BY <2>1, NoWriteRuns
<1>5. ASSUME NEW first \in Blocks, NEW last \in Blocks, StartRead(first, last)
      PROVE  PromisesKept' /\ WriteOnCourse'
  <2>1. op'.kind = "read" /\ UNCHANGED promise /\ harmed \subseteq harmed' /\ BlockStep
    BY <1>5 DEF StartRead, Command, BlockStep
  <2>2. QED
    BY <2>1, NoWriteRuns
<1>6. ASSUME NEW first \in Blocks, NEW last \in Blocks, first <= last,
             NEW data \in [Blocks -> Data], StartWrite(first, last, data)
      PROVE  PromisesKept' /\ WriteOnCourse'
  BY <1>6, WriteStarts
<1>7. CASE Ready \/ Take \/ \E how \in {"gone", "reset"} : HostLeaves(how)
  <2>1. /\ op # Idle /\ op \in Commands /\ harmed \subseteq harmed' /\ BlockStep
        /\ UNCHANGED promise /\ UNCHANGED <<cacheAddr, cacheData, written>>
    BY <1>7, Runs DEF Ready, Take, HostLeaves, Running, BlockStep, DamageInv
  <2>2. /\ op'.kind = op.kind /\ op'.first = op.first /\ op'.last = op.last
        /\ op'.block = op.block /\ op'.part = op.part /\ op'.from = op.from
        /\ op'.chunk = op.chunk
        /\ op'.host = "here" => op.host = "here" /\ op'.data = op.data
    <3>1. CASE Ready
      BY <2>1, <3>1 DEF Ready, Commands
    <3>2. CASE Take
      <4>1. PICK v : /\ op' = [op EXCEPT !.at = "card", !.data[op.from][op.chunk] = v]
                     /\ op.host = "here" => v = op.data[op.from][op.chunk]
        BY <3>2 DEF Take
      <4>2. op.host = "here" => op'.data = op.data
        BY <2>1, <4>1, CommandFields DEF Commands, Data
      <4>3. QED
        BY <2>1, <4>1, <4>2 DEF Commands
    <3>3. CASE \E how \in {"gone", "reset"} : HostLeaves(how)
      BY <2>1, <3>3 DEF HostLeaves, Commands
    <3>4. QED
      BY <1>7, <3>1, <3>2, <3>3
  <2>3. QED
    BY <2>1, <2>2, CommandStays
<1>8. CASE Deliver \/ FlushRefused \/ FetchFails \/ WaitFails
  <2>1. op # Idle /\ op \in Commands /\ harmed \subseteq harmed' /\ BlockStep
    BY <1>8, Runs DEF Deliver, FlushRefused, FetchFails, WaitFails, Hit, Miss, Running, Fault, BlockStep,
       DamageInv
  <2>2. CASE op.kind = "read"
    <3>1. UNCHANGED promise
      BY <1>8, <2>2 DEF Deliver, FlushRefused, FetchFails, WaitFails, SkipBlock, NextBlock, Finish,
         DamageInv, Typed, TypeOK
    <3>2. op' = Idle \/ op'.kind = "read"
      <4>1. CASE Deliver
        BY <2>1, <2>2, <4>1 DEF Deliver, NextBlock, Finish, GoOn, Commands
      <4>2. CASE FlushRefused \/ FetchFails
        BY <2>1, <2>2, <4>2 DEF FlushRefused, FetchFails, SkipBlock, NextBlock, Finish, GoOnWithout, Commands
      <4>3. CASE WaitFails
        BY <2>1, <2>2, <4>3 DEF WaitFails, NextBlock, Finish, GoOnWithout, Commands
      <4>4. QED
        BY <1>8, <4>1, <4>2, <4>3
    <3>3. QED
      BY <2>1, <3>1, <3>2, NoWriteRuns
  <2>3. CASE op.kind = "write"
    <3>1. op.host = "here" => op.block .. op.last \subseteq harmed'
      BY <1>8, <2>3 DEF Deliver, FlushRefused, FetchFails, WaitFails, Fault
    <3>2. Finish \/ NextBlock(GoOn(op.block + 1, 1)) \/ NextBlock(GoOnWithout)
      BY <1>8, <2>3 DEF Deliver, FlushRefused, FetchFails, WaitFails, SkipBlock
    <3>3. QED
      BY <2>1, <2>3, <3>1, <3>2, FailedBlock
  <2>4. QED
    BY <2>1, <2>2, <2>3, CommandFields
<1>9. CASE MergeChunk
  <2>1. op # Idle /\ op.kind = "write"
    BY <1>9 DEF MergeChunk, Hit, Running
  <2>2. WellFormed(op) /\ op.part \in Parts /\ op.block \in Int /\ op.last \in Int /\ op.block <= op.last
    BY <2>1, WriteFacts
  <2>3. CASE op.part < NParts
    BY <1>9, <2>3, PartMerges
  <2>4. CASE ~(op.part < NParts)
    <3>1. op.part = NParts /\ harmed \subseteq harmed'
      BY <1>9, <2>2, <2>4, SizesAssumption DEF Parts, MergeChunk
    <3>2. NextBlock(GoOn(op.block + 1, 1))
      BY <1>9, <2>4 DEF MergeChunk
    <3>3. CASE op.block < op.last /\ op.host # "reset"
      <4>1. op' = GoOn(op.block + 1, 1) /\ UNCHANGED promise
        BY <3>2, <3>3 DEF NextBlock
      <4>2. QED
        BY <1>9, <2>1, <2>2, <3>1, <3>3, <4>1, OnFacts, NextKeeps
    <3>4. CASE ~(op.block < op.last /\ op.host # "reset")
      <4>1. Finish
        BY <2>1, <3>2, <3>4 DEF NextBlock
      <4>2. op.host = "here" => op.block = op.last
        BY <2>2, <3>4
      <4>3. QED
        BY <1>9, <2>1, <3>1, <4>1, <4>2, FinishKeeps
    <3>5. QED
      BY <3>3, <3>4
  <2>5. QED
    BY <2>3, <2>4
<1>10. QED
  BY <1>1, <1>2, <1>3, <1>4, <1>5, <1>6, <1>7, <1>8, <1>9
     DEF Next, HostStep, EndpointStep, CacheStep, FaultStep

\* Whatever fails, in whatever order: an acknowledged block that differs from what
\* the host can read is one that a fault has hit since it was last written.
THEOREM DamageIsLocalAlways == Spec => []DamageIsLocal
<1>1. Init => DamageInv
  BY InitInv
<1>2. DamageInv /\ [Next]_vars => DamageInv'
  BY DamageStep, TypedStep DEF DamageInv
<1>3. DamageInv => DamageIsLocal
  BY InvImpliesLocal
<1>4. QED
  BY <1>1, <1>2, <1>3, PTL DEF Spec
=============================================================================
