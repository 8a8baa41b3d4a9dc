---------------------------- MODULE ConfigProofs ----------------------------
(***************************************************************************)
(* Proofs about Config: every variable keeps its type, an EEPROM that was  *)
(* once written is recognised at every later power up, what the file says  *)
(* wins, what was saved returns, and power cuts leave a whole id.          *)
(***************************************************************************)
EXTENDS Config, TLAPS

Struct == [Addr -> Byte]
Writes == {"eeprom", "remove", "create", "close"} \X Addr
Slot == {"out", "in", "begun"}

-----------------------------------------------------------------------------
(* What the operators return *)

LEMMA InvalidStruct == Invalid \in Struct /\ Magic(Invalid)
BY DEF Invalid, Struct, Addr, Byte, Magic

LEMMA AsHexByte == ASSUME NEW v \in Byte PROVE AsHex(v) \in Byte
BY DEF AsHex, Byte

\* A configuration that is read from a file is a structure with its magic.
LEMMA FromFileStruct ==
  ASSUME NEW f, IsFile(f)
  PROVE  FromFile(f) \in Struct /\ Magic(FromFile(f))
<1>1. \A a \in Addr : FromFile(f)[a] \in Byte
  BY InvalidStruct DEF FromFile, IsFile, Struct, Flags, SO, CT, HV, SD
<1>2. 0 \notin DOMAIN f /\ 1 \notin DOMAIN f
  BY DEF IsFile, Flags, SO, CT, HV, SD
<1>3. FromFile(f)[0] = Invalid[0] /\ FromFile(f)[1] = Invalid[1]
  BY <1>2 DEF FromFile, Addr
<1>4. FromFile(f) \in Struct
  BY <1>1 DEF FromFile, Struct
<1> QED BY <1>3, <1>4, InvalidStruct DEF Magic

\* What is written to a file is a file.
LEMMA ToFileIsFile == ASSUME NEW c \in Struct PROVE IsFile(ToFile(c))
<1>1. DOMAIN ToFile(c) = {2, 3} \cup Flags
  BY DEF ToFile, Addr, Flags, SO, CT, HV, SD
<1>2. \A a \in DOMAIN ToFile(c) : ToFile(c)[a] \in Byte
  <2> SUFFICES ASSUME NEW a \in Addr \ {0, 1} PROVE ToFile(c)[a] \in Byte
    BY DEF ToFile
  <2>1. c[a] \in Byte
    BY DEF Struct
  <2>2. ToFile(c)[a] = IF a \in Flags THEN AsHex(c[a]) ELSE c[a]
    BY DEF ToFile
  <2> QED BY <2>1, <2>2, AsHexByte
<1> QED BY <1>1, <1>2 DEF IsFile

\* Neither the merge nor the defaults touch the magic.
LEMMA MergedStruct ==
  ASSUME NEW c \in Struct, NEW f \in Struct, Magic(c)
  PROVE  Merged(c, f) \in Struct /\ Magic(Merged(c, f))
<1>1. Merged(c, f) \in Struct
  BY DEF Merged, Struct
<1>2. Merged(c, f)[0] = c[0] /\ Merged(c, f)[1] = c[1]
  BY DEF Merged, Replaces, Addr, SO, CT, HV, SD
<1> QED BY <1>1, <1>2 DEF Magic

LEMMA DefaultedStruct ==
  ASSUME NEW c \in Struct, Magic(c), NEW a \in Flags, NEW v \in {0, 1}
  PROVE  Defaulted(c, a, v) \in Struct /\ Magic(Defaulted(c, a, v))
BY DEF Defaulted, Struct, Magic, Addr, Byte, Flags, SO, CT, HV, SD

LEMMA SetDefaultStruct ==
  ASSUME NEW c \in Struct, Magic(c)
  PROVE  SetDefault(c) \in Struct /\ Magic(SetDefault(c))
<1> DEFINE c1 == Defaulted(c, SO, 1)
           c2 == Defaulted(c1, CT, 0)
           c3 == Defaulted(c2, HV, 0)
<1>1. c1 \in Struct /\ Magic(c1)
  BY DefaultedStruct DEF Flags
<1>2. c2 \in Struct /\ Magic(c2)
  BY <1>1, DefaultedStruct DEF Flags
<1>3. c3 \in Struct /\ Magic(c3)
  BY <1>2, DefaultedStruct DEF Flags
<1>4. Defaulted(c3, SD, 0) \in Struct /\ Magic(Defaulted(c3, SD, 0))
  BY <1>3, DefaultedStruct DEF Flags
<1> QED BY <1>4 DEF SetDefault

\* What config_init() makes of EEPROM and file.
LEMMA WithFileStruct ==
  ASSUME eeprom \in Struct, IsFile(file)
  PROVE  WithFile \in Struct /\ Magic(WithFile)
<1>1. Stored \in Struct /\ Magic(Stored)
  BY InvalidStruct DEF Stored
<1>2. CASE HasFile(SdLogInit)
  BY <1>1, <1>2, FromFileStruct, MergedStruct DEF WithFile
<1>3. CASE ~HasFile(SdLogInit)
  BY <1>1, <1>3 DEF WithFile
<1> QED BY <1>2, <1>3

LEMMA SequencesOfWrites == EepromWrites \in Seq(Writes) /\ FileWrites \in Seq(Writes)
BY DEF EepromWrites, FileWrites, Writes, Addr
-----------------------------------------------------------------------------
(* Types *)

\* A list of writes starts with one and goes on with writes.
LEMMA HeadAndTail ==
  ASSUME NEW t \in Seq(Writes), t # <<>>
  PROVE  Head(t) \in Writes /\ Tail(t) \in Seq(Writes)
OBVIOUS

LEMMA TypesInit == Init => TypeOK
<1> SUFFICES ASSUME Init PROVE TypeOK
  OBVIOUS
<1>1. IsFile(file)
  BY DEF Init, IsFile, Nothing
<1>2. config \in Struct /\ eeprom \in Struct
  BY InvalidStruct DEF Init, Struct, Byte
<1>3. edits \in 0 .. MaxEdits /\ cuts \in 0 .. MaxCuts /\ todo \in Seq(Writes)
  BY BoundsAssumption DEF Init
<1>4. saved = Nothing /\ ids = {} /\ on \in BOOLEAN /\ exists \in BOOLEAN
      /\ card \in Slot /\ savedTo \in Slot
  BY DEF Init, Slot
<1>5. origin = "edited" /\ saving \in BOOLEAN
  BY DEF Init
<1> QED BY <1>1, <1>2, <1>3, <1>4, <1>5 DEF TypeOK, Struct, Writes, Slot

\* config_init() reads, merges and lists what it has to write.
LEMMA ConfigInitTypes == TypeOK /\ ConfigInit => TypeOK'
<1> SUFFICES ASSUME TypeOK, ConfigInit PROVE TypeOK'
  OBVIOUS
<1>1. config' \in Struct
  BY WithFileStruct, SetDefaultStruct DEF ConfigInit, TypeOK, Struct
<1>2. todo' \in Seq(Writes)
  <2>1. <<>> \in Seq(Writes)
    OBVIOUS
  <2> QED BY <2>1, SequencesOfWrites DEF ConfigInit
<1>3. UNCHANGED <<eeprom, exists, file, saved, ids, savedTo, edits, cuts>> /\ card' \in Slot
  BY DEF ConfigInit, historyVars, SdLogInit, Slot
<1>4. on' \in BOOLEAN /\ saving' \in BOOLEAN /\ origin' \in {"edited", "eeprom", "file"}
  BY DEF ConfigInit
<1> QED BY <1>1, <1>2, <1>3, <1>4 DEF TypeOK, Struct, Writes, Slot

\* One write to the EEPROM or to the file.
LEMMA WriteTypes == TypeOK /\ Write => TypeOK'
<1> SUFFICES ASSUME TypeOK, Write PROVE TypeOK'
  OBVIOUS
<1>1. Head(todo) \in Writes /\ todo' \in Seq(Writes)
  BY HeadAndTail DEF Write, TypeOK, Writes
<1>2. Head(todo)[2] \in Addr
  BY <1>1 DEF Writes
<1>3. eeprom' \in Struct /\ IsFile(file') /\ exists' \in BOOLEAN
  <2>0. config \in Struct /\ eeprom \in Struct /\ IsFile(file) /\ exists \in BOOLEAN
    BY DEF TypeOK, Struct
  <2>1. CASE WriteByte(Head(todo)[2])
    BY <1>2, <2>0, <2>1 DEF WriteByte, Struct
  <2>2. CASE Remove
    <3>1. IsFile(Nothing)
      BY DEF IsFile, Nothing
    <3> QED BY <2>0, <2>2, <3>1 DEF Remove, FileStep
  <2>3. CASE Create
    BY <2>0, <2>3 DEF Create, FileStep
  <2>4. CASE Close
    <3>1. IsFile(ToFile(config))
      BY <2>0, ToFileIsFile
    <3> QED BY <2>0, <2>4, <3>1 DEF Close, FileStep
  <2> QED BY <2>1, <2>2, <2>3, <2>4 DEF Write
<1>4. saving' \in BOOLEAN
  BY DEF Write, TypeOK
<1>5. saved' # Nothing => saved' \in Struct
  BY DEF Write, TypeOK, Struct
<1>6. UNCHANGED <<on, config, card, origin, ids, savedTo, edits, cuts>>
  BY DEF Write
<1> QED BY <1>1, <1>3, <1>4, <1>5, <1>6 DEF TypeOK, Struct, Writes

\* Power goes.
LEMMA PowerCutTypes == TypeOK /\ PowerCut => TypeOK'
<1> SUFFICES ASSUME TypeOK, PowerCut PROVE TypeOK'
  OBVIOUS
<1>1. cuts' \in 0 .. MaxCuts
  BY BoundsAssumption DEF PowerCut, TypeOK
<1>2. config' \in Struct /\ todo' \in Seq(Writes)
  BY InvalidStruct DEF PowerCut
<1>3. UNCHANGED <<eeprom, exists, file, saved, ids, savedTo, edits>> /\ card' \in Slot
  BY DEF PowerCut, historyVars, Slot
<1>4. on' \in BOOLEAN /\ saving' \in BOOLEAN /\ origin' \in {"edited", "eeprom", "file"}
  BY DEF PowerCut
<1> QED BY <1>1, <1>2, <1>3, <1>4 DEF TypeOK, Struct, Writes, Slot

\* What every command and every hand on the card have in common.
LEMMA EditTypes ==
  ASSUME TypeOK, Edit
  PROVE  edits' \in 0 .. MaxEdits /\ cuts' \in 0 .. MaxCuts /\ on' \in BOOLEAN
         /\ origin' \in {"edited", "eeprom", "file"}
BY BoundsAssumption DEF TypeOK, Edit

LEMMA InMemoryTypes ==
  ASSUME TypeOK, NEW c \in Struct, InMemory(c)
  PROVE  TypeOK'
<1>1. Edit
  BY DEF InMemory, Command
<1> QED BY <1>1, EditTypes DEF InMemory, media, historyVars, TypeOK, Struct

\* The commands that change memory alone.
LEMMA MemoryCommandTypes ==
  ASSUME TypeOK, SetId \/ SetFlag \/ CopyEeprom \/ CopyFile
  PROVE  TypeOK'
<1>0. config \in Struct /\ eeprom \in Struct /\ IsFile(file)
  BY DEF TypeOK, Struct
<1>1. CASE SetId
  <2>1. PICK i \in Ids : InMemory([config EXCEPT ![2] = i[1], ![3] = i[2]])
    BY <1>1 DEF SetId
  <2>2. i[1] \in Byte /\ i[2] \in Byte
    BY IdsAssumption
  <2>3. [config EXCEPT ![2] = i[1], ![3] = i[2]] \in Struct
    BY <1>0, <2>2 DEF Struct
  <2> QED BY <2>1, <2>3, InMemoryTypes
<1>2. CASE SetFlag
  <2>1. PICK a \in Flags, v \in {0, 1} : InMemory([config EXCEPT ![a] = v])
    BY <1>2 DEF SetFlag
  <2>2. v \in Byte
    BY DEF Byte
  <2>3. [config EXCEPT ![a] = v] \in Struct
    BY <1>0, <2>2 DEF Struct
  <2> QED BY <2>1, <2>3, InMemoryTypes
<1>3. CASE CopyEeprom
  BY <1>0, <1>3, InMemoryTypes DEF CopyEeprom
<1>4. CASE CopyFile
  <2>1. (IF HasFile(card) THEN FromFile(file) ELSE Invalid) \in Struct
    BY <1>0, FromFileStruct, InvalidStruct
  <2> QED BY <1>4, <2>1, InMemoryTypes DEF CopyFile
<1> QED BY <1>1, <1>2, <1>3, <1>4

\* The commands that start writes.
LEMMA SaveTypes ==
  ASSUME TypeOK, Save \/ SaveEeprom \/ SaveFile
  PROVE  TypeOK'
<1>0. config \in Struct /\ eeprom \in Struct /\ IsFile(file)
  BY DEF TypeOK, Struct
<1>1. Edit /\ UNCHANGED <<config, media>> /\ saved' = Nothing
  BY DEF Save, SaveEeprom, SaveFile, SavePart, Command
<1>2. todo' \in Seq(Writes)
  <2>1. SaveWrites \in Seq(Writes)
    BY SequencesOfWrites DEF SaveWrites
  <2> QED BY <2>1, SequencesOfWrites DEF Save, SaveEeprom, SaveFile, SavePart
<1>3. saving' \in BOOLEAN /\ savedTo' \in Slot
  BY DEF Save, SaveEeprom, SaveFile, SavePart, TypeOK, Slot
<1>4. ids' \subseteq Byte \X Byte
  <2>1. \A c \in Struct : Id(c) \in Byte \X Byte
    BY DEF Struct, Id, Addr
  <2>2. FromFile(file) \in Struct
    BY <1>0, FromFileStruct
  <2>3. Id(config) \in Byte \X Byte /\ Id(eeprom) \in Byte \X Byte /\ Id(FromFile(file)) \in Byte \X Byte
    BY <1>0, <2>1, <2>2
  <2> QED BY <2>3 DEF Save, SaveEeprom, SaveFile, SavePart
<1> QED BY <1>1, <1>2, <1>3, <1>4, EditTypes DEF media, TypeOK, Struct, Writes, Slot

\* What the user does to the card.
LEMMA CardTypes ==
  ASSUME TypeOK, UserEditsFile \/ UserRemovesFile \/ CardOut \/ CardIn
  PROVE  TypeOK'
<1>1. Edit /\ UNCHANGED <<config, eeprom, todo, saving, savedTo>>
  BY DEF UserEditsFile, UserRemovesFile, UserOnFile, CardOut, CardIn
<1>2. IsFile(file') /\ exists' \in BOOLEAN /\ card' \in Slot
  <2>1. IsFile(Nothing)
    BY DEF IsFile, Nothing
  <2> QED BY <2>1, HostFilesAssumption
          DEF UserEditsFile, UserRemovesFile, UserOnFile, CardOut, CardIn, TypeOK, Slot
<1>3. ids' = {} /\ (saved' = Nothing \/ saved' = saved)
  BY DEF UserEditsFile, UserRemovesFile, UserOnFile, CardOut, CardIn
<1> QED BY <1>1, <1>2, <1>3, EditTypes DEF TypeOK, Slot

LEMMA TypesKept == TypeOK /\ [Next]_vars => TypeOK'
<1> SUFFICES ASSUME TypeOK, [Next]_vars PROVE TypeOK'
  OBVIOUS
<1>1. CASE Setup \/ WakeUp
  BY <1>1, ConfigInitTypes DEF Setup, WakeUp
<1>2. CASE UNCHANGED vars
  BY <1>2 DEF vars, media, historyVars, TypeOK
<1> QED BY <1>1, <1>2, WriteTypes, PowerCutTypes, MemoryCommandTypes, SaveTypes, CardTypes DEF Next

\* The configuration, its copies and the writes under way keep their types.
THEOREM TypeCorrect == Spec => []TypeOK
BY TypesInit, TypesKept, PTL DEF Spec

-----------------------------------------------------------------------------
(* The magic *)

\* The bytes of the magic come first: they are the next writes, or there.
MagicDue ==
  \/ Len(todo) >= 2 /\ todo[1] = <<"eeprom", 0>> /\ todo[2] = <<"eeprom", 1>>
  \/ Len(todo) >= 1 /\ todo[1] = <<"eeprom", 1>> /\ eeprom[0] = 239

\* Memory always has the magic, and the EEPROM of a running device has it unless
\* config_init() is still writing it.
MagicInv ==
  /\ TypeOK
  /\ Magic(config)
  /\ on => Magic(eeprom) \/ MagicDue

\* Only one write changes the EEPROM, and it copies a byte of memory.
LEMMA EepromStep ==
  ASSUME MagicInv, [Next]_vars, Magic(eeprom)
  PROVE  Magic(eeprom')
<1>1. CASE \E a \in Addr : WriteByte(a)
  <2>1. PICK a \in Addr : eeprom' = [eeprom EXCEPT ![a] = config[a]]
    BY <1>1 DEF WriteByte
  <2>2. eeprom \in [Addr -> Byte] /\ Magic(config)
    BY DEF MagicInv, TypeOK
  <2> QED BY <2>1, <2>2 DEF Magic, Addr
<1>2. CASE eeprom' = eeprom
  BY <1>2
<1>3. Write => (\E a \in Addr : WriteByte(a)) \/ eeprom' = eeprom
  <2> SUFFICES ASSUME Write PROVE (\E a \in Addr : WriteByte(a)) \/ eeprom' = eeprom
    OBVIOUS
  <2>1. Head(todo) \in Writes
    BY HeadAndTail DEF Write, MagicInv, TypeOK, Writes
  <2>2. Head(todo)[2] \in Addr
    BY <2>1 DEF Writes
  <2>3. WriteByte(Head(todo)[2]) \/ eeprom' = eeprom
    BY DEF Write, Remove, Create, Close, FileStep
  <2> QED BY <2>2, <2>3
<1>4. ~Write => eeprom' = eeprom
  BY DEF Next, vars, media, Setup, WakeUp, ConfigInit, PowerCut, InMemory, SetId, SetFlag, CopyEeprom,
         CopyFile, Save, SavePart, SaveEeprom, SaveFile, UserEditsFile, UserRemovesFile, UserOnFile, CardOut, CardIn
<1> QED BY <1>1, <1>2, <1>3, <1>4

\* The writes of an EEPROM without magic go on with its magic.
LEMMA DueStep ==
  ASSUME MagicInv, Write, ~Magic(eeprom), on
  PROVE  Magic(eeprom') \/ MagicDue'
<1>1. todo \in Seq(Writes) /\ eeprom \in [Addr -> Byte] /\ Magic(config) /\ todo' = Tail(todo)
  BY DEF MagicInv, TypeOK, Writes, Write
<1>2. MagicDue
  BY DEF MagicInv
<1>3. CASE Len(todo) >= 2 /\ todo[1] = <<"eeprom", 0>> /\ todo[2] = <<"eeprom", 1>>
  <2>1. Head(todo) = <<"eeprom", 0>>
    BY <1>1, <1>3
  <2>2. eeprom' = [eeprom EXCEPT ![0] = config[0]]
    BY <2>1 DEF Write, WriteByte
  <2>3. eeprom'[0] = 239
    BY <1>1, <2>2 DEF Magic, Addr
  <2>4. Len(todo') >= 1 /\ todo'[1] = <<"eeprom", 1>>
    BY <1>1, <1>3
  <2> QED BY <2>3, <2>4 DEF MagicDue
<1>4. CASE Len(todo) >= 1 /\ todo[1] = <<"eeprom", 1>> /\ eeprom[0] = 239
  <2>1. Head(todo) = <<"eeprom", 1>>
    BY <1>1, <1>4
  <2>2. eeprom' = [eeprom EXCEPT ![1] = config[1]]
    BY <2>1 DEF Write, WriteByte
  <2> QED BY <1>1, <1>4, <2>2 DEF Magic, Addr
<1> QED BY <1>2, <1>3, <1>4 DEF MagicDue

LEMMA FirstTwo ==
  ASSUME NEW s \in Seq(Writes), NEW t \in Seq(Writes), Len(s) >= 2
  PROVE  Len(s \o t) >= 2 /\ (s \o t)[1] = s[1] /\ (s \o t)[2] = s[2]
OBVIOUS

LEMMA MagicInit == Init => MagicInv
BY TypesInit, InvalidStruct DEF Init, MagicInv

LEMMA MagicKept == MagicInv /\ [Next]_vars => MagicInv'
<1> SUFFICES ASSUME MagicInv, [Next]_vars PROVE MagicInv'
  OBVIOUS
<1>1. TypeOK /\ TypeOK'
  BY TypesKept DEF MagicInv
<1>2. Magic(eeprom) => Magic(eeprom)'
  BY EepromStep DEF Magic
<1>3. CASE ConfigInit
  <2>1. Magic(config')
    BY <1>1, <1>3, WithFileStruct, SetDefaultStruct DEF ConfigInit, TypeOK, Struct
  <2>2. ~Magic(eeprom) => MagicDue'
    <3> SUFFICES ASSUME ~Magic(eeprom) PROVE MagicDue'
      OBVIOUS
    <3>1. PICK more \in {<<>>, FileWrites} : todo' = EepromWrites \o more
      BY <1>3 DEF ConfigInit, RewriteEeprom
    <3>2. EepromWrites \in Seq(Writes) /\ more \in Seq(Writes)
      <4>1. <<>> \in Seq(Writes)
        OBVIOUS
      <4> QED BY <3>1, <4>1, SequencesOfWrites
    <3>3. Len(EepromWrites) = 8 /\ EepromWrites[1] = <<"eeprom", 0>> /\ EepromWrites[2] = <<"eeprom", 1>>
      BY DEF EepromWrites
    <3>4. Len(todo') >= 2 /\ todo'[1] = <<"eeprom", 0>> /\ todo'[2] = <<"eeprom", 1>>
      <4>1. Len(EepromWrites) >= 2
        BY <3>3
      <4>2. /\ Len(EepromWrites \o more) >= 2
            /\ (EepromWrites \o more)[1] = EepromWrites[1]
            /\ (EepromWrites \o more)[2] = EepromWrites[2]
        BY <3>2, <4>1, FirstTwo
      <4> QED BY <3>1, <3>3, <4>2, Zenon
    <3> QED BY <3>4 DEF MagicDue
  <2>3. Magic(eeprom)' \/ MagicDue'
    BY <1>2, <2>2
  <2>4. Magic(config)'
    BY <2>1 DEF Magic
  <2> QED BY <1>1, <2>3, <2>4 DEF MagicInv
<1>4. CASE Write
  <2>1. UNCHANGED <<config, on>>
    BY <1>4 DEF Write
  <2>2. ASSUME on PROVE Magic(eeprom)' \/ MagicDue'
    <3>1. CASE Magic(eeprom)
      BY <1>2, <3>1
    <3>2. CASE ~Magic(eeprom)
      <4>1. Magic(eeprom') \/ MagicDue'
        BY <1>4, <2>2, <3>2, DueStep
      <4>2. Magic(eeprom') <=> Magic(eeprom)'
        BY DEF Magic
      <4> QED BY <4>1, <4>2
    <3> QED BY <3>1, <3>2
  <2>3. Magic(config)'
    BY <2>1 DEF MagicInv, Magic
  <2> QED BY <1>1, <2>1, <2>2, <2>3 DEF MagicInv
<1>5. CASE PowerCut
  BY <1>1, <1>5, InvalidStruct DEF PowerCut, MagicInv, Magic
<1>6. ASSUME todo = <<>>, on PROVE Magic(eeprom)
  BY <1>6 DEF MagicInv, MagicDue
<1>7. CASE Edit
  <2>1. todo = <<>> /\ on' = on
    BY <1>7 DEF Edit
  <2>2. on' => Magic(eeprom)'
    BY <1>2, <1>6, <2>1
  <2>3. Magic(config')
    <3>1. CASE SetId
      BY <1>1, <3>1 DEF SetId, InMemory, Magic, MagicInv, TypeOK, Addr
    <3>2. CASE SetFlag
      BY <1>1, <3>2 DEF SetFlag, InMemory, Magic, MagicInv, TypeOK, Addr, Flags, SO, CT, HV, SD
    <3>3. CASE CopyEeprom
      BY <1>6, <2>1, <3>3 DEF CopyEeprom, InMemory, Command
    <3>4. CASE CopyFile
      <4>1. IsFile(file)
        BY <1>1 DEF TypeOK
      <4>2. Magic(FromFile(file)) /\ Magic(Invalid)
        BY <4>1, FromFileStruct, InvalidStruct
      <4> QED BY <3>4, <4>2 DEF CopyFile, InMemory
    <3>5. CASE config' = config
      BY <3>5 DEF MagicInv, Magic
    <3>6. edits' # edits
      BY <1>1, <1>7 DEF Edit, TypeOK
    <3>7. ~Setup /\ ~WakeUp /\ ~Write /\ ~PowerCut
      BY <3>6 DEF Setup, WakeUp, ConfigInit, Write, PowerCut
    <3>8. SetId \/ SetFlag \/ CopyEeprom \/ CopyFile \/ config' = config
      BY <3>7 DEF Next, vars, Save, SavePart, SaveEeprom, SaveFile, UserEditsFile, UserRemovesFile,
        UserOnFile, CardOut, CardIn
    <3> QED BY <3>1, <3>2, <3>3, <3>4, <3>5, <3>8
  <2> QED BY <1>1, <2>2, <2>3 DEF MagicInv, Magic
<1>8. CASE UNCHANGED vars
  BY <1>1, <1>8 DEF vars, media, MagicInv, Magic, MagicDue
<1>9. ConfigInit \/ Write \/ PowerCut \/ Edit \/ UNCHANGED vars
  BY DEF Next, Setup, WakeUp, SetId, SetFlag, CopyEeprom, CopyFile, InMemory, Command, Save, SavePart,
    SaveEeprom, SaveFile, UserEditsFile, UserRemovesFile, UserOnFile, CardOut, CardIn
<1> QED BY <1>3, <1>4, <1>5, <1>7, <1>8, <1>9

\* However writes are cut short, an EEPROM keeps its magic.
THEOREM MagicStaysAlways == Spec => MagicStays
<1>1. MagicInv /\ [Next]_vars => [Magic(eeprom) => Magic(eeprom')]_vars
  BY EepromStep
<1> QED BY <1>1, MagicInit, MagicKept, PTL DEF Spec, MagicStays

-----------------------------------------------------------------------------
(* What a restart finds *)

\* The writes under way are the last ones of a list.
Left(s) ==
  /\ Len(todo) <= Len(s)
  /\ \A i \in 1 .. Len(todo) : todo[i] = s[Len(s) - Len(todo) + i]

\* The bytes of the EEPROM that are not among the last n writes.
Copied(n) == 0 .. 7 - n

\* What the file says validly, as FileWins has it.
Valid(f) == {a \in Flags : IsBoolean(f[a])} \cup (IF Id(f) # IdInvalid THEN {2, 3} ELSE {})

\* config_init() with a file leaves only bytes of the EEPROM to write, and what the
\* file says is in memory and in every byte that has been written.
FileInv ==
  origin = "file" =>
    /\ Left(EepromWrites)
    /\ \A a \in Valid(FromFile(file)) :
         config[a] = FromFile(file)[a] /\ (a \in Copied(Len(todo)) => eeprom[a] = FromFile(file)[a])

\* "config save" is under way: the file first, then the EEPROM byte by byte.
SavingInv ==
  saving =>
    /\ todo # <<>> /\ on /\ saved = Nothing
    /\ Left(SaveWrites)
    /\ \A a \in Copied(Len(todo)) : eeprom[a] = config[a]
    /\ card = savedTo
    /\ card = "begun" /\ Len(todo) <= 9 => exists
    /\ card = "begun" /\ Len(todo) <= 8 => file = ToFile(config)

\* What is saved is in the EEPROM and in the file of the card that is in the slot;
\* without a card the steps that make a file fail.  A save to a card that was not
\* begun is not meant.
SavedInv ==
  saved # Nothing /\ savedTo # "in" =>
    /\ Sound(saved) /\ Magic(saved) /\ eeprom = saved
    /\ card # "out" => exists /\ file = ToFile(saved)
    /\ todo # <<>> => card = "out" /\ Left(FileWrites)
    /\ Fresh => config = saved

\* The id that a restart would find.
RestartId ==
  IF exists /\ Id(FromFile(file)) # IdInvalid THEN Id(FromFile(file)) ELSE Id(eeprom)

\* After "config save" to a card that was begun a restart finds one of the ids, and
\* each list of writes goes through states of which this is true.
IdInv ==
  ids # {} /\ savedTo = "begun" =>
    /\ card # "out" /\ Magic(eeprom) /\ RestartId \in ids
    /\ todo # <<>> => card = "begun"
    /\ Fresh \/ todo # <<>> => Id(config) \in ids
    /\ \/ todo = <<>>
       \/ /\ Left(SaveWrites) /\ Len(todo) >= 9
          /\ Id(config) # IdInvalid /\ Id(eeprom) \in ids
          /\ Len(todo) < 11 => file = Nothing
          /\ Len(todo) < 10 => exists
       \/ /\ Left(SaveWrites) /\ Len(todo) <= 8
          /\ exists /\ Id(FromFile(file)) # IdInvalid
       \/ /\ Left(EepromWrites)
          /\ exists /\ (Id(FromFile(file)) # IdInvalid \/ Id(config) = Id(eeprom))
       \/ /\ Left(FileWrites)
          /\ Id(config) = Id(eeprom)
          /\ Len(todo) < 3 => file = Nothing
-----------------------------------------------------------------------------
(* The lists of writes *)

\* The lists as sequences.
LEMMA Lists ==
  /\ EepromWrites \in Seq(Writes) /\ FileWrites \in Seq(Writes) /\ SaveWrites \in Seq(Writes)
  /\ Len(EepromWrites) = 8 /\ Len(FileWrites) = 3 /\ Len(SaveWrites) = 11
  /\ \A k \in 1 .. 8 : EepromWrites[k] = <<"eeprom", k - 1>> /\ SaveWrites[k + 3] = <<"eeprom", k - 1>>
  /\ FileWrites[1] = <<"remove", 0>> /\ FileWrites[2] = <<"create", 0>> /\ FileWrites[3] = <<"close", 0>>
  /\ SaveWrites[1] = <<"remove", 0>> /\ SaveWrites[2] = <<"create", 0>> /\ SaveWrites[3] = <<"close", 0>>
<1>1. EepromWrites \in Seq(Writes) /\ FileWrites \in Seq(Writes)
  BY SequencesOfWrites
<1>2. Len(EepromWrites) = 8 /\ \A k \in 1 .. 8 : EepromWrites[k] = <<"eeprom", k - 1>>
  BY DEF EepromWrites
<1>3. /\ Len(FileWrites) = 3 /\ FileWrites[1] = <<"remove", 0>>
      /\ FileWrites[2] = <<"create", 0>> /\ FileWrites[3] = <<"close", 0>>
  BY DEF FileWrites
<1>4. /\ SaveWrites \in Seq(Writes) /\ Len(SaveWrites) = 11
      /\ \A k \in 1 .. 3 : SaveWrites[k] = FileWrites[k]
      /\ \A k \in 1 .. 8 : SaveWrites[k + 3] = EepromWrites[k]
  <2>1. \A s, t \in Seq(Writes) :
          /\ s \o t \in Seq(Writes) /\ Len(s \o t) = Len(s) + Len(t)
          /\ \A k \in 1 .. Len(s) : (s \o t)[k] = s[k]
          /\ \A k \in 1 .. Len(t) : (s \o t)[k + Len(s)] = t[k]
    OBVIOUS
  <2>2. /\ FileWrites \o EepromWrites \in Seq(Writes)
        /\ Len(FileWrites \o EepromWrites) = Len(FileWrites) + Len(EepromWrites)
        /\ \A k \in 1 .. Len(FileWrites) : (FileWrites \o EepromWrites)[k] = FileWrites[k]
        /\ \A k \in 1 .. Len(EepromWrites) :
             (FileWrites \o EepromWrites)[k + Len(FileWrites)] = EepromWrites[k]
    BY <1>1, <2>1
  <2> HIDE <2>1
  <2>3. Len(FileWrites) + Len(EepromWrites) = 11
    BY <1>2, <1>3
  <2> QED BY <1>2, <1>3, <2>2, <2>3, Zenon DEF SaveWrites
<1> QED BY <1>1, <1>2, <1>3, <1>4

\* A list that has just been begun is all left.
LEMMA LeftAll ==
  ASSUME NEW s \in Seq(Writes), todo' = s
  PROVE  Left(s)'
BY DEF Left

\* A list that is done.
LEMMA LeftNone ==
  ASSUME NEW s \in Seq(Writes), todo' = <<>>
  PROVE  Left(s)'
BY DEF Left

\* A sequence without an element is empty.
LEMMA Empties == ASSUME NEW s \in Seq(Writes) PROVE s = <<>> <=> Len(s) = 0
OBVIOUS

\* A write takes the first of those that are left.
LEMMA LeftStep ==
  ASSUME NEW s \in Seq(Writes), todo \in Seq(Writes), todo # <<>>, todo' = Tail(todo), Left(s)
  PROVE  /\ Left(s)'
         /\ Len(todo) \in 1 .. Len(s) /\ Len(todo') = Len(todo) - 1
         /\ Head(todo) = s[Len(s) - Len(todo) + 1]
         /\ todo' = <<>> <=> Len(todo) = 1
<1>1. Len(todo) \in 1 .. Len(s) /\ Len(todo') = Len(todo) - 1
  BY DEF Left
<1>2. Head(todo) = todo[1] /\ \A i \in 1 .. Len(todo') : todo'[i] = todo[i + 1]
  OBVIOUS
<1>3. Head(todo) = s[Len(s) - Len(todo) + 1]
  BY <1>1, <1>2 DEF Left
<1>4. Left(s)'
  <2> SUFFICES ASSUME NEW i \in 1 .. Len(todo') PROVE todo'[i] = s[Len(s) - Len(todo') + i]
    BY <1>1 DEF Left
  <2>1. i + 1 \in 1 .. Len(todo) /\ Len(s) - Len(todo) + (i + 1) = Len(s) - Len(todo') + i
    BY <1>1
  <2> QED BY <1>2, <2>1 DEF Left
<1>5. todo' \in Seq(Writes)
  OBVIOUS
<1>6. todo' = <<>> <=> Len(todo') = 0
  BY <1>5, Empties
<1> QED BY <1>1, <1>3, <1>4, <1>6

\* Places in the list of the EEPROM and in that of "config save".
LEMMA Places ==
  \A n \in 1 .. 8 :
    /\ 9 - n \in 1 .. 8 /\ 8 - n + 1 = 9 - n /\ (9 - n) - 1 = 8 - n /\ 11 - n + 1 = (9 - n) + 3
    /\ n # 9 /\ n # 10 /\ n # 11 /\ 8 - n \in 0 .. 7
OBVIOUS

\* The first three places of that list are those of the file.
LEMMA SavePlaces ==
  \A n \in 1 .. 11 :
    /\ n = 11 \/ n = 10 \/ n = 9 \/ n <= 8
    /\ n - 1 <= 9 => n # 11
    /\ n - 1 <= 9 /\ n # 10 => n <= 9
    /\ n - 1 <= 8 => n # 11 /\ n # 10
    /\ n - 1 <= 8 /\ n # 9 => n <= 8
    /\ n = 1 => ~(n > 1)
OBVIOUS

\* What the next write of each list does.
LEMMA NextOfEeprom ==
  ASSUME TypeOK, Write, Left(EepromWrites)
  PROVE  /\ Left(EepromWrites)' /\ Len(todo) \in 1 .. 8 /\ Len(todo') = Len(todo) - 1
         /\ WriteByte(8 - Len(todo))
         /\ todo' = <<>> <=> Len(todo) = 1
<1>1. todo \in Seq(Writes) /\ todo # <<>> /\ todo' = Tail(todo)
  BY DEF TypeOK, Write, Writes
<1>2. /\ Left(EepromWrites)' /\ Len(todo) \in 1 .. 8 /\ Len(todo') = Len(todo) - 1
      /\ Head(todo) = EepromWrites[8 - Len(todo) + 1]
      /\ todo' = <<>> <=> Len(todo) = 1
  BY <1>1, LeftStep, Lists
<1>3. Head(todo) = <<"eeprom", 8 - Len(todo)>>
  <2>1. 9 - Len(todo) \in 1 .. 8 /\ 8 - Len(todo) + 1 = 9 - Len(todo) /\ (9 - Len(todo)) - 1 = 8 - Len(todo)
    BY <1>2, Places, Zenon
  <2>2. EepromWrites[9 - Len(todo)] = <<"eeprom", (9 - Len(todo)) - 1>>
    BY <2>1, Lists
  <2> QED BY <1>2, <2>1, <2>2
<1>4. WriteByte(8 - Len(todo))
  BY <1>3 DEF Write
<1> QED BY <1>2, <1>4

\* The same for a file alone.
LEMMA NextOfFile ==
  ASSUME TypeOK, Write, Left(FileWrites)
  PROVE  /\ Left(FileWrites)' /\ Len(todo) \in 1 .. 3 /\ Len(todo') = Len(todo) - 1
         /\ Len(todo) = 3 => Remove
         /\ Len(todo) = 2 => Create
         /\ Len(todo) = 1 => Close
         /\ todo' = <<>> <=> Len(todo) = 1
<1>1. todo \in Seq(Writes) /\ todo # <<>> /\ todo' = Tail(todo)
  BY DEF TypeOK, Write, Writes
<1>2. /\ Left(FileWrites)' /\ Len(todo) \in 1 .. 3 /\ Len(todo') = Len(todo) - 1
      /\ Head(todo) = FileWrites[3 - Len(todo) + 1]
      /\ todo' = <<>> <=> Len(todo) = 1
  BY <1>1, LeftStep, Lists
<1>3. CASE Len(todo) = 3
  <2>1. Head(todo) = <<"remove", 0>>
    BY <1>2, <1>3, Lists
  <2> QED BY <1>2, <1>3, <2>1 DEF Write
<1>4. CASE Len(todo) = 2
  <2>1. Head(todo) = <<"create", 0>>
    BY <1>2, <1>4, Lists
  <2> QED BY <1>2, <1>4, <2>1 DEF Write
<1>5. CASE Len(todo) = 1
  <2>1. Head(todo) = <<"close", 0>>
    BY <1>2, <1>5, Lists
  <2> QED BY <1>2, <1>5, <2>1 DEF Write
<1> QED BY <1>2, <1>3, <1>4, <1>5

\* The same for "config save".
LEMMA NextOfSave ==
  ASSUME TypeOK, Write, Left(SaveWrites)
  PROVE  /\ Left(SaveWrites)' /\ Len(todo) \in 1 .. 11 /\ Len(todo') = Len(todo) - 1
         /\ Len(todo) = 11 => Remove
         /\ Len(todo) = 10 => Create
         /\ Len(todo) = 9 => Close
         /\ Len(todo) <= 8 => WriteByte(8 - Len(todo))
         /\ todo' = <<>> <=> Len(todo) = 1
<1>1. todo \in Seq(Writes) /\ todo # <<>> /\ todo' = Tail(todo)
  BY DEF TypeOK, Write, Writes
<1>2. /\ Left(SaveWrites)' /\ Len(todo) \in 1 .. 11 /\ Len(todo') = Len(todo) - 1
      /\ Head(todo) = SaveWrites[11 - Len(todo) + 1]
      /\ todo' = <<>> <=> Len(todo) = 1
  BY <1>1, LeftStep, Lists
<1>3. CASE Len(todo) = 11
  <2>1. Head(todo) = <<"remove", 0>>
    BY <1>2, <1>3, Lists
  <2> QED BY <1>2, <1>3, <2>1 DEF Write
<1>4. CASE Len(todo) = 10
  <2>1. Head(todo) = <<"create", 0>>
    BY <1>2, <1>4, Lists
  <2> QED BY <1>2, <1>4, <2>1 DEF Write
<1>5. CASE Len(todo) = 9
  <2>1. Head(todo) = <<"close", 0>>
    BY <1>2, <1>5, Lists
  <2> QED BY <1>2, <1>5, <2>1 DEF Write
<1>6. CASE Len(todo) <= 8
  <2>0. Len(todo) \in 1 .. 8
    <3>1. \A n \in 1 .. 11 : n <= 8 => n \in 1 .. 8
      OBVIOUS
    <3> QED BY <1>2, <1>6, <3>1, Zenon
  <2>1. /\ 9 - Len(todo) \in 1 .. 8 /\ 11 - Len(todo) + 1 = (9 - Len(todo)) + 3
        /\ (9 - Len(todo)) - 1 = 8 - Len(todo)
        /\ Len(todo) # 9 /\ Len(todo) # 10 /\ Len(todo) # 11
    BY <2>0, Places, Zenon
  <2>2. SaveWrites[(9 - Len(todo)) + 3] = <<"eeprom", (9 - Len(todo)) - 1>>
    BY <2>1, Lists
  <2>3. Head(todo) = <<"eeprom", 8 - Len(todo)>>
    BY <1>2, <2>1, <2>2
  <2>4. WriteByte(8 - Len(todo))
    BY <2>3 DEF Write
  <2> QED BY <1>2, <2>1, <2>4, Zenon
<1> QED BY <1>2, <1>3, <1>4, <1>5, <1>6

\* A byte of memory goes to the EEPROM: one byte more is copied.
LEMMA CopyByte ==
  ASSUME TypeOK, NEW n \in 1 .. 8, WriteByte(8 - n), UNCHANGED config,
         \A a \in Copied(n) : eeprom[a] = config[a]
  PROVE  \A a \in Copied(n - 1) : eeprom'[a] = config'[a]
BY DEF WriteByte, Copied, TypeOK, Addr

\* What ConfigInit, writes, power cuts and the user do, in short.
LEMMA Kinds ==
  ASSUME [Next]_vars
  PROVE  ConfigInit \/ Write \/ PowerCut \/ Edit \/ UNCHANGED vars
BY DEF Next, Setup, WakeUp, SetId, SetFlag, CopyEeprom, CopyFile, InMemory, Command, Save, SavePart,
    SaveEeprom, SaveFile, UserEditsFile, UserRemovesFile, UserOnFile, CardOut, CardIn

\* No step is of two kinds.
LEMMA EditIs ==
  ASSUME TypeOK, [Next]_vars, Edit
  PROVE  /\ todo = <<>> /\ origin' = "edited" /\ on' = on
         /\ \/ /\ on /\ UNCHANGED <<media, todo, saving, historyVars>>
            \/ Save \/ SaveEeprom \/ SaveFile
            \/ UserEditsFile \/ UserRemovesFile \/ CardOut \/ CardIn
<1>1. edits' # edits
  BY DEF Edit, TypeOK
<1>2. ~Setup /\ ~WakeUp /\ ~Write /\ ~PowerCut
  BY <1>1 DEF Setup, WakeUp, ConfigInit, Write, PowerCut
<1>3. SetId \/ SetFlag \/ CopyEeprom \/ CopyFile
        => on /\ UNCHANGED <<media, todo, saving, historyVars>>
  BY DEF SetId, SetFlag, CopyEeprom, CopyFile, InMemory, Command
<1> QED BY <1>1, <1>2, <1>3 DEF Next, Edit, vars

-----------------------------------------------------------------------------
(* config_init() *)

\* All four tests look at serial_output, so that only this flag is ever replaced.
LEMMA SetDefaultIs ==
  ASSUME NEW c \in Struct
  PROVE  SetDefault(c) = IF IsBoolean(c[SO]) THEN c ELSE [c EXCEPT ![SO] = 1]
<1>1. CASE IsBoolean(c[SO])
  BY <1>1 DEF SetDefault, Defaulted
<1>2. CASE ~IsBoolean(c[SO])
  <2> DEFINE d == [c EXCEPT ![SO] = 1]
  <2>1. IsBoolean(d[SO])
    BY DEF Struct, Addr, SO, IsBoolean
  <2>2. Defaulted(c, SO, 1) = d
    BY <1>2 DEF Defaulted
  <2>3. \A a, v : Defaulted(d, a, v) = d
    BY <2>1 DEF Defaulted
  <2> HIDE DEF d
  <2>4. SetDefault(c) = d
    BY <2>2, <2>3, Zenon DEF SetDefault
  <2> QED BY <1>2, <2>4 DEF d
<1> QED BY <1>1, <1>2

\* The EEPROM, or an invalid configuration in its place, is a structure.
LEMMA StoredStruct == ASSUME TypeOK PROVE Stored \in Struct
BY InvalidStruct DEF TypeOK, Stored, Struct

\* The lists that config_init() begins.
LEMMA ConfigInitLists ==
  ASSUME TypeOK, ConfigInit
  PROVE  /\ HasFile(SdLogInit) => IF RewriteEeprom THEN todo' = EepromWrites ELSE todo' = <<>>
         /\ ~HasFile(SdLogInit) /\ ~RewriteEeprom => todo' = FileWrites
<1>1. EepromWrites \o <<>> = EepromWrites /\ <<>> \o FileWrites = FileWrites /\ <<>> \o <<>> = <<>>
  BY Lists
<1> QED BY <1>1 DEF ConfigInit
-----------------------------------------------------------------------------
(* The file wins *)

\* The defaults leave alone what the file says validly, and so does the EEPROM that
\* is not rewritten.
LEMMA MergedIsValid ==
  ASSUME TypeOK, HasFile(SdLogInit), NEW a \in Valid(FromFile(file))
  PROVE  /\ a \in Addr
         /\ SetDefault(WithFile)[a] = FromFile(file)[a]
         /\ ~RewriteEeprom => eeprom[a] = FromFile(file)[a]
<1> DEFINE f == FromFile(file)
<1>1. a \in Addr /\ Replaces(f, a)
  BY DEF Valid, Replaces, Addr, Flags, SO, CT, HV, SD
<1>2. WithFile = Merged(Stored, f)
  BY DEF WithFile
<1>3. WithFile[a] = f[a]
  BY <1>1, <1>2 DEF Merged
<1>4. WithFile \in Struct
  BY WithFileStruct DEF TypeOK, Struct
<1>5. SetDefault(WithFile)[a] = f[a]
  <2>1. CASE a = SO
    <3>1. IsBoolean(f[SO])
      BY <2>1 DEF Valid, Flags, SO, CT, HV, SD
    <3> QED BY <1>3, <1>4, <2>1, <3>1, SetDefaultIs
  <2>2. CASE a # SO
    BY <1>1, <1>3, <1>4, <2>2, SetDefaultIs DEF Struct
  <2> QED BY <2>1, <2>2
<1>6. ~RewriteEeprom => eeprom = WithFile
  BY DEF RewriteEeprom, Stored
<1> QED BY <1>1, <1>3, <1>5, <1>6

\* Initially nothing was read.
LEMMA FileInit == Init => FileInv
BY DEF Init, FileInv

\* A file that was read wins through every step.
LEMMA FileKept ==
  ASSUME TypeOK, FileInv, [Next]_vars
  PROVE  FileInv'
<1>1. CASE ConfigInit
  <2>1. UNCHANGED <<eeprom, exists, file>> /\ config' = SetDefault(WithFile)
    BY <1>1 DEF ConfigInit
  <2> SUFFICES ASSUME origin' = "file" PROVE FileInv'
    BY DEF FileInv
  <2>2. HasFile(SdLogInit)
    BY <1>1 DEF ConfigInit
  <2>3. /\ RewriteEeprom => todo' = EepromWrites
        /\ ~RewriteEeprom => todo' = <<>>
    BY <1>1, <2>2, ConfigInitLists
  <2>4. Left(EepromWrites)'
    BY <2>3, Lists, LeftAll, LeftNone
  <2>5. \A a \in Valid(FromFile(file)) :
          config'[a] = FromFile(file)[a] /\ (~RewriteEeprom => eeprom[a] = FromFile(file)[a])
    BY <2>1, <2>2, MergedIsValid
  <2>6. RewriteEeprom => Copied(Len(todo')) = {}
    <3>1. RewriteEeprom => Len(todo') = 8
      BY <2>3, Lists, Zenon
    <3>2. Copied(8) = {}
      BY DEF Copied
    <3> QED BY <3>1, <3>2, Zenon
  <2>7. \A a \in Valid(FromFile(file)) : a \in Copied(Len(todo')) => eeprom[a] = FromFile(file)[a]
    BY <2>5, <2>6
  <2>8. Valid(FromFile(file))' = Valid(FromFile(file)) /\ FromFile(file)' = FromFile(file)
    BY <2>1 DEF Valid, FromFile
  <2> QED BY <2>1, <2>4, <2>5, <2>7, <2>8 DEF FileInv, Copied
<1>2. CASE Write
  <2> SUFFICES ASSUME origin' = "file" PROVE FileInv'
    BY DEF FileInv
  <2>1. origin = "file" /\ UNCHANGED config
    BY <1>2 DEF Write
  <2>2. Left(EepromWrites)
    BY <2>1 DEF FileInv
  <2>3. /\ Left(EepromWrites)' /\ Len(todo) \in 1 .. 8 /\ Len(todo') = Len(todo) - 1
        /\ WriteByte(8 - Len(todo))
    BY <1>2, <2>2, NextOfEeprom
  <2>4. UNCHANGED file /\ eeprom' = [eeprom EXCEPT ![8 - Len(todo)] = config[8 - Len(todo)]]
    BY <2>3 DEF WriteByte
  <2>5. FromFile(file)' = FromFile(file) /\ Valid(FromFile(file))' = Valid(FromFile(file))
    BY <2>4 DEF Valid, FromFile
  <2>6. ASSUME NEW a \in Valid(FromFile(file))
        PROVE  /\ config'[a] = FromFile(file)[a]
               /\ a \in Copied(Len(todo')) => eeprom'[a] = FromFile(file)[a]
    <3>1. config[a] = FromFile(file)[a] /\ (a \in Copied(Len(todo)) => eeprom[a] = FromFile(file)[a])
      BY <2>1 DEF FileInv
    <3>2. a \in Copied(Len(todo')) => a \in Copied(Len(todo)) \/ a = 8 - Len(todo)
      BY <2>3 DEF Copied
    <3>3. a \in Addr /\ eeprom \in [Addr -> Byte]
      BY DEF TypeOK, Valid, Addr, Flags, SO, CT, HV, SD
    <3> QED BY <2>1, <2>4, <3>1, <3>2, <3>3
  <2> QED BY <2>3, <2>5, <2>6 DEF FileInv, Copied
<1>3. CASE PowerCut
  BY <1>3 DEF PowerCut, FileInv
<1>4. CASE Edit
  BY <1>4 DEF Edit, FileInv
<1>5. CASE UNCHANGED vars
  BY <1>5 DEF vars, media, FileInv, Left, Copied, Valid, FromFile
<1> QED BY <1>1, <1>2, <1>3, <1>4, <1>5, Kinds

\* Whatever the EEPROM held, what the file says validly is used and kept.
THEOREM FileWinsAlways == Spec => []FileWins
<1>1. FileInv => FileWins
  <2> SUFFICES ASSUME FileInv, origin = "file", todo = <<>>,
                      NEW a \in Valid(FromFile(file))
               PROVE  config[a] = FromFile(file)[a] /\ eeprom[a] = FromFile(file)[a]
    BY DEF FileWins, Valid
  <2>1. a \in Copied(Len(todo))
    BY DEF Copied, Valid, Flags, SO, CT, HV, SD
  <2> QED BY <2>1 DEF FileInv
<1> QED BY TypesInit, TypesKept, FileInit, FileKept, <1>1, PTL DEF Spec
-----------------------------------------------------------------------------
(* What was saved returns *)

\* A sound configuration that is written to a file and read again is the same.
LEMMA FileOfSound ==
  ASSUME NEW c \in Struct, Sound(c), Magic(c)
  PROVE  FromFile(ToFile(c)) = c
<1>1. \A v \in {0, 1} : AsHex(v) = v
  BY DEF AsHex
<1>2. \A a \in Flags : AsHex(c[a]) = c[a]
  BY <1>1 DEF Sound, IsBoolean
<1>3. DOMAIN ToFile(c) = Addr \ {0, 1} /\ \A a \in Addr \ {0, 1} : ToFile(c)[a] = c[a]
  BY <1>2 DEF ToFile
<1>4. c[0] = Invalid[0] /\ c[1] = Invalid[1]
  BY DEF Magic, Invalid, Addr
<1>5. \A a \in Addr : FromFile(ToFile(c))[a] = c[a]
  BY <1>3, <1>4 DEF FromFile, Addr
<1>6. FromFile(ToFile(c)) = [a \in Addr |-> FromFile(ToFile(c))[a]] /\ c = [a \in Addr |-> c[a]]
  BY DEF FromFile, Struct
<1> QED BY <1>5, <1>6

\* Merged with itself, a configuration stays what it is.
LEMMA MergedWithItself == ASSUME NEW c \in Struct PROVE Merged(c, c) = c
BY DEF Merged, Struct

\* The two together.
SaveInv == SavingInv /\ SavedInv

\* Initially nothing was saved.
LEMMA SaveInit == Init => SaveInv
BY DEF Init, SaveInv, SavingInv, SavedInv

\* Without a card that is begun nothing is done to the file.
LEMMA NoCard ==
  ASSUME card # "begun", Remove \/ Create \/ Close
  PROVE  UNCHANGED <<eeprom, exists, file>>
BY DEF Remove, Create, Close, FileStep

\* One write of "config save", of a part of it, or of config_init().
LEMMA SaveByWrite ==
  ASSUME MagicInv, SaveInv, Write
  PROVE  SaveInv'
<1> USE DEF SaveInv
<1>1. TypeOK /\ Magic(config) /\ UNCHANGED <<on, config, card, origin, savedTo>>
  BY DEF MagicInv, Write
<1>2. CASE saving
  <2>1. Left(SaveWrites) /\ saved = Nothing /\ on
    BY <1>2 DEF SavingInv
  <2>2. /\ Left(SaveWrites)' /\ Len(todo) \in 1 .. 11 /\ Len(todo') = Len(todo) - 1
        /\ Len(todo) = 11 => Remove
        /\ Len(todo) = 10 => Create
        /\ Len(todo) = 9 => Close
        /\ Len(todo) <= 8 => WriteByte(8 - Len(todo))
        /\ todo' = <<>> <=> Len(todo) = 1
    BY <1>1, <2>1, NextOfSave
  <2>3. \A a \in Copied(Len(todo')) : eeprom'[a] = config'[a]
    <3>1. CASE Len(todo) <= 8
      <4>1. \A n \in 1 .. 11 : n <= 8 => n \in 1 .. 8
        OBVIOUS
      <4>2. Len(todo) \in 1 .. 8 /\ WriteByte(8 - Len(todo))
        BY <2>2, <3>1, <4>1, Zenon
      <4>3. \A a \in Copied(Len(todo)) : eeprom[a] = config[a]
        BY <1>2 DEF SavingInv
      <4> QED BY <1>1, <2>2, <4>2, <4>3, CopyByte
    <3>2. CASE Len(todo) > 8
      <4>1. \A n \in 1 .. 11 : n > 8 => Copied(n - 1) = {}
        BY DEF Copied
      <4>2. Copied(Len(todo) - 1) = {}
        BY <2>2, <3>2, <4>1, Zenon
      <4> QED BY <2>2, <4>2
    <3>3. \A n \in 1 .. 11 : n <= 8 \/ n > 8
      OBVIOUS
    <3> QED BY <2>2, <3>1, <3>2, <3>3, Zenon
  <2>4. card' = "begun" /\ Len(todo') <= 9 => exists'
    <3> SUFFICES ASSUME card = "begun", Len(todo') <= 9 PROVE exists'
      BY <1>1
    <3>1. CASE Len(todo) = 10
      BY <2>2, <3>1 DEF Create, FileStep
    <3>2. CASE Len(todo) # 10
      <4>0. Len(todo) <= 9 /\ Len(todo) # 11
        BY <2>2, <3>2, SavePlaces, Zenon
      <4>1. exists
        BY <1>2, <4>0 DEF SavingInv
      <4>2. Close \/ WriteByte(8 - Len(todo))
        BY <2>2, <3>2, <4>0, SavePlaces, Zenon
      <4> QED BY <4>1, <4>2 DEF Close, FileStep, WriteByte
    <3> QED BY <3>1, <3>2
  <2>5. card' = "begun" /\ Len(todo') <= 8 => file' = ToFile(config')
    <3> SUFFICES ASSUME card = "begun", Len(todo') <= 8 PROVE file' = ToFile(config)
      BY <1>1
    <3>1. CASE Len(todo) = 9
      BY <2>2, <3>1 DEF Close, FileStep
    <3>2. CASE Len(todo) # 9
      <4>0. Len(todo) <= 8
        BY <2>2, <3>2, SavePlaces, Zenon
      <4>1. file = ToFile(config)
        BY <1>2, <4>0 DEF SavingInv
      <4>2. WriteByte(8 - Len(todo))
        BY <2>2, <4>0
      <4> QED BY <4>1, <4>2 DEF WriteByte
    <3> QED BY <3>1, <3>2
  <2>6. CASE Len(todo) > 1
    <3>1. saved' = Nothing /\ todo' # <<>>
      BY <2>1, <2>2, <2>6 DEF Write
    <3>2. card' = savedTo'
      BY <1>1, <1>2 DEF SavingInv
    <3>3. SavingInv'
      BY <1>1, <2>1, <2>2, <2>3, <2>4, <2>5, <3>1, <3>2 DEF SavingInv
    <3> QED BY <3>1, <3>3 DEF SavedInv
  <2>7. CASE Len(todo) = 1
    <3>1. ~saving' /\ todo' = <<>> /\ saved' = IF Sound(config) THEN config ELSE Nothing
      <4>1. ~(Len(todo) > 1)
        BY <2>2, <2>7, SavePlaces, Zenon
      <4> QED BY <1>2, <2>2, <2>7, <4>1, Zenon DEF Write
    <3>2. config \in [Addr -> Byte] /\ eeprom' \in [Addr -> Byte]
      BY <1>1, WriteTypes DEF TypeOK
    <3>3. \A a \in Addr : eeprom'[a] = config[a]
      BY <1>1, <2>2, <2>3, <2>7 DEF Copied, Addr
    <3>4. eeprom' = config
      BY <3>2, <3>3
    <3>5. card' = "begun" => exists' /\ file' = ToFile(config)
      BY <1>1, <2>2, <2>4, <2>5, <2>7
    <3>6. SavedInv'
      <4> SUFFICES ASSUME saved' # Nothing, savedTo' # "in" PROVE SavedInv'
        BY DEF SavedInv
      <4>1. saved' = config /\ Sound(config)
        BY <3>1
      <4>2. card' = savedTo' /\ savedTo' \in Slot
        BY <1>1, <1>2 DEF SavingInv, TypeOK, Slot
      <4>3. card' # "out" => card' = "begun"
        BY <4>2 DEF Slot
      <4> QED BY <1>1, <3>1, <3>4, <3>5, <4>1, <4>3 DEF SavedInv, Sound, Magic
    <3> QED BY <3>1, <3>6 DEF SavingInv
  <2>8. Len(todo) > 1 \/ Len(todo) = 1
    BY <2>2
  <2> QED BY <2>6, <2>7, <2>8
<1>3. CASE ~saving
  <2>1. ~saving' /\ saved' = saved
    BY <1>3 DEF Write
  <2>2. SavedInv'
    <3> SUFFICES ASSUME saved # Nothing, savedTo # "in" PROVE SavedInv'
      BY <1>1, <2>1 DEF SavedInv
    <3>1. card = "out" /\ Left(FileWrites)
      BY DEF SavedInv, Write
    <3>2. Left(FileWrites)' /\ (Remove \/ Create \/ Close)
      <4>1. /\ Left(FileWrites)' /\ Len(todo) \in 1 .. 3
            /\ Len(todo) = 3 => Remove
            /\ Len(todo) = 2 => Create
            /\ Len(todo) = 1 => Close
        BY <1>1, <3>1, NextOfFile
      <4>2. \A n \in 1 .. 3 : n = 1 \/ n = 2 \/ n = 3
        OBVIOUS
      <4> QED BY <4>1, <4>2, Zenon
    <3>3. UNCHANGED <<eeprom, exists, file>>
      BY <1>1, <3>1, <3>2, NoCard
    <3> QED BY <1>1, <2>1, <3>1, <3>2, <3>3 DEF SavedInv, Sound, Magic, Fresh
  <2> QED BY <2>1, <2>2 DEF SavingInv
<1> QED BY <1>2, <1>3

\* config_init() finds what was saved, and has nothing to repair.
LEMMA SaveByInit ==
  ASSUME MagicInv, SaveInv, ConfigInit
  PROVE  SaveInv'
<1> USE DEF SaveInv
<1>1. /\ TypeOK /\ UNCHANGED <<eeprom, exists, file, saved, savedTo>> /\ ~saving'
      /\ card' = SdLogInit
      /\ todo = <<>> /\ config' = SetDefault(WithFile)
  BY DEF MagicInv, ConfigInit, historyVars
<1>2. SavedInv'
  <2> SUFFICES ASSUME saved # Nothing, savedTo # "in" PROVE SavedInv'
    BY <1>1 DEF SavedInv
  <2>1. Sound(saved) /\ Magic(saved) /\ eeprom = saved /\ (card # "out" => exists /\ file = ToFile(saved))
    BY DEF SavedInv
  <2>2. saved \in Struct /\ Stored = saved
    BY <1>1, <2>1 DEF TypeOK, Stored, Struct
  <2>3. WithFile = saved
    <3>1. CASE HasFile(SdLogInit)
      <4>1. FromFile(file) = saved
        BY <2>1, <2>2, <3>1, FileOfSound DEF HasFile, SdLogInit
      <4> QED BY <2>2, <3>1, <4>1, MergedWithItself DEF WithFile
    <3>2. CASE ~HasFile(SdLogInit)
      BY <2>2, <3>2 DEF WithFile
    <3> QED BY <3>1, <3>2
  <2>4. config' = saved
    <3>1. IsBoolean(saved[SO])
      BY <2>1 DEF Sound, Flags
    <3> QED BY <1>1, <2>2, <2>3, <3>1, SetDefaultIs
  <2>5. ~RewriteEeprom
    BY <2>1, <2>2, <2>3 DEF RewriteEeprom
  <2>6. todo' # <<>> => card = "out" /\ todo' = FileWrites
    <3>1. HasFile(SdLogInit) => todo' = <<>>
      BY <1>1, <2>5, ConfigInitLists
    <3>2. ~HasFile(SdLogInit) => card = "out" /\ todo' = FileWrites
      BY <1>1, <2>1, <2>5, ConfigInitLists DEF HasFile, SdLogInit
    <3> QED BY <3>1, <3>2
  <2>7. todo' # <<>> => Left(FileWrites)'
    BY <2>6, Lists, LeftAll
  <2> QED BY <1>1, <2>1, <2>4, <2>6, <2>7 DEF SavedInv, Sound, Magic, SdLogInit
<1> QED BY <1>1, <1>2 DEF SavingInv

\* What was saved is kept by every step that does not give it up.
LEMMA SaveKept ==
  ASSUME MagicInv, SaveInv, [Next]_vars
  PROVE  SaveInv'
<1> USE DEF SaveInv
<1>0. TypeOK
  BY DEF MagicInv
<1>1. CASE ConfigInit
  BY <1>1, SaveByInit
<1>2. CASE Write
  BY <1>2, SaveByWrite
<1>3. CASE PowerCut
  <2>1. ~saving' /\ todo' = <<>> /\ origin' = "edited" /\ UNCHANGED <<eeprom, exists, file, saved, savedTo>>
        /\ (card' = "out" <=> card = "out")
    BY <1>3 DEF PowerCut, historyVars
  <2> QED BY <2>1 DEF SavingInv, SavedInv, Sound, Magic, Fresh
<1>4. CASE Edit
  <2>1. todo = <<>> /\ origin' = "edited" /\ on' = on /\ ~saving
    BY <1>0, <1>4, EditIs DEF SavingInv
  <2>2. CASE UNCHANGED <<media, todo, saving, historyVars>>
    BY <2>1, <2>2 DEF media, historyVars, SavingInv, SavedInv, Sound, Magic, Fresh
  <2>3. CASE Save
    <3>1. /\ saving' /\ saved' = Nothing /\ on /\ todo' = SaveWrites
          /\ card' = card /\ savedTo' = card
      BY <2>3 DEF Save, Command, media
    <3>2. todo' # <<>> /\ Left(SaveWrites)' /\ Len(todo') = 11
      BY <3>1, Lists, LeftAll, Empties
    <3>3. Copied(11) = {} /\ ~(11 <= 9) /\ ~(11 <= 8)
      BY DEF Copied
    <3> QED BY <2>1, <3>1, <3>2, <3>3 DEF SavingInv, SavedInv
  <2>4. CASE SaveEeprom \/ SaveFile
    <3>1. ~saving' /\ saved' = Nothing
      BY <2>1, <2>4 DEF SaveEeprom, SaveFile, SavePart
    <3> QED BY <3>1 DEF SavingInv, SavedInv
  <2>5. CASE UserEditsFile \/ UserRemovesFile
    <3>1. /\ ~saving' /\ UNCHANGED <<eeprom, card, todo, savedTo>>
          /\ saved' = IF card = "out" THEN saved ELSE Nothing
      BY <2>1, <2>5 DEF UserEditsFile, UserRemovesFile, UserOnFile
    <3> QED BY <2>1, <3>1 DEF SavingInv, SavedInv, Sound, Magic, Fresh
  <2>6. CASE CardOut
    BY <2>1, <2>6 DEF CardOut, SavingInv, SavedInv, Sound, Magic, Fresh
  <2>7. CASE CardIn
    BY <2>1, <2>7 DEF CardIn, SavingInv, SavedInv, Sound, Magic, Fresh
  <2> QED BY <1>0, <1>4, <2>2, <2>3, <2>4, <2>5, <2>6, <2>7, EditIs
<1>5. CASE UNCHANGED vars
  BY <1>5 DEF vars, media, historyVars, SavingInv, SavedInv, Sound, Magic, Fresh, Left, Copied
<1> QED BY <1>1, <1>2, <1>3, <1>4, <1>5, Kinds

\* However often power goes, the card is taken out and put back and memory is changed,
\* a sound configuration that was saved, to a card that was begun or without a card, is
\* the one the next restart works with.
THEOREM SavedReturnsAlways == Spec => []SavedReturns
<1>1. SaveInv => SavedReturns
  BY DEF SaveInv, SavedInv, SavedReturns
<1> QED BY MagicInit, MagicKept, SaveInit, SaveKept, <1>1, PTL DEF Spec
-----------------------------------------------------------------------------
(* A restart finds an id *)

\* The id in a file, whatever its flags.
LEMMA FileIds ==
  /\ Id(FromFile(Nothing)) = IdInvalid
  /\ \A c \in Struct : Id(FromFile(ToFile(c))) = Id(c)
<1>1. Id(FromFile(Nothing)) = IdInvalid
  BY DEF Nothing, FromFile, Invalid, Id, IdInvalid, Addr
<1>2. ASSUME NEW c \in Struct PROVE Id(FromFile(ToFile(c))) = Id(c)
  <2>1. DOMAIN ToFile(c) = Addr \ {0, 1} /\ ToFile(c)[2] = c[2] /\ ToFile(c)[3] = c[3]
    BY DEF ToFile, Addr, Flags, SO, CT, HV, SD
  <2> QED BY <2>1 DEF FromFile, Id, Addr
<1> QED BY <1>1, <1>2

\* config_init() works with the id that a restart finds.
LEMMA InitId ==
  ASSUME TypeOK, Magic(eeprom), card # "out"
  PROVE  Id(SetDefault(WithFile)) = RestartId
<1>1. Stored = eeprom /\ (HasFile(SdLogInit) <=> exists)
  BY DEF Stored, HasFile, SdLogInit
<1>2. Id(WithFile) = RestartId
  <2>1. CASE ~exists
    BY <1>1, <2>1 DEF WithFile, RestartId
  <2>2. CASE exists
    <3>1. WithFile = Merged(eeprom, FromFile(file))
      BY <1>1, <2>2 DEF WithFile
    <3>2. \A a \in {2, 3} : WithFile[a] = IF Id(FromFile(file)) # IdInvalid THEN FromFile(file)[a] ELSE eeprom[a]
      BY <3>1 DEF Merged, Replaces, Addr, SO, CT, HV, SD
    <3> QED BY <2>2, <3>2 DEF Id, RestartId
  <2> QED BY <2>1, <2>2
<1>3. WithFile \in Struct
  BY WithFileStruct DEF TypeOK, Struct
<1>4. Id(SetDefault(WithFile)) = Id(WithFile)
  <2>1. \A a \in {2, 3} : SetDefault(WithFile)[a] = WithFile[a]
    BY <1>3, SetDefaultIs DEF SO, Struct, Addr
  <2> QED BY <2>1 DEF Id
<1> QED BY <1>2, <1>4

\* Initially there is no id.
LEMMA IdInit == Init => IdInv
BY DEF Init, IdInv

\* config_init() completes what a power cut has left.
LEMMA IdByInit ==
  ASSUME TypeOK, IdInv, ConfigInit
  PROVE  IdInv'
<1>1. UNCHANGED <<eeprom, exists, file, ids, savedTo>> /\ config' = SetDefault(WithFile)
      /\ card' = SdLogInit
  BY DEF ConfigInit, historyVars
<1> SUFFICES ASSUME ids # {}, savedTo = "begun" PROVE IdInv'
  BY <1>1 DEF IdInv
<1>2. card # "out" /\ card' = "begun" /\ Magic(eeprom) /\ RestartId \in ids
  BY <1>1 DEF IdInv, SdLogInit
<1>3. Id(config') = RestartId /\ RestartId' = RestartId
  BY <1>1, <1>2, InitId DEF RestartId, FromFile, Id
<1>4. HasFile(SdLogInit) <=> exists
  BY <1>2 DEF HasFile, SdLogInit
<1>5. CASE exists
  <2>1. todo' = EepromWrites \/ todo' = <<>>
    BY <1>4, <1>5, ConfigInitLists
  <2>2. todo' = <<>> \/ Left(EepromWrites)'
    BY <2>1, Lists, LeftAll
  <2>3. Id(FromFile(file)) # IdInvalid \/ Id(config') = Id(eeprom)
    BY <1>3, <1>5 DEF RestartId
  <2>4. (Id(FromFile(file)) # IdInvalid)' <=> Id(FromFile(file)) # IdInvalid
    BY <1>1 DEF FromFile, Id, IdInvalid
  <2>5. Id(config)' = Id(config') /\ Id(eeprom)' = Id(eeprom) /\ Magic(eeprom)' = Magic(eeprom)
    BY <1>1 DEF Id, Magic
  <2> QED BY <1>1, <1>2, <1>3, <1>5, <2>2, <2>3, <2>4, <2>5 DEF IdInv
<1>6. CASE ~exists
  <2>1. WithFile = eeprom /\ ~RewriteEeprom
    BY <1>2, <1>4, <1>6 DEF WithFile, Stored, RewriteEeprom
  <2>2. todo' = FileWrites
    BY <1>4, <1>6, <2>1, ConfigInitLists
  <2>3. Left(FileWrites)' /\ Len(todo') = 3
    BY <2>2, Lists, LeftAll
  <2>4. Id(config') = Id(eeprom)
    BY <1>3, <1>6 DEF RestartId
  <2>5. Id(config)' = Id(config') /\ Id(eeprom)' = Id(eeprom) /\ Magic(eeprom)' = Magic(eeprom)
    BY <1>1 DEF Id, Magic
  <2>6. ~(Len(todo') < 3)
    BY <2>3
  <2> QED BY <1>1, <1>2, <1>3, <2>3, <2>4, <2>5, <2>6 DEF IdInv
<1> QED BY <1>5, <1>6

\* A byte of the EEPROM that is copied from memory.
LEMMA IdByByte ==
  ASSUME TypeOK, NEW a \in Addr, WriteByte(a), UNCHANGED config
  PROVE  /\ UNCHANGED <<exists, file>>
         /\ Id(config) = Id(eeprom) => Id(eeprom') = Id(eeprom)
BY DEF WriteByte, TypeOK, Id, Addr

\* Each write leaves a whole id to find.
LEMMA IdByWrite ==
  ASSUME MagicInv, IdInv, Write
  PROVE  IdInv'
<1>1. TypeOK /\ TypeOK' /\ UNCHANGED <<config, card, ids, savedTo, origin>>
  BY WriteTypes DEF MagicInv, Write
<1> SUFFICES ASSUME ids # {}, savedTo = "begun" PROVE IdInv'
  BY <1>1 DEF IdInv
<1>2. card = "begun" /\ Magic(eeprom) /\ RestartId \in ids /\ todo # <<>> /\ Id(config) \in ids
  BY DEF IdInv, Write
<1>3. Magic(eeprom')
  BY <1>2, EepromStep DEF Next
<1> DEFINE fileId == Id(FromFile(file))
           newFileId == Id(FromFile(file'))
<1>4. /\ RestartId' = IF exists' /\ newFileId # IdInvalid THEN newFileId ELSE Id(eeprom')
      /\ Id(config)' = Id(config) /\ Id(eeprom)' = Id(eeprom') /\ Magic(eeprom)' = Magic(eeprom')
      /\ (Id(FromFile(file)) # IdInvalid)' <=> newFileId # IdInvalid
  BY <1>1 DEF RestartId, FromFile, Id, Magic, IdInvalid
<1>5. RestartId = IF exists /\ fileId # IdInvalid THEN fileId ELSE Id(eeprom)
  BY DEF RestartId
<1>6. config \in Struct
  BY <1>1 DEF TypeOK, Struct
<1>8. ASSUME Left(SaveWrites), Len(todo) >= 9, Id(config) # IdInvalid, Id(eeprom) \in ids,
             Len(todo) < 11 => file = Nothing, Len(todo) < 10 => exists
      PROVE  IdInv'
  <2>1. /\ Left(SaveWrites)' /\ Len(todo) \in 1 .. 11 /\ Len(todo') = Len(todo) - 1
        /\ Len(todo) = 11 => Remove
        /\ Len(todo) = 10 => Create
        /\ Len(todo) = 9 => Close
    BY <1>1, <1>8, NextOfSave
  <2>2. CASE Len(todo) = 11
    <3>1. UNCHANGED eeprom /\ ~exists' /\ file' = Nothing
      BY <1>2, <2>1, <2>2 DEF Remove, FileStep
    <3>2. Len(todo') >= 9 /\ ~(Len(todo') < 10)
      BY <2>1, <2>2
    <3> QED BY <1>1, <1>2, <1>3, <1>4, <1>8, <2>1, <3>1, <3>2 DEF IdInv
  <2>3. CASE Len(todo) = 10
    <3>1. UNCHANGED eeprom /\ exists' /\ file' = Nothing
      <4>1. Len(todo) < 11
        BY <2>3
      <4> QED BY <1>2, <1>8, <2>1, <2>3, <4>1, Zenon DEF Create, FileStep
    <3>2. Len(todo') >= 9
      BY <2>1, <2>3
    <3>3. newFileId = IdInvalid
      BY <3>1, FileIds
    <3> QED BY <1>1, <1>2, <1>3, <1>4, <1>8, <2>1, <3>1, <3>2, <3>3 DEF IdInv
  <2>4. CASE Len(todo) = 9
    <3>1. UNCHANGED eeprom /\ exists' /\ file' = ToFile(config)
      BY <1>2, <1>8, <2>1, <2>4 DEF Close, FileStep
    <3>2. Len(todo') <= 8
      BY <2>1, <2>4
    <3>3. newFileId = Id(config)
      BY <1>6, <3>1, FileIds
    <3> QED BY <1>1, <1>2, <1>3, <1>4, <1>8, <2>1, <3>1, <3>2, <3>3 DEF IdInv
  <2>5. \A n \in 1 .. 11 : n >= 9 => n = 11 \/ n = 10 \/ n = 9
    OBVIOUS
  <2> QED BY <1>8, <2>1, <2>2, <2>3, <2>4, <2>5, Zenon
<1>9. ASSUME Left(SaveWrites), Len(todo) <= 8, exists, fileId # IdInvalid
      PROVE  IdInv'
  <2>1. /\ Left(SaveWrites)' /\ Len(todo) \in 1 .. 11 /\ Len(todo') = Len(todo) - 1
        /\ WriteByte(8 - Len(todo))
    BY <1>1, <1>9, NextOfSave
  <2>2. UNCHANGED <<exists, file>>
    BY <2>1 DEF WriteByte
  <2>3. Len(todo') <= 8
    BY <1>9, <2>1
  <2>4. newFileId = fileId
    BY <2>2
  <2> QED BY <1>1, <1>2, <1>3, <1>4, <1>5, <1>9, <2>1, <2>2, <2>3, <2>4 DEF IdInv
<1>10. ASSUME Left(EepromWrites), exists, fileId # IdInvalid \/ Id(config) = Id(eeprom)
       PROVE  IdInv'
  <2>1. Left(EepromWrites)' /\ Len(todo) \in 1 .. 8 /\ WriteByte(8 - Len(todo))
    BY <1>1, <1>10, NextOfEeprom
  <2>2. 8 - Len(todo) \in Addr
    BY <2>1, Places, Zenon DEF Addr
  <2>3. UNCHANGED <<exists, file>> /\ (Id(config) = Id(eeprom) => Id(eeprom') = Id(eeprom))
    BY <1>1, <2>1, <2>2, IdByByte
  <2>4. newFileId = fileId
    BY <2>3
  <2> QED BY <1>1, <1>2, <1>3, <1>4, <1>5, <1>10, <2>1, <2>3, <2>4 DEF IdInv
<1>11. ASSUME Left(FileWrites), Id(config) = Id(eeprom), Len(todo) < 3 => file = Nothing
       PROVE  IdInv'
  <2>1. /\ Left(FileWrites)' /\ Len(todo) \in 1 .. 3 /\ Len(todo') = Len(todo) - 1
        /\ Len(todo) = 3 => Remove
        /\ Len(todo) = 2 => Create
        /\ Len(todo) = 1 => Close
        /\ todo' = <<>> <=> Len(todo) = 1
    BY <1>1, <1>11, NextOfFile
  <2>2. CASE Len(todo) = 3
    <3>1. UNCHANGED eeprom /\ ~exists' /\ file' = Nothing
      BY <1>2, <2>1, <2>2 DEF Remove, FileStep
    <3> QED BY <1>1, <1>2, <1>3, <1>4, <1>11, <2>1, <3>1 DEF IdInv
  <2>3. CASE Len(todo) = 2
    <3>1. UNCHANGED eeprom /\ file' = Nothing
      BY <1>2, <1>11, <2>1, <2>3 DEF Create, FileStep
    <3>2. newFileId = IdInvalid
      BY <3>1, FileIds
    <3> QED BY <1>1, <1>2, <1>3, <1>4, <1>11, <2>1, <3>1, <3>2 DEF IdInv
  <2>4. CASE Len(todo) = 1
    <3>1. UNCHANGED eeprom /\ file' = ToFile(config) /\ todo' = <<>>
      BY <1>2, <2>1, <2>4 DEF Close, FileStep
    <3>2. newFileId = Id(config)
      BY <1>6, <3>1, FileIds
    <3> QED BY <1>1, <1>2, <1>3, <1>4, <1>11, <3>1, <3>2 DEF IdInv
  <2>5. \A n \in 1 .. 3 : n = 1 \/ n = 2 \/ n = 3
    OBVIOUS
  <2> QED BY <2>1, <2>2, <2>3, <2>4, <2>5, Zenon
<1> QED BY <1>2, <1>8, <1>9, <1>10, <1>11 DEF IdInv

\* Every step leaves a whole id to find.
LEMMA IdKept ==
  ASSUME MagicInv, IdInv, [Next]_vars
  PROVE  IdInv'
<1>0. TypeOK
  BY DEF MagicInv
<1>1. CASE ConfigInit
  BY <1>0, <1>1, IdByInit
<1>2. CASE Write
  BY <1>2, IdByWrite
<1>3. CASE PowerCut
  <2>1. todo' = <<>> /\ origin' = "edited" /\ UNCHANGED <<eeprom, exists, file, ids, savedTo>>
        /\ (card' = "out" <=> card = "out")
    BY <1>3 DEF PowerCut, historyVars
  <2> QED BY <2>1 DEF IdInv, RestartId, FromFile, Id, Magic, Fresh
<1>4. CASE Edit
  <2>1. todo = <<>> /\ origin' = "edited" /\ on' = on
    BY <1>0, <1>4, EditIs
  <2>2. CASE UNCHANGED <<media, todo, saving, historyVars>>
    BY <2>1, <2>2 DEF media, historyVars, IdInv, RestartId, FromFile, Id, Magic, Fresh
  <2>3. CASE Save
    <3> SUFFICES ASSUME ids' # {}, savedTo' = "begun" PROVE IdInv'
      BY DEF IdInv
    <3>1. on /\ todo' = SaveWrites /\ UNCHANGED <<config, eeprom, card, exists, file>>
      BY <2>3 DEF Save, Command, media
    <3>2. /\ card = "begun" /\ Id(config) # IdInvalid
          /\ ids' = {Id(config), Id(eeprom)} \cup (IF exists THEN {Id(FromFile(file))} ELSE {})
      BY <2>3 DEF Save
    <3>3. Magic(eeprom)
      BY <2>1, <3>1 DEF MagicInv, MagicDue
    <3>4. Left(SaveWrites)' /\ Len(todo') = 11
      BY <3>1, Lists, LeftAll
    <3>5. RestartId \in ids'
      BY <3>2 DEF RestartId
    <3>6. /\ RestartId' = RestartId /\ Magic(eeprom)' = Magic(eeprom)
          /\ Id(config)' = Id(config) /\ Id(eeprom)' = Id(eeprom)
      BY <3>1 DEF RestartId, FromFile, Id, Magic
    <3>7. Len(todo') >= 9 /\ ~(Len(todo') < 11) /\ ~(Len(todo') < 10)
      BY <3>4
    <3> QED BY <3>1, <3>2, <3>3, <3>4, <3>5, <3>6, <3>7 DEF IdInv
  <2>4. CASE SaveEeprom \/ SaveFile \/ UserEditsFile \/ UserRemovesFile \/ CardOut \/ CardIn
    BY <2>4 DEF SaveEeprom, SaveFile, SavePart, UserEditsFile, UserRemovesFile, UserOnFile, CardOut, CardIn, IdInv
  <2> QED BY <1>0, <1>4, <2>2, <2>3, <2>4, EditIs
<1>5. CASE UNCHANGED vars
  BY <1>5 DEF vars, media, historyVars, IdInv, RestartId, FromFile, Id, Magic, Fresh, Left
<1> QED BY <1>1, <1>2, <1>3, <1>4, <1>5, Kinds

\* Wherever the power was cut, a restart after a "config save" to a card that was begun
\* has the id that was given or one that was there before.
THEOREM RestartKeepsIdAlways == Spec => []RestartKeepsId
<1>1. IdInv => RestartKeepsId
  BY DEF IdInv, RestartKeepsId
<1> QED BY MagicInit, MagicKept, IdInit, IdKept, <1>1, PTL DEF Spec
=============================================================================
