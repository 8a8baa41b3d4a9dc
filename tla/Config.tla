------------------------------- MODULE Config -------------------------------
(***************************************************************************)
(* The configuration of the bGeigie3 (config.cpp, and the config command   *)
(* of commands.cpp): one structure in memory, a copy in EEPROM and a text  *)
(* file on the SD card that its owner can edit.  config_init() merges the  *)
(* three at every power up.                                                *)
(*                                                                         *)
(* What must survive a power cut is written in small steps: the EEPROM byte*)
(* by byte, the file by removing it, creating it empty and closing it.     *)
(* These steps wait in todo; everything between two of them is one action, *)
(* because memory alone is changed there.  The SD library enters the size  *)
(* of the file in its directory when the file is closed: until then it is  *)
(* empty.  A byte of the EEPROM is written whole or not at all, and the    *)
(* card is not pulled in the middle of these writes.                       *)
(*                                                                         *)
(* SD.begin() is called by sd_log_init() alone, just before config_init(), *)
(* in setup() and in power_up().  A card that is put in later is there, but*)
(* not begun: its file does not open, configToFile() returns 0 and its     *)
(* callers do not look.  Left out: the block that the SD library may still *)
(* have in its cache of a card that was pulled, or of a file its owner has *)
(* edited through the reader, and the reader's own card.init().            *)
(***************************************************************************)
EXTENDS Integers, Sequences

CONSTANTS
  Ids,         \* device ids the user gives, as <<low byte, high byte>>
  HostFiles,   \* what BGCONFIG.TXT gives after the user has written it; a
               \* line that does not parse (one that ends in CR, say) gives nothing
  MaxEdits,    \* bound on what the user does
  MaxCuts      \* bound on power cuts in the middle of a write

Byte == 0 .. 255
(* The layout of config_t: magic in 0 and 1, id in 2 and 3, then the flags *)
Addr == 0 .. 7
SO == 4     \* serial_output
CT == 5     \* coord_truncation
HV == 6     \* hv_sense
SD == 7     \* sd_rw
Flags == {SO, CT, HV, SD}
Id(c) == <<c[2], c[3]>>
IdInvalid == <<255, 255>>
Magic(c) == <<c[0], c[1]>> = <<239, 190>>     \* 0xBEEF
IsBoolean(v) == v \in {0, 1}
Sound(c) == \A a \in Flags : IsBoolean(c[a])

(* A file is the function of the bytes it gives: no line, no byte          *)
IsFile(f) ==
  /\ DOMAIN f \subseteq {2, 3} \cup Flags
  /\ 2 \in DOMAIN f <=> 3 \in DOMAIN f
  /\ \A a \in DOMAIN f : f[a] \in Byte

ASSUME IdsAssumption == Ids \subseteq (Byte \X Byte) \ {IdInvalid}
ASSUME HostFilesAssumption == \A f \in HostFiles : IsFile(f)
ASSUME BoundsAssumption == MaxEdits \in Nat /\ MaxCuts \in Nat

VARIABLES
  on,        \* the processor runs
  config,    \* theConfig
  eeprom,    \* the copy at CONFIG_EEPROM_ADDR
  card,      \* out of the slot, in it, or in it and begun by SD.begin()
  exists,    \* the card has the file
  file,      \* what the file gives when it is read
  todo,      \* the writes under way
  origin,    \* history: what config_init() made theConfig of, or "edited"
  saving,    \* history: the writes are those of a full "config save"
  saved,     \* history: the last configuration saved in both places, if any
  ids,       \* history: the ids a restart may find after a "config save"
  savedTo,   \* history: what card was at the last full "config save"
  edits,     \* history: what the user has done, up to MaxEdits
  cuts       \* history: interrupted writes, up to MaxCuts

media == <<eeprom, card, exists, file>>
historyVars == <<saved, ids, savedTo>>
vars == <<on, config, media, todo, origin, saving, historyVars, edits, cuts>>

Nothing == <<>>     \* no saved configuration, no byte given

Invalid == [a \in Addr |-> IF a = 0 THEN 239 ELSE IF a = 1 THEN 190 ELSE 255]

EepromWrites == [i \in 1 .. 8 |-> <<"eeprom", i - 1>>]
FileWrites == <<<<"remove", 0>>, <<"create", 0>>, <<"close", 0>>>>

TypeOK ==
  /\ on \in BOOLEAN /\ exists \in BOOLEAN
  /\ card \in {"out", "in", "begun"} /\ savedTo \in {"out", "in", "begun"}
  /\ origin \in {"edited", "eeprom", "file"} /\ saving \in BOOLEAN
  /\ config \in [Addr -> Byte] /\ eeprom \in [Addr -> Byte]
  /\ IsFile(file)
  /\ todo \in Seq({"eeprom", "remove", "create", "close"} \X Addr)
  /\ saved # Nothing => saved \in [Addr -> Byte]
  /\ ids \subseteq Byte \X Byte
  /\ edits \in 0 .. MaxEdits /\ cuts \in 0 .. MaxCuts

Init ==
  /\ on = FALSE /\ config = Invalid /\ eeprom = [a \in Addr |-> 255]
  /\ card = "in" /\ exists = FALSE /\ file = Nothing
  /\ todo = <<>> /\ origin = "edited" /\ saving = FALSE
  /\ saved = Nothing /\ ids = {} /\ savedTo = "out" /\ edits = 0 /\ cuts = 0

-----------------------------------------------------------------------------
(* Reading and writing the file *)

(* sd_log_init() *)
SdLogInit == IF card = "out" THEN "out" ELSE "begun"

(* SD.exists() and SD.open(), with the card in state c *)
HasFile(c) == c = "begun" /\ exists

(* configFromFile(): all invalid, then what the lines give *)
FromFile(f) == [a \in Addr |-> IF a \in DOMAIN f THEN f[a] ELSE Invalid[a]]

(* Mutant: the 8 bits of the flag overflow into its neighbour *)
AsHexUnbounded(v) == 256 * (v \div 100) + 16 * ((v \div 10) % 10) + (v % 10)

(* Flags are printed in decimal and read in hexadecimal: 255 comes back as 0x55 *)
AsHex(v) == (256 * (v \div 100) + 16 * ((v \div 10) % 10) + (v % 10)) % 256

ToFile(c) == [a \in Addr \ {0, 1} |-> IF a \in Flags THEN AsHex(c[a]) ELSE c[a]]

-----------------------------------------------------------------------------
(* config_init() *)

(* What the file replaces.  A flag of 8 bits is never 0xFFFF, so that      *)
(* hv_sense and sd_rw are replaced by any value.                           *)
Replaces(f, a) ==
  \/ a \in {2, 3} /\ Id(f) # IdInvalid
  \/ a \in {SO, CT} /\ IsBoolean(f[a])
  \/ a \in {HV, SD}

Merged(c, f) == [a \in Addr |-> IF Replaces(f, a) THEN f[a] ELSE c[a]]

(* The four tests of cfgSetDefault(), one after the other, look at serial_output *)
Defaulted(c, a, v) == IF IsBoolean(c[SO]) THEN c ELSE [c EXCEPT ![a] = v]
SetDefault(c) == Defaulted(Defaulted(Defaulted(Defaulted(c, SO, 1), CT, 0), HV, 0), SD, 0)

Stored == IF Magic(eeprom) THEN eeprom ELSE Invalid
WithFile == IF HasFile(SdLogInit) THEN Merged(Stored, FromFile(file)) ELSE Stored

(* Mutant: a file that replaces a value does not make the EEPROM rewritten *)
RewriteBlank == ~Magic(eeprom)

RewriteEeprom == ~Magic(eeprom) \/ WithFile # Stored

ConfigInit ==
  /\ todo = <<>> /\ card' = SdLogInit
  /\ config' = SetDefault(WithFile)
  /\ todo' = (IF RewriteEeprom THEN EepromWrites ELSE <<>>)
             \o (IF HasFile(SdLogInit) THEN <<>> ELSE FileWrites)
  /\ on' = TRUE /\ saving' = FALSE
  /\ origin' = IF HasFile(SdLogInit) THEN "file" ELSE "eeprom"
  /\ UNCHANGED <<eeprom, exists, file, historyVars, edits, cuts>>

(* setup(), and power_up() after a sleep that left memory as it was: both  *)
(* call sd_log_init() first                                                *)
Setup == ~on /\ ConfigInit
WakeUp == on /\ ConfigInit

-----------------------------------------------------------------------------
(* One write to a medium; the steps of configToFile() fail but on a card   *)
(* that is begun                                                           *)

WriteByte(a) == eeprom' = [eeprom EXCEPT ![a] = config[a]] /\ UNCHANGED <<exists, file>>

FileStep(there, content) ==
  /\ IF card = "begun" THEN exists' = there /\ file' = content ELSE UNCHANGED <<exists, file>>
  /\ UNCHANGED eeprom

Remove == FileStep(FALSE, Nothing)
Create == FileStep(TRUE, file)
Close == FileStep(exists, ToFile(config))

Write ==
  /\ todo # <<>> /\ todo' = Tail(todo)
  /\ LET kind == Head(todo)[1] IN
       \/ kind = "eeprom" /\ WriteByte(Head(todo)[2])
       \/ kind = "remove" /\ Remove
       \/ kind = "create" /\ Create
       \/ kind = "close" /\ Close
  /\ saving' = (saving /\ Len(todo) > 1)
  /\ saved' = IF saving /\ Len(todo) = 1 THEN (IF Sound(config) THEN config ELSE Nothing) ELSE saved
  /\ UNCHANGED <<on, config, card, origin, ids, savedTo, edits, cuts>>

(* Power goes, in the middle of the writes or not *)
PowerCut ==
  /\ on /\ on' = FALSE
  /\ config' = Invalid /\ todo' = <<>> /\ origin' = "edited" /\ saving' = FALSE
  /\ card' = IF card = "out" THEN "out" ELSE "in"
  /\ IF todo = <<>> THEN UNCHANGED cuts ELSE cuts < MaxCuts /\ cuts' = cuts + 1
  /\ UNCHANGED <<eeprom, exists, file, historyVars, edits>>

-----------------------------------------------------------------------------
(* The config command, and what the user does to the card *)

Edit == edits < MaxEdits /\ edits' = edits + 1 /\ todo = <<>> /\ origin' = "edited" /\ UNCHANGED <<on, cuts>>
Command == Edit /\ on

InMemory(c) ==
  /\ Command /\ config' = c
  /\ UNCHANGED <<media, todo, saving, historyVars>>

SetId == \E i \in Ids : InMemory([config EXCEPT ![2] = i[1], ![3] = i[2]])
SetFlag == \E a \in Flags, v \in {0, 1} : InMemory([config EXCEPT ![a] = v])
CopyEeprom == InMemory(eeprom)
CopyFile == InMemory(IF HasFile(card) THEN FromFile(file) ELSE Invalid)

(* Mutants: "config save" leaves the old file, or writes the EEPROM first *)
SaveEepromOnly == EepromWrites
SaveEepromFirst == EepromWrites \o FileWrites

SaveWrites == FileWrites \o EepromWrites

Save ==
  /\ Command /\ todo' = SaveWrites /\ saving' = TRUE
  /\ saved' = Nothing /\ savedTo' = card
  /\ ids' = IF Id(config) = IdInvalid THEN {}
            ELSE {Id(config), Id(eeprom)} \cup (IF card # "out" /\ exists THEN {Id(FromFile(file))} ELSE {})
  /\ UNCHANGED <<config, media>>

SavePart(writes) ==
  /\ Command /\ todo' = writes
  /\ saved' = Nothing /\ ids' = {}
  /\ UNCHANGED <<config, media, saving, savedTo>>

SaveEeprom == SavePart(EepromWrites)
SaveFile == SavePart(FileWrites)

(* With the card in the slot the user reaches it through the reader        *)
UserOnFile ==
  /\ Edit /\ ids' = {}
  /\ saved' = IF card = "out" THEN saved ELSE Nothing
  /\ UNCHANGED <<config, eeprom, card, todo, saving, savedTo>>

UserEditsFile == UserOnFile /\ exists' = TRUE /\ \E f \in HostFiles : file' = f
UserRemovesFile == UserOnFile /\ exists /\ exists' = FALSE /\ file' = Nothing

CardOut ==
  /\ Edit /\ card # "out" /\ card' = "out"
  /\ ids' = {}
  /\ UNCHANGED <<config, eeprom, exists, file, todo, saving, saved, savedTo>>

(* A card that comes in with another file, or with none, has the last word *)
CardIn ==
  /\ Edit /\ card = "out" /\ card' = "in"
  /\ ids' = {}
  /\ saved' = IF exists /\ saved # Nothing /\ file = ToFile(saved) THEN saved ELSE Nothing
  /\ UNCHANGED <<config, eeprom, exists, file, todo, saving, savedTo>>

Next ==
  \/ Setup \/ WakeUp \/ Write \/ PowerCut
  \/ SetId \/ SetFlag \/ CopyEeprom \/ CopyFile
  \/ Save \/ SaveEeprom \/ SaveFile
  \/ UserEditsFile \/ UserRemovesFile \/ CardOut \/ CardIn

Spec == Init /\ [][Next]_vars

-----------------------------------------------------------------------------
(* Properties *)

Fresh == origin # "edited"

(* What the file says validly is what the device uses and what it keeps in *)
(* EEPROM once config_init() is done, whatever the EEPROM held before: a   *)
(* blank one, one that a power cut has left half written, another one.     *)
FileWins ==
  origin = "file" /\ todo = <<>> =>
    LET f == FromFile(file)
        Valid == {a \in Flags : IsBoolean(f[a])} \cup (IF Id(f) # IdInvalid THEN {2, 3} ELSE {})
    IN \A a \in Valid : config[a] = f[a] /\ eeprom[a] = f[a]

(* A configuration with valid flags that "config save" has saved comes back*)
(* at every restart, in every byte, until the user changes the file or     *)
(* saves again: through a file written in decimal and read in hexadecimal, *)
(* with the card taken out and put back, and after changes that were not   *)
(* saved.  The card was begun at the save, or there was none; to a card put*)
(* in while the device was on, nothing is written, and its old file wins.  *)
SavedReturns == Fresh /\ saved # Nothing /\ savedTo # "in" => config = saved

(* Power cuts during a "config save" to a card that was begun and during   *)
(* the restarts that follow it, with that card in the slot: the device     *)
(* comes back with the valid id it was given or with one it had before,    *)
(* never with the low byte of one and the high byte of another.  It is the *)
(* file that protects the EEPROM: a save that does not reach a card has no *)
(* such protection, nor has "config save eeprom".                          *)
RestartKeepsId == Fresh /\ ids # {} /\ savedTo = "begun" => Id(config) \in ids

(* commands.cpp:102: "Saved." is printed whatever became of the file, as if*)
(* the next restart would find what was saved, or one id in one piece.     *)
SavedAlwaysReturns == Fresh /\ saved # Nothing => config = saved
IdAlwaysWhole == Fresh /\ ids # {} => Id(config) \in ids

(* Whatever is cut, copied or saved, an EEPROM that was once written is    *)
(* recognised at the next power up.                                        *)
MagicStays == [][Magic(eeprom) => Magic(eeprom')]_vars

(* config.cpp:80: "check all the values in EEPROM and set to default if    *)
(* necessary", that is, config_init() leaves no invalid flag.              *)
SoundAfterInit == Fresh => Sound(config)

=============================================================================
