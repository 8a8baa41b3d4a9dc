SPECIFICATION FairSpec
CONSTANTS
  NArg = 2
  BlockLen = 7
  InfoLen = 1
  MaxTries = 3
  Byte <- MCByte
  Noise = {255}
  Addresses <- MCAddresses
  Blocks <- MCBlocks
  Registers <- MCRegisters
  Writable = TRUE
  MaxResets = 1
INVARIANTS
  TypeOK
  ExchangeIsWhole
PROPERTIES
  WriteGoesWhereAsked
  CommandEnds
