SPECIFICATION Spec
CONSTANTS
  NArg = 2
  BlockLen = 7
  InfoLen = 1
  MaxTries = 3
  Byte <- MCByte
  Noise = {255}
  Addresses <- MCWriteAddresses
  Blocks <- MCBlocks
  Registers <- MCRegisters
  Writable = TRUE
  MaxResets = 1
PROPERTY LateWriteGoesWhereAsked
