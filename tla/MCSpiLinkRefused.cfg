SPECIFICATION Spec
CONSTANTS
  NArg = 2
  BlockLen = 7
  InfoLen = 1
  MaxTries = 3
  Byte <- MCByte
  Noise = {255}
  Addresses <- MCAddresses
  Blocks <- MCBlocks
  Registers <- MCRegisters
  Writable = TRUE
  MaxResets = 0
INVARIANT RefusedIsRetried
