SPECIFICATION Spec
CONSTANTS
  NBlocks = 2
  NParts = 1
  NPacket = 1
  Values = {z, v}
  Zero = z
  NoPromise = NoPromise
  NoAnswer = NoAnswer
  Idle = Idle
  FaultKinds = {"unplug"}
  MaxFaults = 1
INVARIANTS
  OnCardWhenDisconnected
