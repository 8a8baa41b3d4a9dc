SPECIFICATION Spec
CONSTANTS
  NBlocks = 2
  NParts = 2
  NPacket = 1
  Values = {z, v}
  Zero = z
  NoPromise = NoPromise
  NoAnswer = NoAnswer
  Idle = Idle
  FaultKinds = {"fetch", "flush", "refuse", "late", "unplug", "reset"}
  MaxFaults = 2
INVARIANTS
  TypeOK
  DamageIsLocal
PROPERTIES
  ImplementsBlockDevice
