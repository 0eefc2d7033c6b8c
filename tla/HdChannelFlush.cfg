CONSTANTS
  MaxEntries = 3
  AreaBlocks = 2
  PacketBlocks = {1}
  Payload = {a}
  NoData = none
SPECIFICATION Spec
INVARIANT FlushSucceeded
