CONSTANTS
  Parts = {"life", "shm", "channel", "net", "open"}
  Starters = {s1, s2}
  Demos = {d1}
  MaxWishes = 3
  MaxFaults = 1
  Host = {h1, h2}
  Card = {c}
  LockTries = 1
  AreaIds = {a, x}
  CardIds = {x}
  NoArea = NoArea
  TableSize = 2
  FileSlots = 2
  MaxShmCalls = 3
  MaxCardTries = 2
  MaxEntries = 3
  AreaBlocks = 2
  PacketBlocks = {1, 2}
  Payload = {a}
  NoData = none
  RingSize = 3
  RingRoom = 1
  MaxPackets = 2
  MaxExits = 1
  Locations = {"MAIN", "BSP"}
  Creator = c
  Openers = {o}
  Sizes = {1, 2}
  Tries = 2
  MaxResets = 2
  MaxGenerations = 2
SPECIFICATION FairSpec
INVARIANTS TypeOK TableExclusive FaultsFindArea MappedOnce NoPacketVanishes
PROPERTIES WatchdogSparesTheLiving HungIsReplaced KillSticks LosesOnlyWhenAsked NetDelivers
