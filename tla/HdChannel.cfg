CONSTANTS
  MaxEntries = 5
  AreaBlocks = 4
  PacketBlocks = {1, 4}
  Payload = {a}
  NoData = none
SPECIFICATION FairSpec
INVARIANTS TypeOK RegionsDisjoint FlushEmptiesChannel
PROPERTIES PublishIsVisible ImplementsFifo BlockedWriterProceeds EveryPacketLeaves
