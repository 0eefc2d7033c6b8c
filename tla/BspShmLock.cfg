CONSTANTS
  Host = {h1, h2}
  Card = {c}
  LockTries = 1
  AreaIds = {a, x}
  CardIds = {x}
  NoArea = NoArea
  TableSize = 2
  FileSlots = 2
  MaxShmCalls = 3
  MaxCardTries = 2
SPECIFICATION ShmSpec
INVARIANT FreeWhenIdle
CHECK_DEADLOCK FALSE
