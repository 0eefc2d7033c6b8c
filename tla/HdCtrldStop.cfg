SPECIFICATION PlayerFairSpec
CONSTANTS
  Daemon = d
  Threads = {t1, t2}
  MaxToolCalls = 3
  MaxPowerDowns = 1
  MaxCrashes = 0
PROPERTY DisabledStops
