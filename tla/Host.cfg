CONSTANTS
  Parts = {"keys", "shift", "fan", "usb", "ir", "reader", "video", "player"}
  Panels = {"usb"}
  Buttons = {ok}
  Remote = {info, search, up}
  Shifted = {info, search}
  Single = {search}
  Repeated = {up}
  NoKey = none
  QUEUELEN = 3
  MinRepeats = 0
  FakeRepeats = 1
  MaxPresses = 2
  MaxSignals = 2
  MaxExternal = 1
  MbTypes = {0, 1, 2, 3}
  BoardTemps = {40, 46}
  CpuTemps = {48, 93}
  Minima = {0, 300}
  Leftovers = {0, 5000}
  Displays = {1, 2, 3}
  Handles = 2
  Showers = {t1}
  MaxPlugs = 3
  Receivers = 2
  OldFirmware = {2}
  BITS = 3
  NIBBLES = 2
  MAX_CMDS = 3
  Nibbles = {0, 5, 11}
  Flaws = {4}
  Noises <- MCNoises
  MaxFrames = 2
  Messages <- MCMessages
  MaxMessages = 3
  Settings <- MCSettings
  Streams <- MCStreams
  Modelines <- MCModelines
  NoTiming = none
  Off = off
  Polite = TRUE
  MaxRequests = 3
  MaxReports = 1
  Daemon = d
  Threads = {t1, t2}
  MaxToolCalls = 3
  MaxPowerDowns = 1
  MaxCrashes = 2
SPECIFICATION FairSpec
INVARIANTS
  TypeOK
  OnePressEach RepeatsTheLastPress HotMeansFast ShownIsOpen HeardAsSent
  LossIsContained
  AcknowledgedMeansSwitched ChipsAgree
  RunningIsTold OnePlayer PoweredDownIsSilent
PROPERTIES
  ShiftIsDecided FanDoesNotFlap PresentStaysOpen
  VideoIsSet EnabledPlays PowerDownHappens
