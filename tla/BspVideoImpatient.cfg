CONSTANTS
  Settings <- MCSettings
  Streams <- MCStreams
  Modelines <- MCModelines
  NoTiming = none
  Off = off
  Polite = FALSE
  MaxRequests = 3
  MaxReports = 2
SPECIFICATION VideoSpec
INVARIANT AcknowledgedMeansSwitched
