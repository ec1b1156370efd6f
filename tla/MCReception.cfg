SPECIFICATION Spec
CONSTANTS
  Buses = {0, 1}
  Producers = {"p1", "p2"}
  StrictPorts = FALSE
  MaxMsgs = 3
  Bytes = {1, 144, 192, 240, 241, 246, 247, 248}
  MaxSysexBytes = 2
  MaxStream = 5
  CloseMayFail = FALSE
  MaxPackets = 3
  MaxMessages = 3
  MaxBatch = 2
  SeqSpace = 8
  Markers = 16
  Green = 1
  Red = 2
  Window = 1
  Recover = 1
  Hold = 1
  LowUptime = 1
  YellowPct = 25
  EvtStreak = 2
  StatStreak = 2
  MinPps = 1
  MaxEvents = 3
  Loses = TRUE
  Reasons = {1, 2}
  FirstSeqs = {6}
  MaxSent = 5
  MaxInFlight = 3
  MaxClock = 1
  MaxBoots = 2
  SentInOrder = 3
  InFlightInOrder = 1
  ClockInOrder = 2
INVARIANTS CountsAreReal FramingIsMidi NotesLeaveInOrder EverythingIsRouted FailedStartLeavesNothing ClosedOnce
PROPERTIES StopReleasesEverything
CHECK_DEADLOCK FALSE
