\* Two nodes; a frame or two packets may be lost; one thread sets periodic frames.
CONSTANTS
  a = a  b = b  all = all
  Parts = {"iso", "packet", "transport", "decoder", "periodic", "comm"}
  Nodes = {a, b}
  Lengths <- MCLengths
  Priority = 1
  Overlap = FALSE
  MaxSends = 2
  MaxLost = 1
  PktNodes = {a, b}
  PktThreads <- MCThreads
  PktLengths = {0, 2}
  Count = 1
  MaxPackets = 2
  MaxFramesLost = 1
  IbpNodes = {a, b}
  EventSizes = {1, 3}
  Lossy = {"data", "request"}
  Overlaps = FALSE
  Premature = FALSE
  MaxEvents = 2
  MaxPacketsLost = 2
  BusNodes = {a, b, all}
  Everybody = all
  Sizes = {2, 3}
  Duplex = FALSE
  MissesRestart = FALSE
  MaxTransfers = 2
  MaxAborts = 1
  MaxMissed = 2
  EcuThreads = {1}
  FrameIds = {1}
  FrameData = {0, 7, 8}
  Durations = TRUE
  BusRefuses = TRUE
  MaxSets = 3
  CommIds = {1, 2}
  Wanted = 2
  WaitTimeout = TRUE
  MaxListens = 2
  MaxSeen = 3
SPECIFICATION Spec
INVARIANTS SendsWhatWasSet NothingMissed
PROPERTIES AllDelivered MessageTransfer PacketTransfer PacketArrives EventTransfer EventArrives DecoderTransfer ListenReturns
CHECK_DEADLOCK FALSE
