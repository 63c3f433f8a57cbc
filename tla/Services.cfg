\* Two threads, senders, clients of each service; two packets may be lost, the
\* framework and the program crash once.
CONSTANTS
  FlowThreads = {1, 2}
  Ends = {"a", "b"}
  TableThere = TRUE
  MaxFlowPackets = 4
  Plugins = {"p", "q"}
  Configured = {"p"}
  Unloadable = {}
  Savers = {1, 2}
  Restore = TRUE
  MaxChanges = 2
  MaxSaves = 2
  MaxLoads = 1
  MaxCrashes = 1
  ChSenders = {"s", "t"}
  ChSizes = {1, 2, 3}
  Overtaking = FALSE
  MaxChEvents = 3
  MaxChLost = 1
  LinkSenders = {"s", "t"}
  BusySenders = {}
  IdleCloses = TRUE
  MaxLinkEvents = 2
  MaxPartial = 1
  Clients = {1, 2}
  TcpKey <- MCOwnKey
  Segments <- MCSegments
  Window = 1
  FirstSeqs = {1}
  OurSeqs = {3, 5}
  SeqMod = 32
  LosesSegments = FALSE
  MaxTcpLost = 2
  RedirClients = {"c", "d"}
  RedirHosts = {"h", "i"}
  Pot = "pot"
  SportOf <- MCOwnPort
  ConfigKeys <- MCConfigKeys
  Rules = {"eval1", "eval2"}
  MatchAll = FALSE
  MaxRequests = 3
  Jobs = {1, 2}
  JobName <- MCOwnName
  Pool = 2
  Retry = 1
  MaxFailures = 3
  MaxJobCrashes = 2
SPECIFICATION Spec
INVARIANTS LoadedIsSaved KeepsLastSave UnhurtArrive ResponseReturns EveryJobTried
PROPERTIES EntriesKept EveryoneServed TcpReceives
CHECK_DEADLOCK FALSE
