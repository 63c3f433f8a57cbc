\* stop() and restart(), while plugins die and the event loop unloads them.
CONSTANTS
  i1 = i1  i2 = i2  i3 = i3  i4 = i4  nA = nA  nB = nB
  Names = {nA, nB}
  NameOf <- MCNameOf
  Insts = {i1, i2, i3, i4}
  Startup = {i1, i2}
  Reload = {i3, i4}
  Controllers = {}
  Requests = {"stop", "restart"}
  LoopIdles = TRUE
  EarlyStop = FALSE
  IdleEarly = FALSE
  StartupSync = FALSE
  MaxRequests = 2
SPECIFICATION FairSpec
INVARIANTS NoOrphans
PROPERTIES RequestsServed
CHECK_DEADLOCK FALSE
