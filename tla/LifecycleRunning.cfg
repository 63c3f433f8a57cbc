\* A controller starts and stops plugins while the event loop unloads the dead.
CONSTANTS
  i1 = i1  i2 = i2  i3 = i3  i4 = i4  nA = nA  nB = nB
  Names = {nA, nB}
  NameOf <- MCNameOf
  Insts = {i1, i2, i3}
  Startup = {i1}
  Reload = {}
  Controllers = {c1}
  Requests = {}
  LoopIdles = TRUE
  EarlyStop = FALSE
  IdleEarly = TRUE
  StartupSync = FALSE
  MaxRequests = 0
SPECIFICATION FairSpec
PROPERTIES DeadUnloaded
CHECK_DEADLOCK FALSE
