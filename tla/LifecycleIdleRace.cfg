\* The event loop unloads dead plugins while the main thread stops them.
CONSTANTS
  i1 = i1  i2 = i2  i3 = i3  i4 = i4  nA = nA  nB = nB
  Names = {nA, nB}
  NameOf <- MCNameOf
  Insts = {i1, i2}
  Startup = {i1, i2}
  Reload = {}
  Controllers = {}
  Requests = {"stop"}
  LoopIdles = TRUE
  EarlyStop = FALSE
  IdleEarly = FALSE
  StartupSync = FALSE
  MaxRequests = 2
SPECIFICATION Spec
INVARIANTS MainSurvives
CHECK_DEADLOCK FALSE
