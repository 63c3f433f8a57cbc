\* A stop or a restart at any time, while a controller starts and stops a plugin.
CONSTANTS
  i1 = i1  i2 = i2  i3 = i3  i4 = i4  nA = nA  nB = nB
  Names = {nA, nB}
  NameOf <- MCNameOf
  Insts = {i1, i2, i3}
  Startup = {i1}
  Reload = {i3}
  Controllers = {c1}
  Requests = {"stop", "restart"}
  LoopIdles = TRUE
  EarlyStop = TRUE
  IdleEarly = TRUE
  StartupSync = FALSE
  MaxRequests = 1
SPECIFICATION Spec
INVARIANTS AllStopped
CHECK_DEADLOCK FALSE
