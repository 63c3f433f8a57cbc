\* One client at a time uses lock, unlock and wait.
CONSTANTS
  Clients = {c1}
  Names = {"a", "b"}
  Timeout = 2
  MaxEvents = 3
  Calls = 4
SPECIFICATION FairSpec
INVARIANTS OneHandler WaitGetsName
PROPERTIES LockGranted Handled
CHECK_DEADLOCK FALSE
