\* The inductive invariant of EventLockProofs, for one client.
CONSTANTS
  Clients = {c1}
  Names = {"a", "b"}
  Timeout = 2
  MaxEvents = 3
  Calls = 4
SPECIFICATION Spec
INVARIANT LockInv
CHECK_DEADLOCK FALSE
