\* A packet in two threads is routed while links of every priority are made and unmade.
CONSTANTS
  fwd = fwd  mon = mon  eth0 = eth0  eth1 = eth1
  Plugins = {fwd, mon, eth0}
  Interfaces = {eth0}
  Sources = {eth0}
  Queued = {mon}
  Drops = {}
  Routers = {fwd, mon}
  Routes <- MCBranchRoutes
  InitLinks <- MCBranches
  Commands = TRUE
  MaxPackets = 1
  MaxCommands = 1
SPECIFICATION Spec
INVARIANTS SelectedGetIt
CHECK_DEADLOCK FALSE
