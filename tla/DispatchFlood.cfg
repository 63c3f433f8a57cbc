\* Every graph of priority-0 links between two interfaces and two plugins, one of
\* which has a queue.
CONSTANTS
  fwd = fwd  mon = mon  eth0 = eth0  eth1 = eth1
  Plugins = {fwd, mon, eth0, eth1}
  Interfaces = {eth0, eth1}
  Sources = {eth0}
  Queued = {mon}
  Drops = {}
  Routers = {}
  Routes = {{}}
  InitLinks <- MCAllGraphs
  Commands = FALSE
  MaxPackets = 1
  MaxCommands = 0
SPECIFICATION FairSpec
INVARIANTS Flooded
PROPERTIES TrafficSettles
CHECK_DEADLOCK FALSE
