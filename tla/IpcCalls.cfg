\* Handlers call the framework, which configures a plugin; a controller calls both
\* and may stop one; loops end when they were told to.
CONSTANTS
  p = p  q = q  hp = hp  hq = hq  ctl = ctl
  Plugins = {p, q}
  Callers = {hp, hq, ctl}
  Methods <- MCMethods
  Shutdown = {"shutdown"}
  Nested <- MCNested
  Asks <- MCOneWay
  MayStop = {"framework"}
  MaxCalls = 3
SPECIFICATION FairSpec
INVARIANTS OwnAnswer
PROPERTIES CallsReturn
CHECK_DEADLOCK FALSE
