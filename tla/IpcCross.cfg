\* A plugin configures another one, which calls the framework at the same time.
CONSTANTS
  p = p  q = q  hp = hp  hq = hq  ctl = ctl
  Plugins = {p, q}
  Callers = {hp, hq, ctl}
  Methods <- MCMethods
  Shutdown = {"shutdown"}
  Nested <- MCNested
  Asks <- MCCross
  MayStop = {}
  MaxCalls = 3
SPECIFICATION FairSpec
PROPERTIES CallsReturn
CHECK_DEADLOCK FALSE
