\* A plugin is started while the event loop goes through the plugins.
CONSTANTS
  p1 = p1  p2 = p2  topic = topic
  Plugins = {p1, p2}
  Topics = {topic}
  Star = Star
  Threads = {t1}
  Late = {p2}
  Stoppable = {}
  InitSubs <- MCSubs
  Resubscribe = {}
  NestedSync = FALSE
  MaxEvents = 1
  MaxRequeue = 0
SPECIFICATION FairSpec
PROPERTY SyncReturns
CHECK_DEADLOCK FALSE
