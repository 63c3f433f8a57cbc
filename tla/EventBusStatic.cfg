\* A fixed set of plugins: handlers emit and pass events on, other threads emit
\* synchronous and asynchronous events.
CONSTANTS
  p1 = p1  p2 = p2  topic = topic
  Plugins = {p1, p2}
  Topics = {topic}
  Star = Star
  Threads = {t1}
  Late = {}
  Stoppable = {}
  InitSubs <- MCSubs
  Resubscribe = {}
  NestedSync = FALSE
  MaxEvents = 2
  MaxRequeue = 1
SPECIFICATION FairSpec
INVARIANTS DeliverOnce
PROPERTIES SyncReturns EverythingHandled
CHECK_DEADLOCK FALSE
