\* Plugins are started, stopped and resubscribed while events are handled.
CONSTANTS
  p1 = p1  p2 = p2  topic = topic
  Plugins = {p1, p2}
  Topics = {}
  Star = Star
  Threads = {t1}
  Late = {p2}
  Stoppable = {p2}
  InitSubs <- MCOrderSubs
  Resubscribe = {p1}
  NestedSync = FALSE
  MaxEvents = 2
  MaxRequeue = 0
SPECIFICATION Spec
INVARIANTS BusInv HandledInOrder
PROPERTIES SyncBarrier
CHECK_DEADLOCK FALSE
