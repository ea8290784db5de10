CONSTANTS
  Workers = {w1, w2, w3}
  Clients = {c1, c2}
  Tasks = {t1, t2, t3}
  None = None
  QueueOwner = o
  Thieves = {p1, p2}
  StartingSize = 1
  IndexRange = 16
  MaxPushes = 3
  Fibers = {m, f1, f2, f3}
  Counters = {"mutex", "tasks"}
  FiberSlots = 2
  ValueRange = 16
  Main = m
  f1 = f1
  f2 = f2
  f3 = f3
  Behaviors <- MCBehaviors
  AbleToSpin = TRUE
  Iterations = 1
  MaxLocks = 1
SPECIFICATION ExecutorsSpec
INVARIANTS ExecutorsTypeOK EachTaskOnce NoLostWakeup DrainedAtEnd MutualExclusion CountersOutliveCalls
PROPERTIES PoolFinishes ImplementsDeque EveryFiberEnds
CHECK_DEADLOCK FALSE
