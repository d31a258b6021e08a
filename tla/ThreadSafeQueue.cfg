\* Four threads, two values, a queue of two: fills, drains, and both kinds
\* of waiting occur.
SPECIFICATION Spec
CONSTANTS
  Thread = {t1, t2, t3, t4}
  Value = {v1, v2}
  Capacity = 2
  NoThread = NoThread
SYMMETRY Symmetry
INVARIANTS
  MutualExclusion
  NoLostWakeup
PROPERTY ImplementsFifo
\* With the most general client every thread may end up waiting in dequeue.
CHECK_DEADLOCK FALSE
