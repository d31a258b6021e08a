\* Batches and chunks of two, a queue that holds one and a half batches, and
\* every kind of fault, at most three faults in a behaviour.
SPECIFICATION Spec
CONSTANTS
  NumPages = 4
  BatchSize = 2
  ChunkSize = 2
  QueueSize = 3
  Enqueuer = Enqueuer
  Dequeuer = {d1, d2}
  Nothing = Nothing
  MaxFailures = 1
  MaxTimeouts = 1
  MaxSignals = 2
  MaxFaults = 3
INVARIANTS
  AtMostOnceInDumpOrder
  BoundedLoss
PROPERTIES
  PipelineDrains
\* Once every process has left after SIGINT nothing happens any more.
CHECK_DEADLOCK FALSE
