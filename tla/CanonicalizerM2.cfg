\* Queues of two, in which an order exists, two workers of which any may fail
\* to start, and more requests than the pipeline can hold without workers.
SPECIFICATION Spec
CONSTANTS
  NumRequests = 4
  Worker = {w1, w2}
  Main = Main
  Responder = Responder
  QueueCapacity = 2
  MaxSpurious = 1
  None = None
INVARIANTS
  EachRequestInOnePlace
  SingleWorkerKeepsOrder
PROPERTY EveryRequestAnswered
\* Requests stop coming: main then blocks in conn.recv() for ever.
CHECK_DEADLOCK FALSE
