\* Three images, some of which may be in S3 already, two download threads and
\* room for one image between them and the upload thread.  The resizing: two
\* calls may fail, or the server stop.
SPECIFICATION SpecPrograms
CONSTANTS
  Url = {"a", "b", "c"}
  TupleLists <- MCTupleLists
  Downloader = {d1, d2}
  UploadLimit = 1
  None = None
  Name = {"a", "b", "c", "d"}
  SourceLists <- MCSourceLists
  Processed = {"c"}
  BatchSize = 2
  ChunkSize = 2
  ResizeWorker = {w1, w2}
  MaxFaults = 2
INVARIANTS
  EachImageOnce
  CountsAddUp
  UnitsAccounted
PROPERTY BouncerEnds
\* The resizing stops when producer and workers have ended.
CHECK_DEADLOCK FALSE
