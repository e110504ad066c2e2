\* A batch of one file and one upload, each with two parallel calls, compete for one
\* LLM worker and one slot, until the server stops.
CONSTANTS
  Batches = {b1}
  BatchSize = 1
  AccountWorkers = {w1}
  MaxKept = 1
  None = None
  LlmWorkers = {l1}
  MaxSize = 1
  Stop = Stop
  Free = Free
  Uploads = {u1}
  Pattern = {p1, p2}
  Retried = {"summary"}
SPECIFICATION FairSpec
INVARIANTS
  NobodyStranded
  NoneRefusedByShutdown
  ClientClosedLast
PROPERTIES
  FilesRecorded
  ShutdownEnds
