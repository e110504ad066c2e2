\* Three submits, two workers and a queue shorter than what they submit.
CONSTANTS
  Jobs = {j1, j2, j3}
  Workers = {w1, w2}
  MaxSize = 1
  Stop = Stop
  Free = Free
SPECIFICATION FairSpec
INVARIANTS
  ActiveIsExact
  ServedOnce
  OnlyBlockedAtCloseStranded
  OneStopPerWorker
PROPERTIES
  KeepsPromise
  EverySubmitEnds
  CloseEnds
