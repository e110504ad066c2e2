\* Two batches of two files, two account workers, one batch kept.
CONSTANTS
  Batches = {b1, b2}
  BatchSize = 2
  Workers = {w1, w2}
  MaxKept = 1
  None = None
SPECIFICATION Spec
SYMMETRY Interchangeable
INVARIANTS
  StartInOrder
  OneRowPerFile
  FinishedPollIsComplete
PROPERTIES
  FinalIsFinal
