\* Every answer of a few pieces, with the repairs, and any use of the stop sequence.
CONSTANTS
  Pieces <- Written
  MaxPieces = 5
  Settings <- AllSettings
SPECIFICATION AnswerSpec
CHECK_DEADLOCK FALSE
INVARIANTS
  NothingCutIsUsed
  FirstObjectIsKept
  NoValueHidden
