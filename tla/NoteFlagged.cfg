\* The note for the timing check quotes the levels its findings are measured by.
CONSTANTS
  Months <- AroundNewYear
  Figures <- Edges
  ReviewMonths = 4
  MinZeroMonths = 1
  TimesUsual = 20
  MinAmount = 5
  MaxDifference = 150
  TimesUsualMonth = 20
  LongGap = 6000
  Dates = {1, 2}
  NoDate = NoDate
  Codes = {c1, c2}
  MaxVersions = 3
SPECIFICATION AccountFileSpec
CHECK_DEADLOCK FALSE
INVARIANTS
  NoteCanBeQuoted
