\* Two pages are enough.
CONSTANTS
  Total = 2
  MaxLoads = 2
SPECIFICATION Spec
INVARIANTS
  ReportIsOfItsPage
CHECK_DEADLOCK FALSE
