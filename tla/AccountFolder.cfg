\* One file besides customer_info and the list, two requests that ask again and again.
CONSTANTS
  Files = {f1}
  CustomerInfo = CustomerInfo
  Occupations = Occupations
  Requests = {r1, r2}
  MaxChanges = 2
  None = None
SPECIFICATION FairSpec
INVARIANTS
  FreshScan
  UnchangedScannedOnce
PROPERTIES
  EveryRequestEnds
