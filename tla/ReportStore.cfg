\* Two accounts that are analysed at the same time.
CONSTANTS
  Requests = {r1, r2}
  Names = {n1, n2}
  None = None
SPECIFICATION Spec
INVARIANTS
  PublishedIsWhole
  LinksLead
  PageMeansSaved
  LitterIsFromTrouble
