\* One account: every combination of the inactive run and the screening's findings,
\* with and without a profile and the format retry, and every answer of every call.
SPECIFICATION FairSpec
CONSTANT
  Accounts <- SomeAccounts

INVARIANTS
  ClosedOnlyWhenWhole
  RetriedOnlyWhenUnfit
  TimingHonest

PROPERTY
  EveryAnalysisEnds
