SPECIFICATION FairSpec
CONSTANTS
  UnitCount = 2
  RunCount = 2
INVARIANTS TypeOK SentCallsAreCharged OneOpenCall CheckpointIsTrue OneUnitToRedo CompleteIsDurable
PROPERTIES NoSilentRetry CompletedIsReused RunsEnd
\* The last run ends and no further resume is modelled.
CHECK_DEADLOCK FALSE
