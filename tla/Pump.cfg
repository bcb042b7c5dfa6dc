SPECIFICATION FairSpec
CONSTANTS
  MaxWrites = 4
  Units = 3
INVARIANTS TypeOK NothingSkipped
PROPERTIES ImplementsByteStream PumpEnds
CHECK_DEADLOCK FALSE
