SPECIFICATION FairSpec
CONSTANTS
  MaxChunks = 4
  Units = 3
  NoFile = NoFile
INVARIANTS TypeOK CompleteIsWhole CompleteLeavesNothing NothingSkipped
PROPERTIES ImplementsByteStream ReaderEnds
CHECK_DEADLOCK FALSE
