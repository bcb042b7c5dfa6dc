SPECIFICATION FairSpec
CONSTANTS
  MaxChunks = 2
  Units = 2
  NoFile = NoFile
PROPERTIES ErrorIsReported
CHECK_DEADLOCK FALSE
