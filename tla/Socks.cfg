SPECIFICATION FairSpec
CONSTANTS
  Scripts <- MCScripts
  None = None
INVARIANTS TypeOK DestinationIsRequested PayloadIsWhole RepliesAreTrue
PROPERTIES HandshakeEnds
CHECK_DEADLOCK FALSE
