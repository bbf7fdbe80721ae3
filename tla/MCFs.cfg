SPECIFICATION FairSpec
CONSTANTS
  Byte = {0, 1, 2}
  Contents <- MCContents
  MaxHandles = 2
  Missing = Missing
INVARIANTS
  TypeOK
  ReadIsWhole
  WriteIsTornAtMost
  StreamsAreAccounted
PROPERTIES
  EveryCallReturns
  ImplementsFileAccess
