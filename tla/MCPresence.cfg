SPECIFICATION FairSpec
CONSTANTS
  Size = 3
  PileOf <- MCPileOf
  OfflineLimit = 2
INVARIANT TypeOK
PROPERTIES AnsweringListed SilentNoticed
