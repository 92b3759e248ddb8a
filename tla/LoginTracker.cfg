\* Blocked by the second failure, for two seconds, with room for a third.
SPECIFICATION FairSpec
CONSTANTS
  Hosts = {h1, h2}
  MaxFailed = 1
  BlockTimeout = 2
  MaxAttempts = 3
INVARIANT TypeOK
PROPERTIES
  Implements
  BlockEnds
