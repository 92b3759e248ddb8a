\* One request at a time against the housekeeper, with the
\* timeout and twice the timeout apart.
SPECIFICATION FairSpec
CONSTANTS
  Keys = {k1, k2}
  Threads = {t1}
  Housekeeper = hk
  NoKey = NoKey
  Nobody = Nobody
  Timeout = 1
  Requests = {"login", "validate", "page"}
PROPERTY AbandonedRemoved
