\* Two requests and the housekeeper on two sessions.  A timeout of 0 keeps both
\* comparisons of ages (one second is past either); MCSessions keeps the rest.
SPECIFICATION Spec
CONSTANTS
  Keys = {k1, k2}
  Threads = {t1, t2}
  Housekeeper = hk
  NoKey = NoKey
  Nobody = Nobody
  Timeout = 0
  Requests = {"validate", "logout", "page"}
SYMMETRY Symmetry
VIEW SeenState
INVARIANTS
  TypeOK
  MutexProtectsSession
  HkClosesOnlyIdle
PROPERTY FinishedSessionStays
