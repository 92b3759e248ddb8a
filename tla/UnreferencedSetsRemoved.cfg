SPECIFICATION Spec
CONSTANTS
  Tags = {f1, f2, f3}
  Sets = {s1, s2}
  Threads = {t1}
  Housekeeper = hk
  NoTag = NoTag
  NoSet = NoSet
  Nobody = Nobody
  Duration = 1
  Audit = FALSE
SYMMETRY Symmetry
VIEW SeenState
CHECK_DEADLOCK FALSE
PROPERTY UnreferencedSetsRemoved
