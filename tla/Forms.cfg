\* Two requests against each other and the housekeeper.
SPECIFICATION Spec
CONSTANTS
  Tags = {f1, f2}
  Sets = {s1, s2}
  Threads = {t1, t2}
  Housekeeper = hk
  NoTag = NoTag
  NoSet = NoSet
  Nobody = Nobody
  Duration = 1
  Audit = FALSE
SYMMETRY Symmetry
VIEW SeenState
CHECK_DEADLOCK FALSE
INVARIANTS
  TypeOK
  NoDanglingSet
PROPERTY UsedFormStaysUsed
