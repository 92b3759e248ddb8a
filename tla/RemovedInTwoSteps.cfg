SPECIFICATION Spec
CONSTANTS
  Keys = {k1, k2}
  Threads = {t1}
  Housekeeper = hk
  NoKey = NoKey
  Nobody = Nobody
  Timeout = 1
  Requests = {"login", "login_other", "validate", "logout", "page"}
PROPERTY RemovedInTwoSteps
