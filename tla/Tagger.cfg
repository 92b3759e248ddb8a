\* Two threads, two errors for twenty; one payload has all kinds of calls.
SPECIFICATION FairSpec
CONSTANTS
  Clients = {c1, c2}
  Domains = {d1}
  Payloads = {p1}
  Foreign = Foreign
  NoCall = NoCall
  Blank = Blank
  Ones = Ones
  Nothing = Nothing
  Nobody = Nobody
  MaxErrors = 2
CHECK_DEADLOCK FALSE
INVARIANT TypeOK
PROPERTIES
  Implements
  AnswerReachesCaller
  CallsReturn
