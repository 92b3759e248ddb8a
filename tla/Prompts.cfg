SPECIFICATION Spec
CONSTANTS
  Null = Null
  Nested = Nested
  Letters <- MCLetters
  Characters <- MCCharacters
  Columns <- MCColumns
  Others <- MCOthers
  MaxMessage = 6
CONSTRAINT OtherMessages
CHECK_DEADLOCK FALSE
INVARIANTS
  ReadAsWritten
  FormComesBack
  EditWithoutChange
