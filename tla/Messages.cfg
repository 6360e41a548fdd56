\* Every kind of message, around the size of a page.
CONSTANTS
  PageSize = 120
  HEAD_LENGTH = 8
  PointerSize = 8
  Strings <- MCStrings
  Rooms = {0, 1}
  Users = {1, 2}
  MaxListed = 2
SPECIFICATION Spec
INVARIANTS FitsUpToAPage ReadsWhatWasWritten
CHECK_DEADLOCK FALSE
