\* Every short line, and three lines of each kind one after the other.
CONSTANTS
  MinLength = 2
  MaxLength = 2
  RoomWord <- MCRoomWord
  Lines <- MCLines
  FewLines <- MCFewLines
  Behind <- MCBehind
  MaxLines = 3
SPECIFICATION FairSpec
INVARIANTS ParsedAsMeant SentAsMeant OvertakesOnlyDetours
PROPERTIES QuitsFromHall LinesSettle
CHECK_DEADLOCK FALSE
