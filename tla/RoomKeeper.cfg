\* Three connections, three names, the Hall and two rooms: collisions of names,
\* reuse of a name after a drop, moves between rooms with right and wrong
\* passwords.  An assertion that fails stops the server.
CONSTANTS
  UserIds = {0, 1, 2}
  UserNames = {n1, n2, n3}
  RoomNames = {HALL, den, attic}
  Passwords = {none, pw}
  HALL_NAME = HALL
  NoPasswd = none
  INVALID_ROOM_ID = 99
SPECIFICATION Spec
INVARIANTS TypeOK NamesAgree RoomsAgree OneRoomEach RegistryAssertsHold
PROPERTY RoomsAreForever
CHECK_DEADLOCK FALSE
