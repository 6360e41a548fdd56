\* Two users log on, make a room, move and chat; when all is typed the system rests.
CONSTANTS
  Clients = {c1, c2}
  UserIds = {0, 1}
  UserNames = {n1, n2}
  RoomNames = {HALL, den}
  TypedRooms = {den}
  Passwords = {none, pw}
  HALL_NAME = HALL
  NoPasswd = none
  INVALID_ROOM_ID = 99
  MaxInputs = 3
  InputKinds = {"create", "join", "chat", "leave"}
  PatientUsers = TRUE
  SigPipeKills = FALSE
SPECIFICATION Spec
INVARIANTS TypeOK ViewsAreCurrent RoomListsAreCurrent ChatShownInItsRoom
SYMMETRY Symmetry
CHECK_DEADLOCK FALSE
