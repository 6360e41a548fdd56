------------------------------ MODULE RoomKeeper ------------------------------
(***************************************************************************)
(* The registry of the chat server: src/src/Main/server/RoomKeeper.cpp     *)
(* with the Room and User records it owns.                                 *)
(*                                                                         *)
(* Every operation runs to completion on the Worker thread, so each is one *)
(* atomic action.  A user's id is the id of its connection.  An assert()   *)
(* that fails ends the process: `failed' tells which kind, and no          *)
(* operation runs afterwards.                                              *)
(***************************************************************************)
EXTENDS Naturals, FiniteSets, Functions

CONSTANTS UserIds,      \* connection ids, which double as user ids
          UserNames,    \* names a user may log on with
          RoomNames,    \* names a room may be created with
          Passwords,    \* room passwords
          HALL_NAME,    \* the room every user enters at logon
          NoPasswd,     \* the empty password, the Hall's
          INVALID_ROOM_ID  \* what a client that has seen no room sends

ASSUME KeeperAssumption ==
  /\ UserIds \subseteq Nat
  /\ HALL_NAME \in RoomNames
  /\ INVALID_ROOM_ID \in Nat
  /\ NoPasswd \in Passwords

VARIABLES mIdUser,      \* user id   -> [name, roomId]
          mUserNames,   \* user name -> user id
          mIdRoom,      \* room id   -> [name, passwd, users]
          mRoomNames,   \* room name -> room id
          mRoomId,      \* the next room id
          failed        \* "none", or the kind of the assertion that failed

tables == <<mIdUser, mUserNames, mIdRoom, mRoomNames, mRoomId>>
keeperVars == <<mIdUser, mUserNames, mIdRoom, mRoomNames, mRoomId, failed>>

HALL_ID == 0
NewRoom(name, passwd) == [name |-> name, passwd |-> passwd, users |-> {}]

(* std::map: empty, insert of a key that is absent, and erase *)
EmptyMap == [x \in {} |-> x]
Put(f, x, v) == [y \in DOMAIN f \cup {x} |-> IF y = x THEN v ELSE f[y]]
Without(f, x) == Restrict(f, DOMAIN f \ {x})

(* Room::Add and Room::HandleUserLeave *)
AddUser(rooms, r, u) == [rooms EXCEPT ![r].users = @ \cup {u}]
HandleUserLeave(rooms, r, u) == [rooms EXCEPT ![r].users = @ \ {u}]

(* assert(P): `kind' tells what the assertion is about. *)
Asserts(P, kind) == failed' = IF P THEN failed ELSE kind

(* The asserts of GetRoomInfoMsg, which builds what PublishRoomInfo sends. *)
Publishable(rooms, users, roomId) ==
  /\ roomId \in DOMAIN rooms
  /\ rooms[roomId].users \subseteq DOMAIN users

-----------------------------------------------------------------------------
(* The constructor creates the Hall.                                       *)
Init ==
  /\ mIdUser = EmptyMap
  /\ mUserNames = EmptyMap
  /\ mIdRoom = [i \in {HALL_ID} |-> NewRoom(HALL_NAME, NoPasswd)]
  /\ mRoomNames = [n \in {HALL_NAME} |-> HALL_ID]
  /\ mRoomId = HALL_ID + 1
  /\ failed = "none"

(* The result of JoinRoom: its checks, in the order of the code.           *)
JoinErr(roomName, userId, passwd) ==
  IF roomName \notin DOMAIN mRoomNames THEN "room_not_exist"
  ELSE LET room == mIdRoom[mRoomNames[roomName]] IN
       IF room.passwd # passwd THEN "room_passwd_not_match"
       ELSE IF userId \in room.users THEN "user_already_in_this_room"
       ELSE "ok"

LogonErr_NameUnchecked(userId, name) ==     \* bug: the name is not looked up
  IF userId \in DOMAIN mIdUser THEN "user_name_alredy_logoned" ELSE "ok"

LogonErr(userId, name) ==
  IF userId \in DOMAIN mIdUser THEN "user_name_alredy_logoned"
  ELSE IF name \in DOMAIN mUserNames THEN "user_same_name_exist"
  ELSE "ok"

(* A new user enters the Hall; JoinRoom must not fail there.               *)
HandleLogon(userId, name) ==
  \/ /\ LogonErr(userId, name) = "ok"
     /\ LET hall == mRoomNames[HALL_NAME] IN
        /\ mIdUser' = Put(mIdUser, userId, [name |-> name, roomId |-> hall])
        /\ mUserNames' = Put(mUserNames, name, userId)
        /\ mIdRoom' = AddUser(mIdRoom, hall, userId)
        /\ Asserts(/\ JoinErr(HALL_NAME, userId, NoPasswd) = "ok"
                   /\ Publishable(mIdRoom', mIdUser', hall), "registry")
     /\ UNCHANGED <<mRoomNames, mRoomId>>
  \/ /\ LogonErr(userId, name) # "ok"
     /\ UNCHANGED keeperVars

CreateErr_Unchecked(name) == "ok"           \* bug: a taken name is accepted

CreateErr(name) ==
  IF name \in DOMAIN mRoomNames THEN "room_with_same_name_already_exists"
  ELSE "ok"

NextRoomId_Same == mRoomId                  \* bug: ++mRoomId forgotten

NextRoomId == mRoomId + 1

CreateRoom(name, passwd) ==
  \/ /\ CreateErr(name) = "ok"
     /\ mRoomNames' = Put(mRoomNames, name, mRoomId)
     /\ mIdRoom' = Put(mIdRoom, mRoomId, NewRoom(name, passwd))
     /\ mRoomId' = NextRoomId
     /\ UNCHANGED <<mIdUser, mUserNames, failed>>
  \/ /\ CreateErr(name) # "ok"
     /\ UNCHANGED keeperVars

HandleJoinErr(roomName, passwd, userId) ==
  IF userId \notin DOMAIN mIdUser THEN "user_not_exist"
  ELSE JoinErr(roomName, userId, passwd)

(* HandleJoinRoom finds the user's old room, and JoinRoom the named one.   *)
RoomsFound(roomName, userId) ==
  /\ userId \in DOMAIN mIdUser => mIdUser[userId].roomId \in DOMAIN mIdRoom
  /\ roomName \in DOMAIN mRoomNames => mRoomNames[roomName] \in DOMAIN mIdRoom

LeftRoom_AlwaysHall(userId) == HALL_ID      \* bug: as if everybody came from there

(* The room HandleJoinRoom leaves: LeaveRoom looks the old one up by name. *)
LeftRoom(userId) == mRoomNames[mIdRoom[mIdUser[userId].roomId].name]

(* Join the new room, then leave the old one; both are published.          *)
HandleJoinRoom(roomName, passwd, userId) ==
  \/ /\ HandleJoinErr(roomName, passwd, userId) = "ok"
     /\ LET new == mRoomNames[roomName]
            old == LeftRoom(userId) IN
        /\ mIdUser' = [mIdUser EXCEPT ![userId].roomId = new]
        /\ mIdRoom' = HandleUserLeave(AddUser(mIdRoom, new, userId), old, userId)
        /\ Asserts(/\ RoomsFound(roomName, userId)
                   /\ mIdRoom[mIdUser[userId].roomId].name \in DOMAIN mRoomNames
                   /\ Publishable(mIdRoom', mIdUser', new)
                   /\ Publishable(mIdRoom', mIdUser', old), "registry")
     /\ UNCHANGED <<mUserNames, mRoomNames, mRoomId>>
  \/ /\ HandleJoinErr(roomName, passwd, userId) # "ok"
     /\ Asserts(RoomsFound(roomName, userId), "registry")
     /\ UNCHANGED tables

HandleDrop_StaysMember(userId) ==           \* bug: the room is not told
  \/ /\ userId \in DOMAIN mIdUser
     /\ mUserNames' = Without(mUserNames, mIdUser[userId].name)
     /\ mIdUser' = Without(mIdUser, userId)
     /\ Asserts(Publishable(mIdRoom, mIdUser', mIdUser[userId].roomId), "registry")
     /\ UNCHANGED <<mIdRoom, mRoomNames, mRoomId>>
  \/ /\ userId \notin DOMAIN mIdUser
     /\ UNCHANGED keeperVars

HandleDrop(userId) ==
  \/ /\ userId \in DOMAIN mIdUser
     /\ LET user == mIdUser[userId] IN
        /\ mIdRoom' = HandleUserLeave(mIdRoom, user.roomId, userId)
        /\ mUserNames' = Without(mUserNames, user.name)
        /\ mIdUser' = Without(mIdUser, userId)
        /\ Asserts(Publishable(mIdRoom', mIdUser', user.roomId), "registry")
     /\ UNCHANGED <<mRoomNames, mRoomId>>
  \/ /\ userId \notin DOMAIN mIdUser
     /\ UNCHANGED keeperVars

(* Chat: the sender and the room id of the message must be known (the      *)
(* "lookup" assertions of GetUserById and GetRoomById), and so must every  *)
(* member of the room.                                                     *)
ChatLookups(roomId, userId) ==
  userId \in DOMAIN mIdUser /\ roomId \in DOMAIN mIdRoom

PublishRoomMessage(roomId, userId) ==
  \/ /\ ChatLookups(roomId, userId)
     /\ Asserts(Publishable(mIdRoom, mIdUser, roomId), "registry")
     /\ UNCHANGED tables
  \/ /\ ~ChatLookups(roomId, userId)
     /\ failed' = "lookup"
     /\ UNCHANGED tables

(* Whisper: GetUserById(sender) must succeed, then GetUserByName(target),   *)
(* which may find nobody.                                                  *)
GetUserByName(name) == {u \in DOMAIN mIdUser : /\ name \in DOMAIN mUserNames
                                               /\ mUserNames[name] = u}

GetUserById(userId) ==
  /\ Asserts(userId \in DOMAIN mIdUser, "lookup")
  /\ UNCHANGED tables

-----------------------------------------------------------------------------
Next ==
  /\ failed = "none"
  /\ \/ \E u \in UserIds, n \in UserNames : HandleLogon(u, n)
     \/ \E r \in RoomNames, p \in Passwords : CreateRoom(r, p)
     \/ \E r \in RoomNames, p \in Passwords, u \in UserIds :
          HandleJoinRoom(r, p, u)
     \/ \E u \in UserIds : HandleDrop(u)
     \/ \E r \in DOMAIN mIdRoom \cup {INVALID_ROOM_ID}, u \in UserIds :
          PublishRoomMessage(r, u)
     \/ \E u \in UserIds : GetUserById(u)

Spec == Init /\ [][Next]_keeperVars

-----------------------------------------------------------------------------
UserRecord == [name : UserNames, roomId : Nat]
RoomRecord == [name : RoomNames, passwd : Passwords, users : SUBSET UserIds]

(* Type correctness of the five tables and of the assertion flag. *)
TypeOK ==
  /\ DOMAIN mIdUser \subseteq UserIds
  /\ mIdUser \in [DOMAIN mIdUser -> UserRecord]
  /\ DOMAIN mUserNames \subseteq UserNames
  /\ mUserNames \in [DOMAIN mUserNames -> UserIds]
  /\ mRoomId \in Nat
  /\ DOMAIN mIdRoom = 0 .. (mRoomId - 1)
  /\ mIdRoom \in [DOMAIN mIdRoom -> RoomRecord]
  /\ DOMAIN mRoomNames \subseteq RoomNames
  /\ mRoomNames \in [DOMAIN mRoomNames -> Nat]
  /\ failed \in {"none", "registry", "lookup"}

(* The two user tables describe the same users: whoever is logged on owns  *)
(* its name, and every name in use belongs to a user who is logged on with *)
(* it (HandleLogon and HandleDrop update both tables).                     *)
NamesAgree ==
  /\ \A u \in DOMAIN mIdUser : /\ mIdUser[u].name \in DOMAIN mUserNames
                               /\ mUserNames[mIdUser[u].name] = u
  /\ \A n \in DOMAIN mUserNames : /\ mUserNames[n] \in DOMAIN mIdUser
                                  /\ mIdUser[mUserNames[n]].name = n

(* The two room tables are inverse to each other, and the Hall keeps its   *)
(* id and its empty password, so that a logon can always enter it.         *)
RoomsAgree ==
  /\ \A r \in DOMAIN mIdRoom : /\ mIdRoom[r].name \in DOMAIN mRoomNames
                               /\ mRoomNames[mIdRoom[r].name] = r
  /\ \A n \in DOMAIN mRoomNames : /\ mRoomNames[n] \in DOMAIN mIdRoom
                                  /\ mIdRoom[mRoomNames[n]].name = n
  /\ HALL_NAME \in DOMAIN mRoomNames
  /\ mIdRoom[mRoomNames[HALL_NAME]].passwd = NoPasswd

(* A user is a member of exactly the room its record names, that room      *)
(* exists, and only users who are logged on are members of a room: a join  *)
(* leaves the old room, a drop leaves no member behind.                    *)
OneRoomEach ==
  /\ \A u \in DOMAIN mIdUser : mIdUser[u].roomId \in DOMAIN mIdRoom
  /\ \A r \in DOMAIN mIdRoom, u \in UserIds :
       u \in mIdRoom[r].users <=> (u \in DOMAIN mIdUser /\ mIdUser[u].roomId = r)

(* None of the assertions about the registry's own tables ever fails: the  *)
(* Hall can be joined at logon, every room and every member that an        *)
(* operation looks up is there.                                            *)
RegistryAssertsHold == failed # "registry"

(* A room id a client has been told stays good: a room is never deleted,   *)
(* renamed or given another password, so a chat message that was in flight *)
(* while its sender moved still finds its room.                            *)
RoomsAreForever ==
  [][\A r \in DOMAIN mIdRoom :
       /\ r \in DOMAIN mIdRoom'
       /\ mIdRoom'[r].name = mIdRoom[r].name
       /\ mIdRoom'[r].passwd = mIdRoom[r].passwd]_keeperVars

===============================================================================
