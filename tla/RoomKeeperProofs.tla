--------------------------- MODULE RoomKeeperProofs ---------------------------
(***************************************************************************)
(* The registry's invariants hold for every set of connections, names,     *)
(* rooms and passwords.                                                    *)
(*                                                                         *)
(* IInv is inductive: no conjunct is on its own.  That an assertion about  *)
(* the tables holds in the next step needs the agreement of the tables,    *)
(* and a join keeps OneRoomEach only because LeaveRoom finds the old room  *)
(* by a name that belongs to no other room (RoomsAgree).                   *)
(***************************************************************************)
EXTENDS RoomKeeper, TLAPS

IInv == TypeOK /\ NamesAgree /\ RoomsAgree /\ OneRoomEach /\ RegistryAssertsHold

-----------------------------------------------------------------------------
(* What AddUser and HandleUserLeave do to a table of rooms.                *)
SameRooms(S, rooms, new) ==
  /\ new \in [S -> RoomRecord]
  /\ \A s \in S : new[s].name = rooms[s].name /\ new[s].passwd = rooms[s].passwd

LEMMA AddUserMap ==
  ASSUME NEW S, NEW rooms \in [S -> RoomRecord], NEW r \in S, NEW u \in UserIds
  PROVE  /\ SameRooms(S, rooms, AddUser(rooms, r, u))
         /\ \A s \in S : AddUser(rooms, r, u)[s].users =
                          IF s = r THEN rooms[s].users \cup {u} ELSE rooms[s].users
  BY DEF AddUser, RoomRecord, SameRooms

LEMMA LeaveMap ==
  ASSUME NEW S, NEW rooms \in [S -> RoomRecord], NEW r \in S, NEW u \in UserIds
  PROVE  /\ SameRooms(S, rooms, HandleUserLeave(rooms, r, u))
         /\ \A s \in S, v \in UserIds :
              v \in HandleUserLeave(rooms, r, u)[s].users
                <=> v \in rooms[s].users /\ (s = r => v # u)
  BY DEF HandleUserLeave, RoomRecord, SameRooms

(* A room whose members OneRoomEach describes can be published.            *)
LEMMA CanPublish ==
  ASSUME TypeOK, OneRoomEach, NEW r \in DOMAIN mIdRoom
  PROVE  Publishable(mIdRoom, mIdUser, r)
  BY DEF TypeOK, OneRoomEach, Publishable, RoomRecord

-----------------------------------------------------------------------------
LEMMA InitIInv == Init => IInv
  BY KeeperAssumption
     DEF Init, IInv, TypeOK, NamesAgree, RoomsAgree, OneRoomEach, RegistryAssertsHold,
         EmptyMap, NewRoom, HALL_ID, UserRecord, RoomRecord

(* A user is registered, with a name that was free, and enters the Hall.   *)
LEMMA LogonStep ==
  ASSUME IInv, NEW u \in UserIds, NEW n \in UserNames, HandleLogon(u, n)
  PROVE  IInv'
<1> DEFINE hall == mRoomNames[HALL_NAME]
<1> USE DEF IInv
<1>1. CASE LogonErr(u, n) # "ok"
  BY <1>1 DEF HandleLogon, keeperVars, TypeOK, NamesAgree, RoomsAgree, OneRoomEach,
     RegistryAssertsHold
<1>2. CASE LogonErr(u, n) = "ok"
  <2>1. u \notin DOMAIN mIdUser /\ n \notin DOMAIN mUserNames
    BY <1>2 DEF LogonErr
  <2>2. /\ mIdUser' = Put(mIdUser, u, [name |-> n, roomId |-> hall])
        /\ mUserNames' = Put(mUserNames, n, u)
        /\ mIdRoom' = AddUser(mIdRoom, hall, u)
        /\ Asserts(/\ JoinErr(HALL_NAME, u, NoPasswd) = "ok"
                   /\ Publishable(mIdRoom', mIdUser', hall), "registry")
        /\ UNCHANGED <<mRoomNames, mRoomId>>
    BY <1>2 DEF HandleLogon
  <2>3. hall \in DOMAIN mIdRoom /\ mIdRoom[hall].passwd = NoPasswd
    BY DEF RoomsAgree
  <2>4. u \notin mIdRoom[hall].users
    BY <2>1, <2>3 DEF OneRoomEach
  <2>5. JoinErr(HALL_NAME, u, NoPasswd) = "ok"
    BY <2>3, <2>4 DEF JoinErr, RoomsAgree
  <2>6. /\ DOMAIN mIdUser' = DOMAIN mIdUser \cup {u}
        /\ mIdUser'[u] = [name |-> n, roomId |-> hall]
        /\ \A y \in DOMAIN mIdUser : mIdUser'[y] = mIdUser[y]
        /\ mIdUser' = [y \in DOMAIN mIdUser' |-> mIdUser'[y]]
    BY <2>1, <2>2 DEF Put
  <2>7. /\ DOMAIN mUserNames' = DOMAIN mUserNames \cup {n}
        /\ mUserNames'[n] = u
        /\ \A y \in DOMAIN mUserNames : mUserNames'[y] = mUserNames[y]
        /\ mUserNames' = [y \in DOMAIN mUserNames' |-> mUserNames'[y]]
    BY <2>1, <2>2 DEF Put
  <2>8. /\ SameRooms(DOMAIN mIdRoom, mIdRoom, mIdRoom')
        /\ \A r \in DOMAIN mIdRoom :
             mIdRoom'[r].users = IF r = hall THEN mIdRoom[r].users \cup {u}
                                 ELSE mIdRoom[r].users
    <3>1. mIdRoom' = AddUser(mIdRoom, hall, u) /\ mIdRoom \in [DOMAIN mIdRoom -> RoomRecord]
      BY <2>2 DEF TypeOK
    <3> QED BY <3>1, <2>3, AddUserMap, SMTT(30)
  <2> HIDE DEF hall
  <2>9. TypeOK'
    BY <2>2, <2>3, <2>6, <2>7, <2>8 DEF TypeOK, UserRecord, Asserts, SameRooms
  <2>10. NamesAgree'
    BY <2>1, <2>6, <2>7 DEF NamesAgree
  <2>11. RoomsAgree'
    BY <2>2, <2>3, <2>8 DEF RoomsAgree, SameRooms, hall
  <2>12. OneRoomEach'
    <3>1. \A v \in DOMAIN mIdUser' : mIdUser'[v].roomId \in DOMAIN mIdRoom'
      BY <2>3, <2>6, <2>8 DEF OneRoomEach, SameRooms
    <3>2. ASSUME NEW r \in DOMAIN mIdRoom', NEW v \in UserIds
          PROVE  v \in mIdRoom'[r].users <=> (v \in DOMAIN mIdUser' /\ mIdUser'[v].roomId = r)
      <4>1. r \in DOMAIN mIdRoom
        BY <2>8 DEF SameRooms
      <4>2. v \in mIdRoom[r].users <=> (v \in DOMAIN mIdUser /\ mIdUser[v].roomId = r)
        BY <4>1 DEF OneRoomEach
      <4>3. CASE v = u
        <5>1. u \in DOMAIN mIdUser' /\ mIdUser'[u].roomId = hall
          BY <2>6
        <5>2. u \in mIdRoom'[r].users <=> r = hall
          BY <4>1, <4>2, <4>3, <2>1, <2>8
        <5> QED BY <4>3, <5>1, <5>2
      <4>4. CASE v # u
        <5>1. v \in mIdRoom'[r].users <=> v \in mIdRoom[r].users
          BY <4>1, <4>4, <2>8
        <5>2. v \in DOMAIN mIdUser' <=> v \in DOMAIN mIdUser
          BY <4>4, <2>6
        <5> QED BY <4>2, <5>1, <5>2, <2>6
      <4> QED BY <4>3, <4>4
    <3> QED BY <3>1, <3>2 DEF OneRoomEach
  <2>13. Publishable(mIdRoom', mIdUser', hall)
    <3>1. hall \in DOMAIN mIdRoom'
      BY <2>3, <2>8 DEF SameRooms
    <3> QED BY <3>1, <2>9, <2>12 DEF Publishable, OneRoomEach, TypeOK, RoomRecord
  <2>14. RegistryAssertsHold'
    BY <2>2, <2>5, <2>13 DEF Asserts, RegistryAssertsHold, hall
  <2> QED BY <2>9, <2>10, <2>11, <2>12, <2>14
<1> QED BY <1>1, <1>2

(* A new room gets the next id, which no room has.                         *)
LEMMA CreateStep ==
  ASSUME IInv, NEW n \in RoomNames, NEW p \in Passwords, CreateRoom(n, p)
  PROVE  IInv'
<1> USE DEF IInv
<1>1. CASE CreateErr(n) # "ok"
  BY <1>1 DEF CreateRoom, keeperVars, TypeOK, NamesAgree, RoomsAgree, OneRoomEach,
     RegistryAssertsHold
<1>2. CASE CreateErr(n) = "ok"
  <2>1. n \notin DOMAIN mRoomNames
    BY <1>2 DEF CreateErr
  <2>2. /\ mRoomNames' = Put(mRoomNames, n, mRoomId)
        /\ mIdRoom' = Put(mIdRoom, mRoomId, NewRoom(n, p))
        /\ mRoomId' = mRoomId + 1
        /\ UNCHANGED <<mIdUser, mUserNames, failed>>
    BY <1>2 DEF CreateRoom, NextRoomId
  <2>3. mRoomId \in Nat /\ DOMAIN mIdRoom = 0 .. (mRoomId - 1)
    BY DEF TypeOK
  <2>4. mRoomId \notin DOMAIN mIdRoom
    BY <2>3
  <2>5. /\ DOMAIN mRoomNames' = DOMAIN mRoomNames \cup {n}
        /\ mRoomNames'[n] = mRoomId
        /\ \A y \in DOMAIN mRoomNames : mRoomNames'[y] = mRoomNames[y]
        /\ mRoomNames' = [y \in DOMAIN mRoomNames' |-> mRoomNames'[y]]
    BY <2>1, <2>2 DEF Put
  <2>6. /\ DOMAIN mIdRoom' = DOMAIN mIdRoom \cup {mRoomId}
        /\ mIdRoom'[mRoomId] = NewRoom(n, p)
        /\ \A y \in DOMAIN mIdRoom : mIdRoom'[y] = mIdRoom[y]
        /\ mIdRoom' = [y \in DOMAIN mIdRoom' |-> mIdRoom'[y]]
    BY <2>2, <2>4 DEF Put
  <2>7. NewRoom(n, p) = [name |-> n, passwd |-> p, users |-> {}]
    BY DEF NewRoom
  <2>8. TypeOK'
    <3>1. DOMAIN mIdRoom' = 0 .. (mRoomId' - 1) /\ mRoomId' \in Nat
      BY <2>2, <2>3, <2>6
    <3>2. mIdRoom' \in [DOMAIN mIdRoom' -> RoomRecord]
      <4>1. \A y \in DOMAIN mIdRoom' : mIdRoom'[y] \in RoomRecord
        BY <2>6, <2>7 DEF TypeOK, RoomRecord
      <4> QED BY <4>1, <2>6
    <3>3. /\ DOMAIN mRoomNames' \subseteq RoomNames
          /\ mRoomNames' \in [DOMAIN mRoomNames' -> Nat]
      BY <2>3, <2>5 DEF TypeOK
    <3> QED BY <2>2, <3>1, <3>2, <3>3 DEF TypeOK
  <2>9. NamesAgree'
    BY <2>2 DEF NamesAgree
  <2>10. RoomsAgree'
    BY <2>1, <2>4, <2>5, <2>6, <2>7 DEF RoomsAgree
  <2>11. OneRoomEach'
    <3>1. \A u \in UserIds : u \in DOMAIN mIdUser => mIdUser[u].roomId # mRoomId
      BY <2>4 DEF OneRoomEach
    <3>2. \A u \in DOMAIN mIdUser' : mIdUser'[u].roomId \in DOMAIN mIdRoom'
      BY <2>2, <2>6 DEF OneRoomEach
    <3>3. ASSUME NEW r \in DOMAIN mIdRoom', NEW u \in UserIds
          PROVE  u \in mIdRoom'[r].users <=> (u \in DOMAIN mIdUser' /\ mIdUser'[u].roomId = r)
      <4>1. CASE r = mRoomId
        BY <4>1, <3>1, <2>2, <2>6, <2>7
      <4>2. CASE r # mRoomId
        BY <4>2, <2>2, <2>6 DEF OneRoomEach
      <4> QED BY <4>1, <4>2
    <3> QED BY <3>2, <3>3 DEF OneRoomEach
  <2> QED BY <2>2, <2>8, <2>9, <2>10, <2>11 DEF RegistryAssertsHold
<1> QED BY <1>1, <1>2

(* A user moves: it is added to the new room and taken out of the old one, *)
(* which LeaveRoom looks up by its name.                                   *)
LEMMA JoinStep ==
  ASSUME IInv, NEW n \in RoomNames, NEW p \in Passwords, NEW u \in UserIds,
         HandleJoinRoom(n, p, u)
  PROVE  IInv'
<1> USE DEF IInv
<1> DEFINE new == mRoomNames[n]
           old == mIdUser[u].roomId
<1>1. RoomsFound(n, u)
  BY DEF RoomsFound, OneRoomEach, RoomsAgree
<1>2. CASE HandleJoinErr(n, p, u) # "ok"
  <2>1. Asserts(RoomsFound(n, u), "registry") /\ UNCHANGED tables
    BY <1>2 DEF HandleJoinRoom
  <2>2. UNCHANGED keeperVars
    BY <1>1, <2>1 DEF Asserts, tables, keeperVars
  <2> QED BY <2>2 DEF keeperVars, TypeOK, NamesAgree, RoomsAgree, OneRoomEach,
       RegistryAssertsHold
<1>3. CASE HandleJoinErr(n, p, u) = "ok"
  <2>1. u \in DOMAIN mIdUser /\ JoinErr(n, u, p) = "ok"
    BY <1>3 DEF HandleJoinErr
  <2>2. n \in DOMAIN mRoomNames /\ u \notin mIdRoom[new].users
    BY <2>1 DEF JoinErr
  <2>3. /\ new \in DOMAIN mIdRoom
        /\ old \in DOMAIN mIdRoom
        /\ LeftRoom(u) = old
        /\ mIdRoom[old].name \in DOMAIN mRoomNames
    BY <2>1, <2>2 DEF RoomsAgree, OneRoomEach, LeftRoom
  <2>4. new # old
    BY <2>1, <2>2, <2>3 DEF OneRoomEach
  <2>5. /\ mIdUser' = [mIdUser EXCEPT ![u].roomId = new]
        /\ mIdRoom' = HandleUserLeave(AddUser(mIdRoom, new, u), old, u)
        /\ UNCHANGED <<mUserNames, mRoomNames, mRoomId>>
    BY <1>3, <2>3 DEF HandleJoinRoom
  <2>6. Asserts(/\ RoomsFound(n, u)
                /\ mIdRoom[old].name \in DOMAIN mRoomNames
                /\ Publishable(mIdRoom', mIdUser', new)
                /\ Publishable(mIdRoom', mIdUser', old), "registry")
    BY <1>3, <2>3 DEF HandleJoinRoom
  <2>7. /\ mIdUser' \in [DOMAIN mIdUser -> UserRecord]
        /\ \A v \in DOMAIN mIdUser :
             /\ mIdUser'[v].name = mIdUser[v].name
             /\ mIdUser'[v].roomId = IF v = u THEN new ELSE mIdUser[v].roomId
    BY <2>1, <2>2, <2>5 DEF TypeOK, UserRecord
  <2>8. /\ SameRooms(DOMAIN mIdRoom, mIdRoom, mIdRoom')
        /\ \A r \in DOMAIN mIdRoom, v \in UserIds :
             v \in mIdRoom'[r].users
               <=> IF v = u THEN r = new \/ (r # old /\ u \in mIdRoom[r].users)
                   ELSE v \in mIdRoom[r].users
    <3> HIDE DEF new, old
    <3>0. PICK mid : mid = AddUser(mIdRoom, new, u)
      OBVIOUS
    <3>1. mIdRoom \in [DOMAIN mIdRoom -> RoomRecord]
      BY DEF TypeOK
    <3>2. /\ SameRooms(DOMAIN mIdRoom, mIdRoom, mid)
          /\ \A r \in DOMAIN mIdRoom :
               mid[r].users = IF r = new THEN mIdRoom[r].users \cup {u}
                              ELSE mIdRoom[r].users
      BY <2>3, <3>0, <3>1, AddUserMap, SMTT(30)
    <3>3. mid \in [DOMAIN mIdRoom -> RoomRecord]
      BY <3>2 DEF SameRooms
    <3>4. mIdRoom' = HandleUserLeave(mid, old, u)
      BY <2>5, <3>0
    <3>5. /\ SameRooms(DOMAIN mIdRoom, mid, mIdRoom')
          /\ \A r \in DOMAIN mIdRoom, v \in UserIds :
               v \in mIdRoom'[r].users <=> v \in mid[r].users /\ (r = old => v # u)
      BY <2>3, <3>3, <3>4, LeaveMap
    <3>6. SameRooms(DOMAIN mIdRoom, mIdRoom, mIdRoom')
      BY <3>2, <3>5 DEF SameRooms
    <3> QED BY <2>4, <3>2, <3>5, <3>6
  <2> HIDE DEF new, old
  <2>9. TypeOK'
    <3>1. failed' \in {failed, "registry"}
      BY <2>6 DEF Asserts
    <3>2. DOMAIN mIdUser' = DOMAIN mIdUser /\ DOMAIN mIdRoom' = DOMAIN mIdRoom
      BY <2>7, <2>8 DEF SameRooms
    <3> QED BY <2>5, <2>7, <2>8, <3>1, <3>2 DEF TypeOK, SameRooms
  <2>10. NamesAgree'
    BY <2>5, <2>7 DEF NamesAgree
  <2>11. RoomsAgree'
    <3>1. DOMAIN mIdRoom' = DOMAIN mIdRoom
      BY <2>8 DEF SameRooms
    <3> QED BY <2>5, <2>8, <3>1 DEF RoomsAgree, SameRooms
  <2>12. OneRoomEach'
    <3>1. DOMAIN mIdUser' = DOMAIN mIdUser /\ DOMAIN mIdRoom' = DOMAIN mIdRoom
      BY <2>7, <2>8 DEF SameRooms
    <3>2. \A v \in DOMAIN mIdUser' : mIdUser'[v].roomId \in DOMAIN mIdRoom'
      BY <2>3, <2>7, <3>1 DEF OneRoomEach
    <3>3. ASSUME NEW r \in DOMAIN mIdRoom, NEW v \in UserIds
          PROVE  v \in mIdRoom'[r].users <=> (v \in DOMAIN mIdUser /\ mIdUser'[v].roomId = r)
      <4>1. v \in mIdRoom[r].users <=> (v \in DOMAIN mIdUser /\ mIdUser[v].roomId = r)
        BY DEF OneRoomEach
      <4>2. CASE v = u
        BY <4>1, <4>2, <2>1, <2>3, <2>4, <2>7, <2>8 DEF old
      <4>3. CASE v # u
        BY <4>1, <4>3, <2>7, <2>8
      <4> QED BY <4>2, <4>3
    <3> QED BY <3>1, <3>2, <3>3 DEF OneRoomEach
  <2>13. Publishable(mIdRoom', mIdUser', new) /\ Publishable(mIdRoom', mIdUser', old)
    <3>1. new \in DOMAIN mIdRoom' /\ old \in DOMAIN mIdRoom'
      BY <2>3, <2>8 DEF SameRooms
    <3> QED BY <3>1, <2>9, <2>12 DEF Publishable, OneRoomEach, TypeOK, RoomRecord
  <2>14. RegistryAssertsHold'
    BY <1>1, <2>3, <2>6, <2>13 DEF Asserts, RegistryAssertsHold
  <2> QED BY <2>9, <2>10, <2>11, <2>12, <2>14
<1> QED BY <1>2, <1>3

(* A user goes, with its name and its membership.                          *)
LEMMA DropStep ==
  ASSUME IInv, NEW u \in UserIds, HandleDrop(u)
  PROVE  IInv'
<1> USE DEF IInv
<1>1. CASE u \notin DOMAIN mIdUser
  BY <1>1 DEF HandleDrop, keeperVars, TypeOK, NamesAgree, RoomsAgree, OneRoomEach,
     RegistryAssertsHold
<1>2. CASE u \in DOMAIN mIdUser
  <2> DEFINE n == mIdUser[u].name
             old == mIdUser[u].roomId
  <2>1. /\ mIdRoom' = HandleUserLeave(mIdRoom, old, u)
        /\ mUserNames' = Without(mUserNames, n)
        /\ mIdUser' = Without(mIdUser, u)
        /\ Asserts(Publishable(mIdRoom', mIdUser', old), "registry")
        /\ UNCHANGED <<mRoomNames, mRoomId>>
    BY <1>2 DEF HandleDrop
  <2>2. old \in DOMAIN mIdRoom
    BY <1>2 DEF OneRoomEach
  <2>3. /\ DOMAIN mIdUser' = DOMAIN mIdUser \ {u}
        /\ \A v \in DOMAIN mIdUser' : mIdUser'[v] = mIdUser[v]
        /\ mIdUser' = [v \in DOMAIN mIdUser' |-> mIdUser'[v]]
    BY <2>1 DEF Without, Restrict
  <2>4. /\ DOMAIN mUserNames' = DOMAIN mUserNames \ {n}
        /\ \A m \in DOMAIN mUserNames' : mUserNames'[m] = mUserNames[m]
        /\ mUserNames' = [m \in DOMAIN mUserNames' |-> mUserNames'[m]]
    BY <2>1 DEF Without, Restrict
  <2>5. /\ SameRooms(DOMAIN mIdRoom, mIdRoom, mIdRoom')
        /\ \A r \in DOMAIN mIdRoom, v \in UserIds :
             v \in mIdRoom'[r].users <=> v \in mIdRoom[r].users /\ (r = old => v # u)
    <3>1. mIdRoom \in [DOMAIN mIdRoom -> RoomRecord]
      BY DEF TypeOK
    <3>2. mIdRoom' = HandleUserLeave(mIdRoom, old, u)
      BY <2>1
    <3> HIDE DEF old
    <3> QED BY <2>2, <3>1, <3>2, LeaveMap
  <2>6. DOMAIN mIdRoom' = DOMAIN mIdRoom
    BY <2>5 DEF SameRooms
  <2>7. TypeOK'
    <3>1. failed' \in {failed, "registry"}
      BY <2>1 DEF Asserts
    <3> QED BY <2>1, <2>3, <2>4, <2>5, <2>6, <3>1 DEF TypeOK, SameRooms
  <2>8. NamesAgree'
    BY <1>2, <2>3, <2>4 DEF NamesAgree
  <2>9. RoomsAgree'
    BY <2>1, <2>5, <2>6 DEF RoomsAgree, SameRooms
  <2>10. OneRoomEach'
    <3>1. \A v \in DOMAIN mIdUser' : mIdUser'[v].roomId \in DOMAIN mIdRoom'
      BY <2>3, <2>6 DEF OneRoomEach
    <3>2. ASSUME NEW r \in DOMAIN mIdRoom, NEW v \in UserIds
          PROVE  v \in mIdRoom'[r].users <=> (v \in DOMAIN mIdUser' /\ mIdUser'[v].roomId = r)
      <4>1. v \in mIdRoom[r].users <=> (v \in DOMAIN mIdUser /\ mIdUser[v].roomId = r)
        BY DEF OneRoomEach
      <4>2. CASE v = u
        BY <4>1, <4>2, <1>2, <2>3, <2>5
      <4>3. CASE v # u
        BY <4>1, <4>3, <2>3, <2>5
      <4> QED BY <4>2, <4>3
    <3> QED BY <2>6, <3>1, <3>2 DEF OneRoomEach
  <2>11. Publishable(mIdRoom', mIdUser', old)
    <3>1. old \in DOMAIN mIdRoom'
      BY <2>2, <2>6
    <3> QED BY <3>1, <2>7, <2>10 DEF Publishable, OneRoomEach, TypeOK, RoomRecord
  <2>12. RegistryAssertsHold'
    BY <2>1, <2>11 DEF Asserts, RegistryAssertsHold
  <2> QED BY <2>7, <2>8, <2>9, <2>10, <2>12
<1> QED BY <1>1, <1>2

(* A chat or a whisper writes no table; whichever of its lookups fails, no *)
(* room it could publish is in a bad state.                                *)
LEMMA MessageStep ==
  ASSUME IInv, NEW u \in UserIds,
         (\E r \in DOMAIN mIdRoom \cup {INVALID_ROOM_ID} : PublishRoomMessage(r, u))
           \/ GetUserById(u)
  PROVE  IInv'
<1> USE DEF IInv
<1>1. UNCHANGED tables /\ failed' \in {failed, "lookup"}
  <2>1. ASSUME NEW r \in DOMAIN mIdRoom \cup {INVALID_ROOM_ID}, PublishRoomMessage(r, u)
        PROVE  UNCHANGED tables /\ failed' \in {failed, "lookup"}
    <3>1. CASE ChatLookups(r, u)
      <4>1. Publishable(mIdRoom, mIdUser, r)
        BY <3>1, CanPublish DEF ChatLookups
      <4> QED BY <2>1, <3>1, <4>1 DEF PublishRoomMessage, Asserts
    <3>2. CASE ~ChatLookups(r, u)
      BY <2>1, <3>2 DEF PublishRoomMessage
    <3> QED BY <3>1, <3>2
  <2>2. ASSUME GetUserById(u)
        PROVE  UNCHANGED tables /\ failed' \in {failed, "lookup"}
    BY <2>2 DEF GetUserById, Asserts
  <2> QED BY <2>1, <2>2
<1>2. TypeOK'
  BY <1>1 DEF tables, TypeOK
<1>3. NamesAgree' /\ RoomsAgree' /\ OneRoomEach'
  BY <1>1 DEF tables, NamesAgree, RoomsAgree, OneRoomEach
<1>4. RegistryAssertsHold'
  BY <1>1 DEF RegistryAssertsHold
<1> QED BY <1>2, <1>3, <1>4

LEMMA StepIInv == IInv /\ [Next]_keeperVars => IInv'
<1> SUFFICES ASSUME IInv, [Next]_keeperVars
             PROVE  IInv'
  OBVIOUS
<1>1. ASSUME NEW u \in UserIds, NEW n \in UserNames, HandleLogon(u, n)
      PROVE  IInv'
  BY <1>1, LogonStep
<1>2. ASSUME NEW n \in RoomNames, NEW p \in Passwords, CreateRoom(n, p)
      PROVE  IInv'
  BY <1>2, CreateStep
<1>3. ASSUME NEW n \in RoomNames, NEW p \in Passwords, NEW u \in UserIds,
             HandleJoinRoom(n, p, u)
      PROVE  IInv'
  BY <1>3, JoinStep
<1>4. ASSUME NEW u \in UserIds, HandleDrop(u)
      PROVE  IInv'
  BY <1>4, DropStep
<1>5. ASSUME NEW u \in UserIds, NEW r \in DOMAIN mIdRoom \cup {INVALID_ROOM_ID},
             PublishRoomMessage(r, u)
      PROVE  IInv'
  BY <1>5, MessageStep
<1>6. ASSUME NEW u \in UserIds, GetUserById(u)
      PROVE  IInv'
  BY <1>6, MessageStep
<1>7. CASE UNCHANGED keeperVars
  BY <1>7 DEF IInv, keeperVars, TypeOK, NamesAgree, RoomsAgree, OneRoomEach,
     RegistryAssertsHold
<1> QED BY <1>1, <1>2, <1>3, <1>4, <1>5, <1>6, <1>7 DEF Next

(* The five invariants of the registry together, none of which is inductive *)
(* alone.                                                                   *)
THEOREM Inductive == Spec => []IInv
  BY InitIInv, StepIInv, PTL DEF Spec

-----------------------------------------------------------------------------
(* The tables keep their types. *)
THEOREM TypeCorrect == Spec => []TypeOK
<1>1. IInv => TypeOK
  BY DEF IInv
<1> QED BY <1>1, Inductive, PTL

(* The two user tables always describe the same users. *)
THEOREM NamesAlwaysAgree == Spec => []NamesAgree
<1>1. IInv => NamesAgree
  BY DEF IInv
<1> QED BY <1>1, Inductive, PTL

(* The two room tables are always inverse, and the Hall can be entered. *)
THEOREM RoomsAlwaysAgree == Spec => []RoomsAgree
<1>1. IInv => RoomsAgree
  BY DEF IInv
<1> QED BY <1>1, Inductive, PTL

(* Every user is a member of exactly the room its record names. *)
THEOREM AlwaysOneRoomEach == Spec => []OneRoomEach
<1>1. IInv => OneRoomEach
  BY DEF IInv
<1> QED BY <1>1, Inductive, PTL

(* No operation of the registry aborts on the registry's own tables. *)
THEOREM RegistryNeverAborts == Spec => []RegistryAssertsHold
<1>1. IInv => RegistryAssertsHold
  BY DEF IInv
<1> QED BY <1>1, Inductive, PTL

-----------------------------------------------------------------------------
(* One step of the registry leaves every room there is, with its name and  *)
(* its password.                                                           *)
RoomsStay ==
  \A r \in DOMAIN mIdRoom : /\ r \in DOMAIN mIdRoom'
                            /\ mIdRoom'[r].name = mIdRoom[r].name
                            /\ mIdRoom'[r].passwd = mIdRoom[r].passwd

LEMMA SameRoomsStay ==
  ASSUME SameRooms(DOMAIN mIdRoom, mIdRoom, mIdRoom')
  PROVE  RoomsStay
  BY DEF SameRooms, RoomsStay

LEMMA StepRoomsStay == IInv /\ [Next]_keeperVars => RoomsStay
<1> SUFFICES ASSUME IInv, [Next]_keeperVars
             PROVE  RoomsStay
  OBVIOUS
<1> USE DEF IInv
<1>0. mIdRoom \in [DOMAIN mIdRoom -> RoomRecord]
  BY DEF TypeOK
<1>1. ASSUME mIdRoom' = mIdRoom
      PROVE  RoomsStay
  BY <1>1 DEF RoomsStay
<1>2. ASSUME NEW u \in UserIds, NEW n \in UserNames, HandleLogon(u, n)
      PROVE  RoomsStay
  <2>1. CASE LogonErr(u, n) = "ok"
    <3>1. PICK hall : hall = mRoomNames[HALL_NAME]
      OBVIOUS
    <3>2. hall \in DOMAIN mIdRoom
      BY <3>1 DEF RoomsAgree
    <3>3. mIdRoom' = AddUser(mIdRoom, hall, u)
      BY <1>2, <2>1, <3>1 DEF HandleLogon
    <3>4. SameRooms(DOMAIN mIdRoom, mIdRoom, mIdRoom')
      BY <1>0, <3>2, <3>3, AddUserMap
    <3> QED BY <3>4, SameRoomsStay
  <2>2. CASE LogonErr(u, n) # "ok"
    BY <1>1, <1>2, <2>2 DEF HandleLogon, keeperVars
  <2> QED BY <2>1, <2>2
<1>3. ASSUME NEW n \in RoomNames, NEW p \in Passwords, CreateRoom(n, p)
      PROVE  RoomsStay
  <2>1. CASE CreateErr(n) = "ok"
    <3>1. mRoomId \notin DOMAIN mIdRoom
      BY DEF TypeOK
    <3>2. mIdRoom' = Put(mIdRoom, mRoomId, NewRoom(n, p))
      BY <1>3, <2>1 DEF CreateRoom
    <3> QED BY <3>1, <3>2 DEF Put, RoomsStay
  <2>2. CASE CreateErr(n) # "ok"
    BY <1>1, <1>3, <2>2 DEF CreateRoom, keeperVars
  <2> QED BY <2>1, <2>2
<1>4. ASSUME NEW n \in RoomNames, NEW p \in Passwords, NEW u \in UserIds,
             HandleJoinRoom(n, p, u)
      PROVE  RoomsStay
  <2>1. CASE HandleJoinErr(n, p, u) = "ok"
    <3>1. PICK new, old : new = mRoomNames[n] /\ old = LeftRoom(u)
      OBVIOUS
    <3>2. new \in DOMAIN mIdRoom /\ old \in DOMAIN mIdRoom
      BY <2>1, <3>1 DEF HandleJoinErr, JoinErr, LeftRoom, RoomsAgree, OneRoomEach
    <3>3. PICK mid : mid = AddUser(mIdRoom, new, u)
      OBVIOUS
    <3>4. SameRooms(DOMAIN mIdRoom, mIdRoom, mid)
      BY <1>0, <3>2, <3>3, AddUserMap
    <3>5. mid \in [DOMAIN mIdRoom -> RoomRecord]
      BY <3>4 DEF SameRooms
    <3>6. mIdRoom' = HandleUserLeave(mid, old, u)
      BY <1>4, <2>1, <3>1, <3>3 DEF HandleJoinRoom
    <3>7. SameRooms(DOMAIN mIdRoom, mid, mIdRoom')
      BY <3>2, <3>5, <3>6, LeaveMap
    <3>8. SameRooms(DOMAIN mIdRoom, mIdRoom, mIdRoom')
      BY <3>4, <3>7 DEF SameRooms
    <3> QED BY <3>8, SameRoomsStay
  <2>2. CASE HandleJoinErr(n, p, u) # "ok"
    BY <1>1, <1>4, <2>2 DEF HandleJoinRoom, tables
  <2> QED BY <2>1, <2>2
<1>5. ASSUME NEW u \in UserIds, HandleDrop(u)
      PROVE  RoomsStay
  <2>1. CASE u \in DOMAIN mIdUser
    <3>1. PICK old : old = mIdUser[u].roomId
      OBVIOUS
    <3>2. old \in DOMAIN mIdRoom
      BY <2>1, <3>1 DEF OneRoomEach
    <3>3. mIdRoom' = HandleUserLeave(mIdRoom, old, u)
      BY <1>5, <2>1, <3>1 DEF HandleDrop
    <3>4. SameRooms(DOMAIN mIdRoom, mIdRoom, mIdRoom')
      BY <1>0, <3>2, <3>3, LeaveMap
    <3> QED BY <3>4, SameRoomsStay
  <2>2. CASE u \notin DOMAIN mIdUser
    BY <1>1, <1>5, <2>2 DEF HandleDrop, keeperVars
  <2> QED BY <2>1, <2>2
<1>6. ASSUME NEW u \in UserIds, NEW r \in DOMAIN mIdRoom \cup {INVALID_ROOM_ID},
             PublishRoomMessage(r, u)
      PROVE  RoomsStay
  BY <1>1, <1>6 DEF PublishRoomMessage, tables
<1>7. ASSUME NEW u \in UserIds, GetUserById(u)
      PROVE  RoomsStay
  BY <1>1, <1>7 DEF GetUserById, tables
<1>8. CASE UNCHANGED keeperVars
  BY <1>1, <1>8 DEF keeperVars
<1> QED BY <1>2, <1>3, <1>4, <1>5, <1>6, <1>7, <1>8 DEF Next

(* A room, once made, is never deleted, renamed or given another password. *)
THEOREM RoomsStayForever == Spec => RoomsAreForever
<1>1. IInv /\ [Next]_keeperVars => [RoomsStay]_keeperVars
  BY StepRoomsStay
<1>2. Spec => [][RoomsStay]_keeperVars
  BY <1>1, Inductive, PTL DEF Spec
<1> QED BY <1>2 DEF RoomsAreForever, RoomsStay

===============================================================================
