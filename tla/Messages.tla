-------------------------------- MODULE Messages --------------------------------
(***************************************************************************)
(* The messages of client and server (src/src/Main/struct/MsgType.hpp):    *)
(* what the one writes into a Msg and what the other reads from it.        *)
(*                                                                         *)
(* A message is composed field by field, gets its length, may be           *)
(* duplicated (for each user it is published to), is sent as the bytes of  *)
(* a frame, and is read field by field into the reader's variables.        *)
(***************************************************************************)
EXTENDS Msg, FiniteSets, SequencesExt

CONSTANTS Strings,    \* names, words and addresses; a character is a number
          Rooms,      \* room ids
          Users,      \* user ids
          MaxListed   \* bound: users of a room, rooms of a list

ASSUME MessagesAssumption ==
  /\ \A s \in Strings : s \in Seq(Nat)
  /\ Rooms \subseteq Nat /\ Users \subseteq Nat /\ MaxListed \in Nat

(* MsgType *)
c2s_logon == 1
s2c_logon_res == 2
s2c_room_info == 3
c2s_publish_chat_msg == 4
s2c_room_chat_msg == 5
c2s_create_room == 6
s2c_create_room_res == 7
s2c_room_list == 8
c2s_join_room == 9
s2c_join_room_res == 10
c2s_whisper_msg == 11
s2c_whisper_msg == 12
s2c_whisper_msg_failed == 13
local_list_room == 16
local_leave_room == 17
local_whisper_msg == 18

-----------------------------------------------------------------------------
(* The writers.                                                            *)

I32(v) == <<"int", v>>
Str(s) == <<"str", s>>
U16(v) == <<"u16", v>>
U32(v) == <<"u32", v>>
U64(v) == <<"u64", v>>

Lists(S) == UNION {[1 .. n -> S] : n \in 0 .. MaxListed}
Errs == {0, 1}
Texts(type) == {<<I32(type), Str(s), Str(t)>> : s, t \in Strings}
Results(type) == {<<I32(type), I32(err), Str(s), Str(t)>> : err \in Errs, s, t \in Strings}

(* A user at the port of its id. *)
EncodeUser(name, id, room) == <<Str(name), Str(<<>>), U16(id), U64(id), U32(room)>>

EncodeRoom(id, name, users) ==
  <<U32(id), Str(name), U32(Len(users))>> \o [i \in DOMAIN users |-> U64(users[i])]

Logons == {<<I32(c2s_logon), Str(name)>> : name \in Strings}

LogonResults ==
  {<<I32(s2c_logon_res), I32(0), Str(<<>>)>> \o EncodeUser(name, id, room) :
     name \in Strings, id \in Users, room \in Rooms}
  \cup {<<I32(s2c_logon_res), I32(1), Str(errstr)>> : errstr \in Strings}

(* GetRoomInfoMsg: the room, then its users. *)
RoomInfos ==
  {<<I32(s2c_room_info)>> \o EncodeRoom(room, name, users) \o <<U32(Len(users))>>
      \o FlattenSeq([i \in DOMAIN users |-> EncodeUser(name, users[i], room)]) :
     room \in Rooms, name \in Strings, users \in Lists(Users)}

(* PublishRoomList: rooms without users, for short. *)
RoomLists ==
  {<<I32(s2c_room_list), U32(Len(rooms))>>
      \o FlattenSeq([i \in DOMAIN rooms |-> EncodeRoom(rooms[i], name, <<CHOOSE u \in Users : TRUE>>)]) :
     name \in Strings, rooms \in Lists(Rooms)}

Publishes == {<<I32(c2s_publish_chat_msg), U32(room), Str(words)>> :
                room \in Rooms, words \in Strings}
RoomChats == Texts(s2c_room_chat_msg)
CreateRooms == Texts(c2s_create_room)
JoinRooms == Texts(c2s_join_room)
CreateResults == Results(s2c_create_room_res)
JoinResults == Results(s2c_join_room_res)
LocalWhispers == Texts(local_whisper_msg)
SentWhispers == Texts(c2s_whisper_msg)
PassedWhispers == Texts(s2c_whisper_msg)
FailedWhispers == Texts(s2c_whisper_msg_failed)
LocalCommands == {<<I32(local_list_room)>>, <<I32(local_leave_room)>>}

Contents ==
  UNION {Logons, LogonResults, RoomInfos, RoomLists, Publishes, RoomChats, CreateRooms,
         JoinRooms, CreateResults, JoinResults, LocalWhispers, SentWhispers,
         PassedWhispers, FailedWhispers, LocalCommands}

-----------------------------------------------------------------------------
(* The readers: fields, <<"times", fields>> for a count and as many        *)
(* repetitions, <<"okay", fields>> for what is read if err is 0.           *)

R(kind) == <<"read", kind>>

DecodeUser_Swapped ==               \* bug: reads the id before the port
  <<R("str"), R("str"), R("u64"), R("u16"), R("u32")>>

DecodeUser == <<R("str"), R("str"), R("u16"), R("u64"), R("u32")>>

DecodeRoom == <<R("u32"), R("str"), <<"times", <<R("u64")>>>>>>

Reader(type) ==
  CASE type = c2s_logon -> <<R("str")>>
    [] type = s2c_logon_res -> <<R("int"), R("str"), <<"okay", DecodeUser>>>>
    [] type = s2c_room_info -> DecodeRoom \o <<<<"times", DecodeUser>>>>
    [] type = s2c_room_list -> <<<<"times", DecodeRoom>>>>
    [] type = c2s_publish_chat_msg -> <<R("u32"), R("str")>>
    [] type \in {s2c_room_chat_msg, c2s_create_room, c2s_join_room, c2s_whisper_msg,
                 s2c_whisper_msg, s2c_whisper_msg_failed, local_whisper_msg} ->
         <<R("str"), R("str")>>
    [] type \in {s2c_create_room_res, s2c_join_room_res} -> <<R("int"), R("str"), R("str")>>
    [] OTHER -> <<>>

-----------------------------------------------------------------------------
VARIABLES pc,           \* what is being done with the message
          content,      \* history: the fields the writer means
          toWrite,      \* pieces not yet written
          msg,
          toRead,       \* what the reader has yet to read
          mReadOffset,
          got           \* the values read

vars == <<pc, content, toWrite, msg, toRead, mReadOffset, got>>
reading == <<toRead, mReadOffset, got>>

Init ==
  /\ pc = "idle" /\ content = <<>> /\ toWrite = <<>> /\ msg = NewMsg
  /\ toRead = <<>> /\ mReadOffset = 0 /\ got = <<>>

Composes ==
  /\ pc = "idle"
  /\ \E c \in Contents :
       /\ content' = c
       /\ toWrite' = FlattenSeq([i \in DOMAIN c |-> Pieces(c[i])])
  /\ msg' = NewMsg
  /\ pc' = "write"
  /\ UNCHANGED reading

Writes ==
  /\ pc = "write" /\ toWrite # <<>>
  /\ Holds(msg, Head(toWrite))
  /\ msg' = WriteByte(msg, Head(toWrite))
  /\ toWrite' = Tail(toWrite)
  /\ UNCHANGED <<pc, content, reading>>

(* memcpy past the end of the buffer: nothing can be said from here on.    *)
Overruns ==
  /\ pc = "write" /\ toWrite # <<>>
  /\ ~Holds(msg, Head(toWrite))
  /\ pc' = "overrun"
  /\ UNCHANGED <<content, toWrite, msg, reading>>

SetsLen ==
  /\ pc = "write" /\ toWrite = <<>>
  /\ msg' = SetLen(msg)
  /\ pc' = "ready"
  /\ UNCHANGED <<content, toWrite, reading>>

Local == content[1][2] \in {local_list_room, local_leave_room, local_whisper_msg}
Published == content[1][2] \in {s2c_room_info, s2c_room_list, s2c_room_chat_msg}

Dups ==
  /\ pc = "ready" /\ Published
  /\ msg' = Dup(msg)
  /\ pc' = "sent"
  /\ UNCHANGED <<content, toWrite, reading>>

(* A message for one is sent as it is. *)
Sends ==
  /\ pc = "ready" /\ ~Local /\ ~Published
  /\ pc' = "sent"
  /\ UNCHANGED <<content, toWrite, msg, reading>>

(* The receiver allocates what the head says and takes that much.          *)
Arrives ==
  /\ pc = "sent"
  /\ msg' = [NewMsgOf(msg.len) EXCEPT !.data = SubSeq(msg.data, 1, msg.len), !.len = msg.len]
  /\ pc' = "read"
  /\ toRead' = <<R("int")>>
  /\ UNCHANGED <<content, toWrite, mReadOffset, got>>

(* A local message reaches its reader as it is. *)
HandsOver ==
  /\ pc = "ready" /\ Local
  /\ pc' = "read"
  /\ toRead' = <<R("int")>>
  /\ UNCHANGED <<content, toWrite, msg, mReadOffset, got>>

Read(kind) == NumberAt(msg.data, mReadOffset, Width[kind])

ReadsNumber ==
  /\ pc = "read" /\ toRead # <<>> /\ Head(toRead)[1] = "read" /\ Head(toRead)[2] # "str"
  /\ LET kind == Head(toRead)[2] IN
       /\ got' = Append(got, <<kind, Read(kind)>>)
       /\ mReadOffset' = mReadOffset + Width[kind]
       /\ toRead' = IF got = <<>> THEN Reader(Read(kind)) ELSE Tail(toRead)
  /\ UNCHANGED <<pc, content, toWrite, msg>>

ReadsString ==
  /\ pc = "read" /\ toRead # <<>> /\ Head(toRead) = R("str")
  /\ LET len == Read("u64")    at == mReadOffset + Width["u64"] IN
       /\ got' = Append(got, Str(IF len \in 0 .. Len(msg.data) - at
                                 THEN [i \in 1 .. len |-> NumberAt(msg.data, at + i - 1, 1)]
                                 ELSE Unset))
       /\ mReadOffset' = at + len
  /\ toRead' = Tail(toRead)
  /\ UNCHANGED <<pc, content, toWrite, msg>>

ReadsTimes ==
  /\ pc = "read" /\ toRead # <<>> /\ Head(toRead)[1] = "times"
  /\ LET count == Read("u32") IN
       /\ got' = Append(got, U32(count))
       /\ toRead' = FlattenSeq([i \in 1 .. count |-> Head(toRead)[2]]) \o Tail(toRead)
  /\ mReadOffset' = mReadOffset + Width["u32"]
  /\ UNCHANGED <<pc, content, toWrite, msg>>

ReadsIfOkay ==
  /\ pc = "read" /\ toRead # <<>> /\ Head(toRead)[1] = "okay"
  /\ toRead' = (IF got[2] = I32(0) THEN Head(toRead)[2] ELSE <<>>) \o Tail(toRead)
  /\ UNCHANGED <<pc, content, toWrite, msg, mReadOffset, got>>

(* The reader deletes the message. *)
Deletes ==
  /\ pc = "read" /\ toRead = <<>>
  /\ pc' = "idle"
  /\ content' = <<>> /\ msg' = NewMsg /\ mReadOffset' = 0 /\ got' = <<>>
  /\ UNCHANGED <<toWrite, toRead>>

Next ==
  \/ Composes \/ Writes \/ Overruns \/ SetsLen \/ Dups \/ Sends \/ Arrives \/ HandsOver
  \/ ReadsNumber \/ ReadsString \/ ReadsTimes \/ ReadsIfOkay \/ Deletes

Spec == Init /\ [][Next]_vars

-----------------------------------------------------------------------------
(* A message that fits a page is written without an overrun, however it is *)
(* made up of fields and whatever Reverse does, and its head and data fit  *)
(* what is allocated for a duplicate and for what is received, too.        *)
FitsUpToAPage ==
  /\ pc = "overrun" => HEAD_LENGTH + Len(msg.data) + Len(Head(toWrite)) > PageSize
  /\ HEAD_LENGTH + Len(msg.data) <= msg.allocated

(* Every reader takes the fields its writers wrote, each as it was written *)
(* and nothing else, at every moment, and at its end has read all of them, *)
(* up to the end of the data that the number in the head has announced.    *)
ReadsWhatWasWritten ==
  /\ IsPrefix(got, content)
  /\ pc = "read" /\ toRead = <<>> =>
       got = content /\ mReadOffset = Len(msg.data) /\ msg.len = Len(msg.data)

===============================================================================
