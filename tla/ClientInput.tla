------------------------------ MODULE ClientInput ------------------------------
(***************************************************************************)
(* What becomes of the lines the user types (CRClient::HandleInput, on the *)
(* main thread, and CRClient::RecvMessage, on the CRClient's).             *)
(*                                                                         *)
(* A line that HandleInput sends goes through the NetService to the        *)
(* server; a local command goes through the NetService to the CRClient's   *)
(* thread, which may send a message of its own: it comes later than what   *)
(* was sent at once.  Both threads use mCurrentRoom and mCdkRunning        *)
(* without a lock.  LogicService shows that a service's queue is first in, *)
(* first out; here it is one sequence.  What the server does to the room   *)
(* of this user is in RoomKeeper; here it accepts a join or refuses it.    *)
(***************************************************************************)
EXTENDS InputParser, FiniteSets, SequencesExt

CONSTANTS Lines,       \* what the user may type first
          FewLines,    \* ... and go on with, having typed only such lines
          Behind,      \* what may follow a line in memory
          MaxLines     \* bound: lines typed

ASSUME ClientInputAssumption ==
  FewLines \subseteq Lines /\ MaxLines \in Nat \ {0}

\* A line is a C string: what the entry returns ends at its first NUL.
ASSUME TextsAssumption ==
  /\ \A line \in Lines : line \in Seq(Range(line)) /\ NUL \notin Range(line)
  /\ \A behind \in Behind : behind \in Seq(Range(behind))

\* The Hall's password is empty, so no /j can ask for it with success.
HALL == <<"HALL">>
NoRoom == <<>>

VARIABLES mPc,           \* main: in the entry ("prompt"), in HandleInput, or gone
          cmd,           \* what the line was parsed to
          typed,         \* history: the lines
          chat,          \* the message of a chat that is being sent, or <<>>
          mCdkRunning,
          mCurrentRoom,  \* id and name; a room stands for its id and for its name
          cPc,           \* CRClient's thread: "idle" or in Room::Decode
          net, cr,       \* queues of the NetService and of the CRClient
          toServer, toClient,
          arrived,       \* history: what the server has taken
          served,        \* history: the local commands CRClient has processed
          sRoom          \* the user's room at the server

main == <<mPc, cmd, typed, chat>>
client == <<mCdkRunning, mCurrentRoom, cPc>>
queues == <<net, cr>>
server == <<toServer, toClient, arrived, sRoom>>
vars == <<main, client, queues, server, served>>

(* A context; "of" is the number of the line it comes from, 0 for none. *)
Ctx(op, msg, of) == [op |-> op, msg |-> msg, of |-> of]
RoomInfo(room) == Ctx("OP_RECV", <<"s2c_room_info", room>>, 0)

(* The user has logged on, and the server has put them into the Hall. *)
Init ==
  /\ mPc = "prompt" /\ cmd = Refused("null") /\ typed = <<>> /\ chat = <<>>
  /\ mCdkRunning = TRUE /\ mCurrentRoom = [id |-> NoRoom, name |-> NoRoom] /\ cPc = "idle"
  /\ net = <<>> /\ cr = <<>>
  /\ toServer = <<>> /\ toClient = <<RoomInfo(HALL)>> /\ arrived = <<>>
  /\ served = {}
  /\ sRoom = HALL

-----------------------------------------------------------------------------
(* Main: Layout::Start and HandleInput.                                    *)

Types ==
  /\ mPc = "prompt"
  /\ Len(typed) < MaxLines
  /\ \E line \in (IF typed = <<>> THEN Lines ELSE FewLines), behind \in Behind :
       /\ typed # <<>> => Range(typed) \subseteq FewLines
       /\ typed' = Append(typed, line)
       /\ cmd' = ParseInput(line, behind)
  /\ mPc' = "handle"
  /\ UNCHANGED <<chat, client, queues, server, served>>

Handles == mPc = "handle"
Returns == mPc' = "test" /\ cmd' = Refused("null") /\ UNCHANGED typed
This == Len(typed)

Shows ==                                    \* an invalid command, or the help
  /\ Handles /\ cmd.parsed /\ (cmd.mInvalid \/ cmd.type = "help")
  /\ Returns
  /\ UNCHANGED <<chat, client, queues, server, served>>

(* mCurrentRoom.GetName(), read while the other thread may be assigning to *)
(* the string: either answer then, or a crash.                             *)
ReadsHall == mCurrentRoom.name = HALL \/ cPc = "decoding"
ReadsRoom == mCurrentRoom.name # HALL \/ cPc = "decoding"

EndsProgram_Anywhere ==             \* bug: /q ends the program in any room
  /\ Handles /\ cmd.type \in {"exit", "leave_room"}
  /\ mCdkRunning' = FALSE
  /\ Returns
  /\ UNCHANGED <<chat, mCurrentRoom, cPc, queues, server, served>>

EndsProgram ==
  /\ Handles
  /\ cmd.type = "exit" \/ (cmd.type = "leave_room" /\ cmd.parsed /\ ReadsHall)
  /\ mCdkRunning' = FALSE
  /\ Returns
  /\ UNCHANGED <<chat, mCurrentRoom, cPc, queues, server, served>>

CrashesReading ==
  /\ Handles /\ cmd.type = "leave_room" /\ cPc = "decoding"
  /\ mPc' = "crashed"
  /\ UNCHANGED <<cmd, typed, chat, client, queues, server, served>>

EnqueuesLocal ==
  /\ Handles /\ cmd.parsed /\ ~cmd.mInvalid /\ cmd.mLocalCmd
  /\ cmd.type \notin {"exit", "help"}
  /\ cmd.type = "leave_room" => ReadsRoom
  /\ net' = Append(net, Ctx("OP_RECV", cmd.msg, This))
  /\ Returns
  /\ UNCHANGED <<chat, client, cr, server, served>>

SendsRemote ==
  /\ Handles /\ cmd.parsed /\ ~cmd.mInvalid /\ ~cmd.mLocalCmd
  /\ net' = Append(net, Ctx("OP_SEND", cmd.msg, This))
  /\ Returns
  /\ UNCHANGED <<chat, client, cr, server, served>>

(* A chat: the room's id is read and the message written, ... *)
WritesChat ==
  /\ Handles /\ ~cmd.parsed
  /\ chat' = <<"c2s_publish_chat_msg", mCurrentRoom.id, Last(typed)>>
  /\ mPc' = "send"
  /\ UNCHANGED <<cmd, typed, client, queues, server, served>>

(* ... and it is enqueued. *)
SendsChat ==
  /\ mPc = "send"
  /\ net' = Append(net, Ctx("OP_SEND", chat, This))
  /\ chat' = <<>>
  /\ Returns
  /\ UNCHANGED <<client, cr, server, served>>

(* The loop's condition.  Main is already in the entry when CRClient's     *)
(* thread ends the loop: one more line is handled then.                    *)
TestsCdkRunning ==
  /\ mPc = "test"
  /\ mPc' = IF mCdkRunning THEN "prompt" ELSE "left"
  /\ UNCHANGED <<cmd, typed, chat, client, queues, server, served>>

MainStep ==
  \/ Shows \/ EndsProgram \/ CrashesReading \/ EnqueuesLocal \/ SendsRemote
  \/ WritesChat \/ SendsChat \/ TestsCdkRunning

-----------------------------------------------------------------------------
(* The NetService: forwards to the CRClient or sends to the server.        *)

NetForwards ==
  /\ net # <<>> /\ Head(net).op = "OP_RECV"
  /\ net' = Tail(net)
  /\ cr' = Append(cr, Head(net))
  /\ UNCHANGED <<main, client, server, served>>

NetSends ==
  /\ net # <<>> /\ Head(net).op = "OP_SEND"
  /\ net' = Tail(net)
  /\ toServer' = Append(toServer, Head(net))
  /\ UNCHANGED <<main, client, cr, toClient, arrived, sRoom, served>>

NetReceives ==
  /\ toClient # <<>>
  /\ net' = Append(net, Head(toClient))
  /\ toClient' = Tail(toClient)
  /\ UNCHANGED <<main, client, cr, toServer, arrived, sRoom, served>>

NetStep == NetForwards \/ NetSends \/ NetReceives

-----------------------------------------------------------------------------
(* The CRClient's thread: RecvMessage.                                     *)

Receives(type) == cPc = "idle" /\ cr # <<>> /\ Head(cr).msg[1] = type
Serves == cr' = Tail(cr) /\ served' = served \cup {Head(cr).of}

(* Room::Decode sets the id, ... *)
DecodesId ==
  /\ Receives("s2c_room_info")
  /\ mCurrentRoom' = [mCurrentRoom EXCEPT !.id = Head(cr).msg[2]]
  /\ cPc' = "decoding"
  /\ UNCHANGED <<main, mCdkRunning, queues, server, served>>

(* ... then the name. *)
DecodesName ==
  /\ cPc = "decoding"
  /\ mCurrentRoom' = [mCurrentRoom EXCEPT !.name = Head(cr).msg[2]]
  /\ cPc' = "idle"
  /\ cr' = Tail(cr)
  /\ UNCHANGED <<main, mCdkRunning, net, server, served>>

ShowsRoomList ==
  /\ Receives("local_list_room")
  /\ Serves
  /\ UNCHANGED <<main, client, net, server>>

SendsWhisper_Direct ==              \* bug: written to the socket at once
  /\ Receives("local_whisper_msg")
  /\ Serves
  /\ toServer' = Append(toServer, [Head(cr) EXCEPT !.op = "OP_SEND",
                                                   !.msg[1] = "c2s_whisper_msg"])
  /\ UNCHANGED <<main, client, net, toClient, arrived, sRoom>>

SendsWhisper ==
  /\ Receives("local_whisper_msg")
  /\ Serves
  /\ net' = Append(net, [Head(cr) EXCEPT !.op = "OP_SEND", !.msg[1] = "c2s_whisper_msg"])
  /\ UNCHANGED <<main, client, server>>

LeavesHall ==
  /\ Receives("local_leave_room") /\ mCurrentRoom.name = HALL
  /\ Serves
  /\ mCdkRunning' = FALSE
  /\ UNCHANGED <<main, mCurrentRoom, cPc, net, server>>

JoinsHall_Unsent ==                 \* bug: SendMessage(msg) forgotten
  /\ Receives("local_leave_room") /\ mCurrentRoom.name # HALL
  /\ Serves
  /\ UNCHANGED <<main, client, net, server>>

JoinsHall ==
  /\ Receives("local_leave_room") /\ mCurrentRoom.name # HALL
  /\ Serves
  /\ net' = Append(net, Ctx("OP_SEND", <<"c2s_join_room", HALL, <<>> >>, Head(cr).of))
  /\ UNCHANGED <<main, client, server>>

ClientStep ==
  DecodesId \/ DecodesName \/ ShowsRoomList \/ SendsWhisper \/ LeavesHall \/ JoinsHall

-----------------------------------------------------------------------------
(* The server.                                                             *)

(* PublishRoomMessage looks up the room of a chat, and its assertion fails *)
(* for one written before the first room had come: the server ends with    *)
(* it, and takes nothing more.                                             *)
ServerUp == \A c \in Range(arrived) :
  ~(c.msg[1] = "c2s_publish_chat_msg" /\ c.msg[2] = NoRoom)

Takes ==
  /\ ServerUp
  /\ toServer # <<>>
  /\ toServer' = Tail(toServer)
  /\ arrived' = Append(arrived, Head(toServer))

Asks(room) == /\ toServer # <<>>
              /\ Head(toServer).msg[1] = "c2s_join_room" /\ Head(toServer).msg[2] = room

(* The join succeeds and the user is sent the new room, ... *)
ServerMoves ==
  /\ Takes
  /\ \E room \in {Head(toServer).msg[2]} \ {sRoom} :
       /\ Asks(room)
       /\ sRoom' = room
       /\ toClient' = Append(toClient, RoomInfo(room))
  /\ UNCHANGED <<main, client, queues, served>>

(* ... or it is refused: no such room, another password, the user's own    *)
(* room; the Hall lets everybody in.  No other message moves the user.     *)
ServerStays ==
  /\ Takes
  /\ Asks(HALL) => sRoom = HALL
  /\ UNCHANGED <<main, client, queues, toClient, sRoom, served>>

ServerStep == ServerMoves \/ ServerStays

Next == mPc # "crashed" /\ (Types \/ MainStep \/ NetStep \/ ClientStep \/ ServerStep)

Spec == Init /\ [][Next]_vars

(* The threads go on while they can, the server until an assertion of it   *)
(* fails; the user need not type.                                          *)
FairSpec == /\ Spec
            /\ WF_vars(mPc # "crashed" /\ MainStep)
            /\ WF_vars(mPc # "crashed" /\ (NetForwards \/ NetSends))
            /\ WF_vars(mPc # "crashed" /\ NetReceives)
            /\ WF_vars(mPc # "crashed" /\ ClientStep)
            /\ WF_vars(mPc # "crashed" /\ ServerStep)

-----------------------------------------------------------------------------
(* What a line means, by its words.                                        *)

StartsOf(text) == {i \in DOMAIN text : text[i] # BLANK /\ (i = 1 \/ text[i - 1] = BLANK)}

WordAt(text, i) == SubSeq(text, i, CHOOSE j \in i .. Len(text) :
                                     /\ \A k \in i .. j : text[k] # BLANK
                                     /\ j = Len(text) \/ text[j + 1] = BLANK)

Nth(S, k) == CHOOSE i \in S : Cardinality({j \in S : j <= i}) = k

WordsOf(text) ==
  [k \in 1 .. Cardinality(StartsOf(text)) |-> WordAt(text, Nth(StartsOf(text), k))]

ArgsFrom(line, i) == WordsOf(SubSeq(line, i, Len(line)))

Named(args, n) ==
  \A k \in 1 .. n : k <= Len(args) /\ Len(args[k]) \in MinLength .. MaxLength

(* The command whose slash is at i.  One without the arguments that it     *)
(* needs is refused (the calls of SetErrStr in the parser); /r is not in   *)
(* the help, and its parser is a stub.                                     *)
CommandMeant(line, i) ==
  LET letter == line[i + 1]    args == ArgsFrom(line, i + 2) IN
  CASE letter = "h" -> <<"shown">>
    [] letter = "e" -> <<"exit">>
    [] letter = "c" -> IF Named(args, 2) THEN <<"c2s_create_room", args[1], args[2]>>
                       ELSE <<"refused">>
    [] letter = "j" -> IF Named(args, 2) THEN <<"c2s_join_room", args[1], args[2]>>
                       ELSE <<"refused">>
    [] letter = "w" -> IF args # <<>> THEN <<"local_whisper_msg", args[1], Tail(args)>>
                       ELSE <<"refused">>
    [] letter = "q" -> IF Len(WordsOf(line)[1]) = 2 THEN <<"local_leave_room">>
                       ELSE <<"refused">>
    [] letter = "l" -> IF args = <<>> THEN <<"refused">>
                       ELSE IF args[1] = RoomWord THEN <<"local_list_room">> ELSE <<"shown">>
    [] letter = "r" -> <<"chat">>
    [] OTHER -> <<"shown">>

FirstSlash(line) == CHOOSE i \in DOMAIN line : line[i] = "/" /\ \A k \in 1 .. i - 1 : line[k] # "/"

Meaning(line) ==
  LET words == WordsOf(line) IN
  IF words = <<>> \/ words[1][1] # "/" \/ FirstSlash(line) = Len(line) THEN <<"chat">>
  ELSE CommandMeant(line, FirstSlash(line))

(* What the program makes of that: the parser returns false for a command  *)
(* it refuses, as it does for a chat, and HandleInput tells them apart by  *)
(* nothing else.                                                           *)
MadeOf(meaning) == IF meaning = <<"refused">> THEN <<"chat">> ELSE meaning

(* The words of a whisper are the rest of the line, blanks included.       *)
Asked(msg) == IF msg # <<>> /\ msg[1] \in {"local_whisper_msg", "c2s_whisper_msg"}
              THEN <<"local_whisper_msg", msg[2], WordsOf(msg[3])>> ELSE msg

TakenFor(c) == IF ~c.parsed THEN <<"chat">>
               ELSE IF c.mInvalid \/ c.type = "help" THEN <<"shown">>
               ELSE IF c.type = "exit" THEN <<"exit">> ELSE Asked(c.msg)

(* The room name of /c is the line's last word: it ends somewhere behind.  *)
Unterminated(line) == LET i == SkipBlanks(line \o <<NUL>>, 1) IN
  /\ i < Len(line) /\ line[i] = "/" /\ line[i + 1] = "c"
  /\ Len(ArgsFrom(line, i + 2)) = 1 /\ Last(line) # BLANK

-----------------------------------------------------------------------------
(* The index loops of the parser find in every line what its words say,    *)
(* except where the name of a room to create runs past the end of the line;*)
(* they accept exactly the commands that are complete.  A refused one is   *)
(* taken for a chat.                                                       *)
ParsedAsMeant ==
  mPc = "handle" =>
    Unterminated(Last(typed)) \/ TakenFor(cmd) = MadeOf(Meaning(Last(typed)))

ToServer == {"c2s_publish_chat_msg", "c2s_create_room", "c2s_join_room", "c2s_whisper_msg"}

(* What is sent, the first first; contexts for the CRClient are among it.  *)
OnTheWay == arrived \o toServer \o net

(* The server gets of each line what the line means: no accepted command   *)
(* is published as a chat, no chat is taken for a command, nothing is sent *)
(* of a line that is only shown.  A command that was refused is published  *)
(* as it was typed, with the password in it, to everybody in the room.     *)
SentAsMeant ==
  \A c \in Range(OnTheWay) : c.op = "OP_SEND" =>
    LET line == typed[c.of]    meaning == Meaning(line) IN
      \/ Unterminated(line)
      \/ /\ meaning \in {<<"chat">>, <<"refused">>}
         /\ c.msg[1] = "c2s_publish_chat_msg" /\ c.msg[3] = line
      \/ meaning = <<"local_leave_room">> /\ c.msg = <<"c2s_join_room", HALL, <<>> >>
      \/ meaning[1] \in ToServer \cup {"local_whisper_msg"} /\ Asked(c.msg) = meaning

(* The server gets each line at most once, and in the order they are typed,*)
(* but for a local command that the CRClient's thread answers with a       *)
(* message, which what main sends later may overtake.                      *)
OvertakesOnlyDetours ==
  \A i, j \in DOMAIN OnTheWay :
    LET c == OnTheWay[i]    d == OnTheWay[j] IN
    i < j /\ c.op = "OP_SEND" /\ d.op = "OP_SEND" =>
      \/ c.of < d.of
      \/ c.of > d.of /\ d.of \in served /\ c.of \notin served

RoomInfos == {c \in Range(cr \o net \o toClient) : c.msg[1] = "s2c_room_info"}

(* /q ends the program in the Hall: the user is there, or has asked for    *)
(* another room and has not seen the answer.                               *)
QuitsFromHall ==
  [][mCdkRunning /\ ~mCdkRunning' =>
       cmd.type = "exit" \/ sRoom = HALL \/ RoomInfos # {}]_vars

Settled(n) ==
  /\ n <= Len(typed)
  /\ \/ Meaning(typed[n]) \in {<<"shown">>, <<"exit">>}
     \/ Meaning(typed[n]) = <<"local_list_room">> /\ n \in served
     \/ \E c \in Range(arrived) : c.of = n

(* Every line comes to be what is made of it, unless the program is ending *)
(* or a chat in no room has ended the server: then what is typed is lost,  *)
(* and the program goes on (CRClient::HandleDrop is empty).                *)
LinesSettle ==
  \A n \in 1 .. MaxLines :
    (Len(typed) >= n) ~> (Settled(n) \/ ~mCdkRunning \/ mPc = "crashed" \/ ~ServerUp)

===============================================================================
