--------------------------- MODULE ClientInputProofs ---------------------------
(***************************************************************************)
(* What the user's lines come to, for every number of them, whatever they  *)
(* hold.                                                                   *)
(***************************************************************************)
EXTENDS ClientInput, QueueLemmas, FiniteSetTheorems

(* What the parser hands on.                                               *)
LocalMsg(m) ==
  \/ m = <<"local_list_room">> \/ m = <<"local_leave_room">>
  \/ m = <<"local_whisper_msg", m[2], m[3]>>

RemoteMsg(m) ==
  m = <<"c2s_create_room", m[2], m[3]>> \/ m = <<"c2s_join_room", m[2], m[3]>>

IsCmd(c) ==
  /\ c.parsed /\ ~c.mInvalid /\ c.mLocalCmd /\ c.type \notin {"exit", "help"} => LocalMsg(c.msg)
  /\ c.parsed /\ ~c.mInvalid /\ ~c.mLocalCmd
       => c.type \notin {"exit", "help"} /\ RemoteMsg(c.msg)

LEMMA FirstOfThree == \A x, a, b : <<x, a, b>>[1] = x
OBVIOUS

LEMMA RefusedIsCmd == ASSUME NEW t PROVE IsCmd(Refused(t))
BY DEF IsCmd, Refused

LEMMA InvalidIsCmd == ASSUME NEW t PROVE IsCmd(Invalid(t))
<1>1. Invalid(t).mInvalid
  BY DEF Invalid, Refused
<1> QED BY <1>1 DEF IsCmd

LEMMA ShownIsCmd == ASSUME NEW t \in {"exit", "help"} PROVE IsCmd(Valid(t, TRUE, <<>>))
BY DEF IsCmd, Valid

LEMMA LocalIsCmd ==
  ASSUME NEW t, NEW m, LocalMsg(m) PROVE IsCmd(Valid(t, TRUE, m))
BY DEF IsCmd, Valid

LEMMA RemoteIsCmd ==
  ASSUME NEW t \in {"create_room", "chat"}, NEW m, RemoteMsg(m)
  PROVE  IsCmd(Valid(t, FALSE, m))
BY DEF IsCmd, Valid

LEMMA ParsedIsCmd == ASSUME NEW line, NEW behind PROVE IsCmd(ParseInput(line, behind))
<1>1. ASSUME NEW text, NEW i PROVE IsCmd(ParseCreateRoom(text, i))
  <2> DEFINE name == SkipBlanks(text, i)    nameend == EndOfName(text, name)
             passwd == SkipBlanks(text, nameend)    passwdend == EndOfWord(text, passwd)
             m == <<"c2s_create_room", Between(text, name, nameend),
                                       Between(text, passwd, passwdend)>>
  <2>1. RemoteMsg(m)
    BY DEF RemoteMsg
  <2>2. \/ ParseCreateRoom(text, i) = Valid("create_room", FALSE, m)
        \/ ParseCreateRoom(text, i) = Refused("create_room")
    BY DEF ParseCreateRoom
  <2> HIDE DEF m
  <2> QED BY <2>1, <2>2, RemoteIsCmd, RefusedIsCmd
<1>2. ASSUME NEW text, NEW i PROVE IsCmd(ParseJoinRoom(text, i))
  <2> DEFINE room == SkipBlanks(text, i)    roomend == EndOfWord(text, room)
             passwd == SkipBlanks(text, roomend)    passwdend == EndOfWord(text, passwd)
             m == <<"c2s_join_room", Between(text, room, roomend),
                                     Between(text, passwd, passwdend)>>
  <2>1. RemoteMsg(m)
    BY DEF RemoteMsg
  <2>2. \/ ParseJoinRoom(text, i) = Valid("chat", FALSE, m)
        \/ ParseJoinRoom(text, i) \in {Refused("null"), Refused("chat")}
    BY DEF ParseJoinRoom
  <2> HIDE DEF m
  <2> QED BY <2>1, <2>2, RemoteIsCmd, RefusedIsCmd
<1>3. ASSUME NEW text, NEW i PROVE IsCmd(ParseWhisper(text, i))
  <2> DEFINE target == SkipBlanks(text, i)    targetend == EndOfWord(text, target)
             words == SkipBlanks(text, targetend)
             m == <<"local_whisper_msg", Between(text, target, targetend),
                                         Between(text, words, EndOfLine(text, words))>>
  <2>1. LocalMsg(m)
    BY DEF LocalMsg
  <2>2. \/ ParseWhisper(text, i) = Valid("chat", TRUE, m)
        \/ ParseWhisper(text, i) = Refused("null")
    BY DEF ParseWhisper
  <2> HIDE DEF m
  <2> QED BY <2>1, <2>2, LocalIsCmd, RefusedIsCmd
<1>4. ASSUME NEW text, NEW i PROVE IsCmd(ParseList(text, i))
  <2>1. \/ ParseList(text, i) = Valid("list_room", TRUE, <<"local_list_room">>)
        \/ ParseList(text, i) \in {Refused("null"), Invalid("null")}
    BY DEF ParseList
  <2>2. LocalMsg(<<"local_list_room">>)
    BY DEF LocalMsg
  <2> QED BY <2>1, <2>2, LocalIsCmd, RefusedIsCmd, InvalidIsCmd
<1>5. ASSUME NEW text, NEW i PROVE IsCmd(ParseLeaveRoom(text, i))
  <2>1. LocalMsg(<<"local_leave_room">>)
    BY DEF LocalMsg
  <2> QED BY <2>1, LocalIsCmd, RefusedIsCmd DEF ParseLeaveRoom
<1>6. ASSUME NEW text, NEW i PROVE IsCmd(ParseCmdMessage(text, i))
  <2>1. \/ ParseCmdMessage(text, i) \in {Valid("help", TRUE, <<>>), Valid("exit", TRUE, <<>>)}
        \/ ParseCmdMessage(text, i) \in {ParseCreateRoom(text, i + 1), ParseJoinRoom(text, i + 1),
                                         ParseWhisper(text, i + 1), ParseLeaveRoom(text, i + 1),
                                         ParseList(text, i + 1)}
        \/ ParseCmdMessage(text, i) \in {Refused("chat"), Invalid("chat")}
    BY DEF ParseCmdMessage, ParseReply
  <2> QED BY <1>1, <1>2, <1>3, <1>4, <1>5, <2>1, ShownIsCmd, RefusedIsCmd, InvalidIsCmd
<1> DEFINE text == line \o <<NUL>> \o behind
           i == SkipBlanks(text, 1)
<1>7. ParseInput(line, behind) \in {Refused("null"), Refused("chat"), ParseCmdMessage(text, i + 1)}
  BY DEF ParseInput
<1> HIDE DEF text, i
<1> QED BY <1>6, <1>7, RefusedIsCmd

-----------------------------------------------------------------------------
(* The types.                                                              *)

Info(c) == c.op = "OP_RECV" /\ c.msg[1] = "s2c_room_info" /\ c.of = 0

Pending(c, n) ==                            \* a local command
  c = Ctx("OP_RECV", c.msg, c.of) /\ LocalMsg(c.msg) /\ c.of \in 1 .. n

Sent(c, n) == c.op = "OP_SEND" /\ c.msg[1] \in ToServer /\ c.of \in 1 .. n

Queues ==
  /\ IsQueue(typed) /\ IsQueue(net) /\ IsQueue(cr)
  /\ IsQueue(toServer) /\ IsQueue(toClient) /\ IsQueue(arrived)

Holds ==
  /\ \A c \in Range(net) : Info(c) \/ Pending(c, Len(typed)) \/ Sent(c, Len(typed))
  /\ \A c \in Range(cr) : Info(c) \/ Pending(c, Len(typed))
  /\ \A c \in Range(toServer) \cup Range(arrived) : Sent(c, Len(typed))
  /\ \A c \in Range(toClient) : Info(c)
  /\ served \subseteq 1 .. Len(typed)

Pcs ==
  /\ mPc \in {"prompt", "handle", "send", "test", "left", "crashed"}
  /\ cPc \in {"idle", "decoding"}
  /\ mPc \in {"handle", "send"} => typed # <<>>
  /\ mPc = "handle" => IsCmd(cmd)
  /\ mPc = "send" => chat[1] = "c2s_publish_chat_msg" /\ chat[3] = Last(typed)
  /\ cPc = "decoding" => cr # <<>> /\ Info(Head(cr))

CInv == Queues /\ Holds /\ Pcs

(* The order.                                                              *)

(* A line that is being handled is in no queue yet.                        *)
Fresh ==
  mPc \in {"handle", "send"} =>
    /\ \A c \in Range(arrived) \cup Range(toServer) \cup Range(net) \cup Range(cr) :
         c.of < Len(typed)
    /\ \A n \in served : n < Len(typed)

InOrder(x, y) == x.op = "OP_RECV" /\ x.of # 0 /\ y.op = "OP_RECV" /\ y.of # 0 => x.of < y.of

(* The local commands reach the CRClient in the order they are typed.      *)
Locals ==
  /\ \A x, y : Before(cr, x, y) => InOrder(x, y)
  /\ \A x, y : Before(net, x, y) => InOrder(x, y)
  /\ \A x \in Range(cr), y \in Range(net) : InOrder(x, y)

(* One that waits comes after those that are served; nothing is sent for it. *)
Waiting(x) == x.op = "OP_RECV" /\ x.of # 0

Detours ==
  \A x \in Range(cr) \cup Range(net) : Waiting(x) =>
    /\ \A n \in served : n < x.of
    /\ \A y \in Range(arrived) \cup Range(toServer) \cup Range(net) :
         y.op = "OP_SEND" => y.of # x.of

SentOrder(x, y, done) ==
  x.op = "OP_SEND" /\ y.op = "OP_SEND" =>
    x.of < y.of \/ (x.of > y.of /\ y.of \in done /\ x.of \notin done)

Ordered ==
  /\ \A x, y : Before(arrived, x, y) => SentOrder(x, y, served)
  /\ \A x, y : Before(toServer, x, y) => SentOrder(x, y, served)
  /\ \A x, y : Before(net, x, y) => SentOrder(x, y, served)
  /\ \A x \in Range(arrived), y \in Range(toServer) \cup Range(net) : SentOrder(x, y, served)
  /\ \A x \in Range(toServer), y \in Range(net) : SentOrder(x, y, served)

OInv == Fresh /\ Locals /\ Detours /\ Ordered

(* The room.                                                               *)

IsInfo(c) == c.msg[1] = "s2c_room_info"
NoInfo(q) == \A i \in DOMAIN q : ~IsInfo(q[i])

(* The last room in the queue is r.                                        *)
Final(q, r) ==
  \E i \in DOMAIN q : /\ IsInfo(q[i]) /\ q[i].msg[2] = r
                      /\ \A j \in DOMAIN q : j > i => ~IsInfo(q[j])

(* The client's room is the user's, or becomes it with what is on its way. *)
QInv ==
  /\ mCurrentRoom = [id |-> mCurrentRoom.id, name |-> mCurrentRoom.name]
  /\ \/ Final(toClient, sRoom)
     \/ NoInfo(toClient) /\ Final(net, sRoom)
     \/ NoInfo(toClient) /\ NoInfo(net) /\ Final(cr, sRoom)
     \/ NoInfo(toClient) /\ NoInfo(net) /\ NoInfo(cr) /\ mCurrentRoom.name = sRoom

(* What is sent.                                                           *)

Means(m, line) ==
  \/ Unterminated(line)
  \/ /\ Meaning(line) \in {<<"chat">>, <<"refused">>}
     /\ m[1] = "c2s_publish_chat_msg" /\ m[3] = line
  \/ Meaning(line) = <<"local_leave_room">> /\ m = <<"c2s_join_room", HALL, <<>> >>
  \/ Meaning(line)[1] \in ToServer \cup {"local_whisper_msg"} /\ Asked(m) = Meaning(line)

SInv ==
  /\ \A c \in Range(cr) \cup Range(net) : Waiting(c) =>
       Unterminated(typed[c.of]) \/ Asked(c.msg) = Meaning(typed[c.of])
  /\ \A c \in Range(arrived) \cup Range(toServer) \cup Range(net) : c.op = "OP_SEND" =>
       Means(c.msg, typed[c.of])
  /\ mPc = "send" =>
       Unterminated(Last(typed)) \/ Meaning(Last(typed)) \in {<<"chat">>, <<"refused">>}

-----------------------------------------------------------------------------
LEMMA AppendLast ==
  ASSUME NEW q, NEW e, IsQueue(q)
  PROVE  /\ Len(q) \in Nat /\ DOMAIN q = 1 .. Len(q)
         /\ Len(Append(q, e)) = Len(q) + 1
         /\ \A i \in 1 .. Len(q) : Append(q, e)[i] = q[i]
         /\ Append(q, e)[Len(q) + 1] = e
         /\ DOMAIN Append(q, e) = 1 .. Len(q) + 1
         /\ Last(Append(q, e)) = e
<1>1. q \in Seq(Range(q) \cup {e}) /\ e \in Range(q) \cup {e}
  BY SeqMonotonic DEF IsQueue
<1>2. Len(q) \in Nat /\ DOMAIN q = 1 .. Len(q)
  BY QueueDomain
<1>3. /\ Append(q, e) \in Seq(Range(q) \cup {e})
      /\ Len(Append(q, e)) = Len(q) + 1
      /\ \A i \in 1 .. Len(q) : Append(q, e)[i] = q[i]
      /\ Append(q, e)[Len(q) + 1] = e
  BY <1>1, AppendProperties
<1>4. DOMAIN Append(q, e) = 1 .. Len(q) + 1
  BY <1>3, LenProperties
<1> QED BY <1>2, <1>3, <1>4 DEF Last

LEMMA InitTypes == Init => CInv
<1> SUFFICES ASSUME Init PROVE CInv
  OBVIOUS
<1>1. IsQueue(toClient) /\ Range(toClient) = {RoomInfo(HALL)}
  BY SingleQueue DEF Init
<1>2. Info(RoomInfo(HALL))
  BY DEF Info, RoomInfo, Ctx
<1>3. Queues /\ Holds
  BY <1>1, <1>2, EmptyQueue DEF Queues, Holds, Init
<1>4. Pcs
  BY DEF Pcs, Init
<1> QED BY <1>3, <1>4 DEF CInv

LEMMA TypesKeepsTypes == CInv /\ Types => CInv'
<1> SUFFICES ASSUME CInv, Types PROVE CInv'
  OBVIOUS
<1> USE DEF CInv
<1>1. PICK line, behind : typed' = Append(typed, line) /\ cmd' = ParseInput(line, behind)
  BY DEF Types
<1>2. UNCHANGED <<chat, mCdkRunning, mCurrentRoom, cPc, net, cr, toServer, toClient, arrived,
                  sRoom, served>> /\ mPc' = "handle"
  BY DEF Types, client, queues, server
<1>3. IsQueue(typed') /\ typed' # <<>>
  BY <1>1, AppendToQueue DEF Queues
<1>4. Len(typed) \in Nat /\ Len(typed') = Len(typed) + 1
  BY <1>1, AppendLast DEF Queues
<1>5. Queues'
  BY <1>2, <1>3 DEF Queues
<1>6. Holds'
  <2> DEFINE n == Len(typed)
             N == Len(typed')
  <2>1. \A k \in 1 .. n : k \in 1 .. N
    BY <1>4
  <2> HIDE DEF n, N
  <2>2. \A c : (Pending(c, n) => Pending(c, N)) /\ (Sent(c, n) => Sent(c, N))
    BY <2>1 DEF Pending, Sent
  <2>3. served \subseteq 1 .. N
    BY <2>1 DEF Holds, n
  <2> QED BY <1>2, <2>2, <2>3 DEF Holds, n, N
<1>7. Pcs'
  BY <1>1, <1>2, <1>3, ParsedIsCmd DEF Pcs
<1> QED BY <1>5, <1>6, <1>7

(* A step of main leaves the queues alone ...                              *)
MainStays ==
  /\ UNCHANGED <<typed, net, cr, toServer, toClient, arrived, served, sRoom, mCurrentRoom, cPc>>
  /\ \/ mPc' \in {"prompt", "test", "left", "crashed"}
     \/ WritesChat

(* ... or adds a context to the NetService's.                              *)
MainAdds(e) ==
  /\ \/ /\ mPc = "handle" /\ cmd.parsed /\ ~cmd.mInvalid
        /\ cmd.type \notin {"exit", "help"}
        /\ e = Ctx(e.op, cmd.msg, Len(typed))
        /\ \/ e.op = "OP_RECV" /\ LocalMsg(cmd.msg)
           \/ e.op = "OP_SEND" /\ RemoteMsg(cmd.msg)
     \/ /\ mPc = "send"
        /\ e = Ctx("OP_SEND", chat, Len(typed))
  /\ net' = Append(net, e)
  /\ mPc' = "test"
  /\ UNCHANGED <<typed, cr, toServer, toClient, arrived, served, sRoom, mCurrentRoom, cPc>>

LEMMA MainForms == CInv /\ MainStep => MainStays \/ \E e : MainAdds(e)
<1> SUFFICES ASSUME CInv, MainStep PROVE MainStays \/ \E e : MainAdds(e)
  OBVIOUS
<1> USE DEF client, queues, server
<1>1. CASE Shows
  BY <1>1 DEF Shows, Returns, MainStays
<1>2. CASE EndsProgram
  BY <1>2 DEF EndsProgram, Returns, MainStays
<1>3. CASE CrashesReading
  BY <1>3 DEF CrashesReading, MainStays
<1>4. CASE WritesChat
  BY <1>4 DEF WritesChat, MainStays
<1>5. CASE TestsCdkRunning
  BY <1>5 DEF TestsCdkRunning, MainStays
<1>6. CASE EnqueuesLocal
  <2> DEFINE e == Ctx("OP_RECV", cmd.msg, Len(typed))
  <2>1. IsCmd(cmd)
    BY <1>6 DEF EnqueuesLocal, Handles, CInv, Pcs
  <2>2. LocalMsg(cmd.msg) /\ cmd.parsed /\ ~cmd.mInvalid /\ cmd.type \notin {"exit", "help"}
    BY <1>6, <2>1 DEF EnqueuesLocal, IsCmd
  <2>3. e.op = "OP_RECV" /\ e = Ctx(e.op, cmd.msg, Len(typed))
    BY DEF Ctx
  <2>4. /\ net' = Append(net, e)
        /\ mPc = "handle" /\ mPc' = "test"
        /\ UNCHANGED <<typed, cr, toServer, toClient, arrived, served, sRoom, mCurrentRoom, cPc>>
    BY <1>6 DEF EnqueuesLocal, Handles, Returns, This
  <2> HIDE DEF e
  <2> QED BY <2>2, <2>3, <2>4 DEF MainAdds
<1>7. CASE SendsRemote
  <2> DEFINE e == Ctx("OP_SEND", cmd.msg, Len(typed))
  <2>1. IsCmd(cmd)
    BY <1>7 DEF SendsRemote, Handles, CInv, Pcs
  <2>2. RemoteMsg(cmd.msg) /\ cmd.parsed /\ ~cmd.mInvalid /\ cmd.type \notin {"exit", "help"}
    BY <1>7, <2>1 DEF SendsRemote, IsCmd
  <2>3. e.op = "OP_SEND" /\ e = Ctx(e.op, cmd.msg, Len(typed))
    BY DEF Ctx
  <2>4. /\ net' = Append(net, e)
        /\ mPc = "handle" /\ mPc' = "test"
        /\ UNCHANGED <<typed, cr, toServer, toClient, arrived, served, sRoom, mCurrentRoom, cPc>>
    BY <1>7 DEF SendsRemote, Handles, Returns, This
  <2> HIDE DEF e
  <2> QED BY <2>2, <2>3, <2>4 DEF MainAdds
<1>8. CASE SendsChat
  BY <1>8 DEF SendsChat, Returns, This, MainAdds
<1> QED BY <1>1, <1>2, <1>3, <1>4, <1>5, <1>6, <1>7, <1>8 DEF MainStep

LEMMA MainAddsWhat ==
  ASSUME CInv, NEW e, MainAdds(e)
  PROVE  /\ Pending(e, Len(typed)) \/ Sent(e, Len(typed))
         /\ e.of = Len(typed) /\ mPc \in {"handle", "send"} /\ Len(typed) \in Nat \ {0}
<1>1. Len(typed) \in Nat \ {0} /\ mPc \in {"handle", "send"}
  <2>1. typed \in Seq(Range(typed)) /\ typed # <<>> /\ mPc \in {"handle", "send"}
    BY DEF MainAdds, CInv, Queues, Pcs, IsQueue
  <2> QED BY <2>1, EmptySeq
<1> DEFINE n == Len(typed)
<1>2. n \in 1 .. n
  BY <1>1
<1> HIDE DEF n
<1>3. CASE mPc = "handle"
  <2>1. e = Ctx(e.op, cmd.msg, n) /\ (\/ e.op = "OP_RECV" /\ LocalMsg(cmd.msg)
                                      \/ e.op = "OP_SEND" /\ RemoteMsg(cmd.msg))
    BY <1>3 DEF MainAdds, n
  <2>2. e.msg = cmd.msg /\ e.of = n
    BY <2>1 DEF Ctx
  <2>3. ASSUME e.op = "OP_RECV", LocalMsg(cmd.msg)
        PROVE  Pending(e, n)
    <3>1. e = Ctx("OP_RECV", e.msg, e.of) /\ LocalMsg(e.msg) /\ e.of \in 1 .. n
      BY <1>2, <2>1, <2>2, <2>3
    <3> QED BY <3>1 DEF Pending
  <2>4. ASSUME e.op = "OP_SEND", RemoteMsg(cmd.msg)
        PROVE  Sent(e, n)
    <3>1. cmd.msg[1] \in ToServer
      BY <2>4, FirstOfThree DEF RemoteMsg, ToServer
    <3>2. e.op = "OP_SEND" /\ e.msg[1] \in ToServer /\ e.of \in 1 .. n
      BY <1>2, <2>2, <2>4, <3>1
    <3> QED BY <3>2 DEF Sent
  <2>5. Pending(e, n) \/ Sent(e, n)
    BY <2>1, <2>3, <2>4
  <2> QED BY <1>1, <2>2, <2>5 DEF n
<1>4. CASE mPc = "send"
  <2>1. e = Ctx("OP_SEND", chat, n) /\ chat[1] = "c2s_publish_chat_msg"
    BY <1>4 DEF MainAdds, n, CInv, Pcs
  <2>2. e.op = "OP_SEND" /\ e.msg = chat /\ e.of = n
    BY <2>1 DEF Ctx
  <2>3. Sent(e, n)
    BY <1>2, <2>1, <2>2 DEF Sent, ToServer
  <2> QED BY <1>1, <2>2, <2>3 DEF n
<1> QED BY <1>1, <1>3, <1>4

LEMMA MainKeepsTypes == CInv /\ MainStep => CInv'
<1> SUFFICES ASSUME CInv, MainStep PROVE CInv'
  OBVIOUS
<1> USE DEF CInv
<1>1. CASE MainStays
  <2>1. UNCHANGED <<typed, net, cr, toServer, toClient, arrived, served, cPc>>
    BY <1>1 DEF MainStays
  <2>2. Queues' /\ Holds'
    BY <2>1 DEF Queues, Holds
  <2>3. CASE mPc' \in {"prompt", "test", "left", "crashed"}
    <3>1. Pcs'
      BY <2>1, <2>3 DEF Pcs
    <3> QED BY <2>2, <3>1
  <2>4. CASE WritesChat
    <3>1. mPc' = "send" /\ mPc = "handle" /\ chat' = <<"c2s_publish_chat_msg", mCurrentRoom.id, Last(typed)>>
      BY <2>4 DEF WritesChat, Handles
    <3>2. chat'[1] = "c2s_publish_chat_msg" /\ chat'[3] = Last(typed)
      BY <3>1
    <3>3. Pcs'
      BY <2>1, <3>1, <3>2 DEF Pcs
    <3> QED BY <2>2, <3>3
  <2> QED BY <1>1, <2>3, <2>4 DEF MainStays
<1>2. ASSUME NEW e, MainAdds(e) PROVE CInv'
  <2>1. Pending(e, Len(typed)) \/ Sent(e, Len(typed))
    BY <1>2, MainAddsWhat
  <2>2. /\ net' = Append(net, e) /\ mPc' = "test"
        /\ UNCHANGED <<typed, cr, toServer, toClient, arrived, served, cPc>>
    BY <1>2 DEF MainAdds
  <2>3. IsQueue(net') /\ Range(net') = Range(net) \cup {e}
    BY <2>2, AppendToQueue DEF Queues
  <2>4. Queues'
    BY <2>2, <2>3 DEF Queues
  <2>5. Holds'
    BY <2>1, <2>2, <2>3 DEF Holds
  <2>6. Pcs'
    BY <2>2 DEF Pcs
  <2> QED BY <2>4, <2>5, <2>6
<1> QED BY <1>1, <1>2, MainForms

LEMMA HeadOf ==
  ASSUME NEW q, IsQueue(q), q # <<>>
  PROVE  /\ Head(q) \in Range(q) /\ IsQueue(Tail(q))
         /\ Range(q) = {Head(q)} \cup Range(Tail(q))
BY TailOfQueue

LEMMA NetKeepsTypes == CInv /\ NetStep => CInv'
<1> SUFFICES ASSUME CInv, NetStep PROVE CInv'
  OBVIOUS
<1> USE DEF CInv
<1>1. CASE NetForwards
  <2> DEFINE h == Head(net)
  <2>1. /\ net # <<>> /\ h.op = "OP_RECV"
        /\ net' = Tail(net) /\ cr' = Append(cr, h)
        /\ UNCHANGED <<mPc, cmd, typed, chat, cPc, toServer, toClient, arrived, served>>
    BY <1>1 DEF NetForwards, main, client, server
  <2>2. h \in Range(net) /\ IsQueue(net') /\ Range(net) = {h} \cup Range(net')
    BY <2>1, HeadOf DEF Queues
  <2>3. IsQueue(cr') /\ Range(cr') = Range(cr) \cup {h} /\ cr' # <<>>
    BY <2>1, AppendToQueue DEF Queues
  <2>4. cr # <<>> => Head(cr') = Head(cr)
    BY <2>1, HeadTailAppend DEF Queues, IsQueue
  <2> HIDE DEF h
  <2>5. Queues'
    BY <2>1, <2>2, <2>3 DEF Queues
  <2>6. Info(h) \/ Pending(h, Len(typed))
    BY <2>1, <2>2 DEF Holds, Sent
  <2>7. Holds'
    BY <2>1, <2>2, <2>3, <2>6 DEF Holds
  <2>8. Pcs'
    BY <2>1, <2>3, <2>4 DEF Pcs
  <2> QED BY <2>5, <2>7, <2>8
<1>2. CASE NetSends
  <2> DEFINE h == Head(net)
  <2>1. /\ net # <<>> /\ h.op = "OP_SEND"
        /\ net' = Tail(net) /\ toServer' = Append(toServer, h)
        /\ UNCHANGED <<mPc, cmd, typed, chat, cPc, cr, toClient, arrived, served>>
    BY <1>2 DEF NetSends, main, client
  <2>2. h \in Range(net) /\ IsQueue(net') /\ Range(net) = {h} \cup Range(net')
    BY <2>1, HeadOf DEF Queues
  <2>3. IsQueue(toServer') /\ Range(toServer') = Range(toServer) \cup {h}
    BY <2>1, AppendToQueue DEF Queues
  <2> HIDE DEF h
  <2>4. Queues'
    BY <2>1, <2>2, <2>3 DEF Queues
  <2>5. Sent(h, Len(typed))
    BY <2>1, <2>2 DEF Holds, Info, Pending, Ctx
  <2>6. Holds'
    BY <2>1, <2>2, <2>3, <2>5 DEF Holds
  <2>7. Pcs'
    BY <2>1 DEF Pcs
  <2> QED BY <2>4, <2>6, <2>7
<1>3. CASE NetReceives
  <2> DEFINE h == Head(toClient)
  <2>1. /\ toClient # <<>> /\ toClient' = Tail(toClient) /\ net' = Append(net, h)
        /\ UNCHANGED <<mPc, cmd, typed, chat, cPc, cr, toServer, arrived, served>>
    BY <1>3 DEF NetReceives, main, client
  <2>2. h \in Range(toClient) /\ IsQueue(toClient') /\ Range(toClient) = {h} \cup Range(toClient')
    BY <2>1, HeadOf DEF Queues
  <2>3. IsQueue(net') /\ Range(net') = Range(net) \cup {h}
    BY <2>1, AppendToQueue DEF Queues
  <2> HIDE DEF h
  <2>4. Queues'
    BY <2>1, <2>2, <2>3 DEF Queues
  <2>5. Holds'
    BY <2>1, <2>2, <2>3 DEF Holds
  <2>6. Pcs'
    BY <2>1 DEF Pcs
  <2> QED BY <2>4, <2>5, <2>6
<1> QED BY <1>1, <1>2, <1>3 DEF NetStep

(* The CRClient's thread takes a local command ...                         *)
ClientServes ==
  /\ cPc = "idle" /\ cPc' = "idle"
  /\ cr # <<>> /\ Pending(Head(cr), Len(typed))
  /\ cr' = Tail(cr)
  /\ served' = served \cup {Head(cr).of}
  /\ UNCHANGED <<mPc, cmd, typed, chat, toServer, toClient, arrived, sRoom, mCurrentRoom>>

(* ... and may send e for it.                                              *)
ClientAnswers(e) ==
  /\ ClientServes
  /\ net' = Append(net, e)
  /\ Sent(e, Len(typed)) /\ e.of = Head(cr).of
  /\ \/ /\ Asked(Head(cr).msg)[1] = "local_whisper_msg"
        /\ Asked(e.msg) = Asked(Head(cr).msg)
     \/ Head(cr).msg = <<"local_leave_room">> /\ e.msg = <<"c2s_join_room", HALL, <<>> >>

LEMMA OtherPending ==
  ASSUME CInv, NEW type, type # "s2c_room_info", Receives(type)
  PROVE  cPc = "idle" /\ cr # <<>> /\ Pending(Head(cr), Len(typed)) /\ Head(cr).msg[1] = type
<1>1. cPc = "idle" /\ cr # <<>> /\ Head(cr).msg[1] = type
  BY DEF Receives
<1>2. Head(cr) \in Range(cr)
  BY <1>1, HeadOf DEF CInv, Queues
<1> QED BY <1>1, <1>2 DEF CInv, Holds, Info

LEMMA WhisperAsked ==
  ASSUME NEW c, c = Ctx("OP_RECV", c.msg, c.of), LocalMsg(c.msg),
         c.msg[1] = "local_whisper_msg",
         NEW e, e = [c EXCEPT !.op = "OP_SEND", !.msg[1] = "c2s_whisper_msg"]
  PROVE  /\ e.op = "OP_SEND" /\ e.of = c.of
         /\ e.msg[1] = "c2s_whisper_msg" /\ Asked(e.msg) = Asked(c.msg)
         /\ Asked(c.msg)[1] = "local_whisper_msg"
<1> DEFINE m == c.msg
           a == m[2]
           b == m[3]
<1>1. c = [op |-> "OP_RECV", msg |-> m, of |-> c.of]
  BY DEF Ctx
<1>2. <<"local_list_room">>[1] = "local_list_room" /\ <<"local_leave_room">>[1] = "local_leave_room"
  OBVIOUS
<1>3. m = <<"local_whisper_msg", a, b>>
  BY <1>2 DEF LocalMsg
<1> HIDE DEF m, a, b
<1> DEFINE n == c.of
<1> HIDE DEF n
<1>4. /\ e.op = "OP_SEND"
      /\ e.of = n
      /\ e.msg = [m EXCEPT ![1] = "c2s_whisper_msg"]
  <2>1. c = [op |-> "OP_RECV", msg |-> m, of |-> n]
    BY <1>1 DEF n
  <2> QED BY <2>1
<1> DEFINE w == [m EXCEPT ![1] = "c2s_whisper_msg"]
<1>5. DOMAIN m = 1 .. 3 /\ m[1] = "local_whisper_msg" /\ m[2] = a /\ m[3] = b
  BY <1>3
<1>6. DOMAIN w = 1 .. 3 /\ w[1] = "c2s_whisper_msg" /\ w[2] = a /\ w[3] = b
  BY <1>5
<1>7. m # <<>> /\ w # <<>>
  <2>1. DOMAIN <<>> = {} /\ 1 \in 1 .. 3
    BY EmptySeq, LenProperties
  <2> HIDE DEF w
  <2> QED BY <1>5, <1>6, <2>1
<1> HIDE DEF w
<1>8. e.msg = w /\ e.op = "OP_SEND" /\ e.of = c.of
  BY <1>4 DEF w, n
<1>9. Asked(w) = Asked(m) /\ Asked(m)[1] = "local_whisper_msg"
  BY <1>5, <1>6, <1>7 DEF Asked
<1> QED BY <1>6, <1>8, <1>9 DEF m

LEMMA ClientForms ==
  ASSUME CInv, ClientStep
  PROVE  DecodesId \/ DecodesName \/ (ClientServes /\ UNCHANGED net) \/ \E e : ClientAnswers(e)
<1> USE DEF main, server
<1>1. CASE ShowsRoomList
  BY <1>1, OtherPending DEF ShowsRoomList, Serves, ClientServes, client
<1>2. CASE LeavesHall
  BY <1>2, OtherPending DEF LeavesHall, Serves, ClientServes
<1>3. CASE SendsWhisper
  <2> DEFINE h == Head(cr)
             e == [h EXCEPT !.op = "OP_SEND", !.msg[1] = "c2s_whisper_msg"]
  <2>1. Pending(h, Len(typed)) /\ h.msg[1] = "local_whisper_msg"
    BY <1>3, OtherPending DEF SendsWhisper
  <2>2. ClientServes
    BY <1>3, OtherPending DEF SendsWhisper, Serves, ClientServes, client
  <2>3. net' = Append(net, e)
    BY <1>3 DEF SendsWhisper
  <2> HIDE DEF h
  <2>4. /\ e.op = "OP_SEND" /\ e.of = h.of
        /\ e.msg[1] = "c2s_whisper_msg" /\ Asked(e.msg) = Asked(h.msg)
        /\ Asked(h.msg)[1] = "local_whisper_msg"
    <3>1. h = Ctx("OP_RECV", h.msg, h.of) /\ LocalMsg(h.msg)
      BY <2>1 DEF Pending
    <3> DEFINE f == e
    <3> HIDE DEF f
    <3>2. f = [h EXCEPT !.op = "OP_SEND", !.msg[1] = "c2s_whisper_msg"]
      BY DEF f
    <3>3. /\ f.op = "OP_SEND" /\ f.of = h.of
          /\ f.msg[1] = "c2s_whisper_msg" /\ Asked(f.msg) = Asked(h.msg)
          /\ Asked(h.msg)[1] = "local_whisper_msg"
      BY <2>1, <3>1, <3>2, WhisperAsked
    <3> QED BY <3>3 DEF f
  <2> HIDE DEF e
  <2>5. Sent(e, Len(typed))
    <3>1. h.of \in 1 .. Len(typed)
      BY <2>1 DEF Pending
    <3> QED BY <2>4, <3>1 DEF Sent, ToServer
  <2>6. ClientAnswers(e)
    BY <2>1, <2>2, <2>3, <2>4, <2>5 DEF ClientAnswers, h
  <2> QED BY <2>6
<1>4. CASE JoinsHall
  <2> DEFINE h == Head(cr)
             m == <<"c2s_join_room", HALL, <<>> >>
             e == Ctx("OP_SEND", m, h.of)
  <2>1. Pending(h, Len(typed)) /\ h.msg[1] = "local_leave_room"
    BY <1>4, OtherPending DEF JoinsHall
  <2>2. ClientServes
    BY <1>4, OtherPending DEF JoinsHall, Serves, ClientServes, client
  <2>3. net' = Append(net, e)
    BY <1>4 DEF JoinsHall
  <2>4. m[1] = "c2s_join_room"
    OBVIOUS
  <2> HIDE DEF m, h
  <2>5. e.op = "OP_SEND" /\ e.msg = m /\ e.of = h.of
    BY DEF Ctx
  <2> HIDE DEF e
  <2>6. Sent(e, Len(typed))
    <3>1. h.of \in 1 .. Len(typed)
      BY <2>1 DEF Pending
    <3> QED BY <2>4, <2>5, <3>1 DEF Sent, ToServer
  <2>7. h.msg = <<"local_leave_room">>
    <3> DEFINE g == h.msg
    <3>1. LocalMsg(g) /\ g[1] = "local_leave_room"
      BY <2>1 DEF Pending
    <3>2. <<"local_list_room">>[1] = "local_list_room"
      OBVIOUS
    <3> HIDE DEF g
    <3>3. g = <<"local_leave_room">>
      BY <3>1, <3>2, FirstOfThree DEF LocalMsg
    <3> QED BY <3>3 DEF g
  <2>8. ClientAnswers(e)
    BY <2>2, <2>3, <2>5, <2>6, <2>7 DEF ClientAnswers, h, m
  <2> QED BY <2>8
<1> QED BY <1>1, <1>2, <1>3, <1>4 DEF ClientStep

LEMMA DecodesNameWhat ==
  ASSUME CInv, DecodesName
  PROVE  /\ cr # <<>> /\ Info(Head(cr)) /\ cr' = Tail(cr) /\ cPc' = "idle"
         /\ mCurrentRoom' = [mCurrentRoom EXCEPT !.name = Head(cr).msg[2]]
         /\ UNCHANGED <<mPc, cmd, typed, chat, net, toServer, toClient, arrived, sRoom, served>>
BY DEF CInv, Pcs, DecodesName, main, server

LEMMA ClientKeepsTypes == CInv /\ ClientStep => CInv'
<1> SUFFICES ASSUME CInv, ClientStep PROVE CInv'
  OBVIOUS
<1>1. CASE DecodesId
  <2>1. /\ cr # <<>> /\ Head(cr).msg[1] = "s2c_room_info" /\ cPc' = "decoding"
        /\ UNCHANGED <<mPc, cmd, typed, chat, net, cr, toServer, toClient, arrived, served>>
    BY <1>1 DEF DecodesId, Receives, main, queues, server
  <2>2. Head(cr) \in Range(cr)
    BY <2>1, HeadOf DEF CInv, Queues
  <2>3. Info(Head(cr))
    <3> DEFINE h == Head(cr)
               m == h.msg
    <3>1. ASSUME LocalMsg(m)
          PROVE  m[1] # "s2c_room_info"
      <4>1. <<"local_list_room">>[1] = "local_list_room" /\ <<"local_leave_room">>[1] = "local_leave_room"
        OBVIOUS
      <4> HIDE DEF m
      <4> QED BY <3>1, <4>1, FirstOfThree DEF LocalMsg
    <3>2. Info(h) \/ Pending(h, Len(typed))
      BY <2>2 DEF CInv, Holds
    <3>3. m[1] = "s2c_room_info"
      BY <2>1
    <3>4. Pending(h, Len(typed)) => LocalMsg(m)
      BY DEF Pending
    <3> HIDE DEF h, m
    <3>5. Info(h)
      BY <3>1, <3>2, <3>3, <3>4
    <3> QED BY <3>5 DEF h
  <2>4. Queues' /\ Holds'
    BY <2>1 DEF CInv, Queues, Holds
  <2>5. Pcs'
    BY <2>1, <2>3 DEF CInv, Pcs
  <2> QED BY <2>4, <2>5 DEF CInv
<1>2. ASSUME cr # <<>>, cr' = Tail(cr), cPc' = "idle",
             UNCHANGED <<mPc, cmd, typed, chat, toServer, toClient, arrived>>,
             IsQueue(net'),
             \A c \in Range(net') : c \in Range(net) \/ Sent(c, Len(typed)),
             served' \subseteq 1 .. Len(typed)
      PROVE  CInv'
  <2>1. IsQueue(cr') /\ Range(cr') \subseteq Range(cr)
    BY <1>2, HeadOf DEF CInv, Queues
  <2>2. Queues'
    BY <1>2, <2>1 DEF CInv, Queues
  <2>3. Holds'
    BY <1>2, <2>1 DEF CInv, Holds
  <2>4. Pcs'
    BY <1>2 DEF CInv, Pcs
  <2> QED BY <2>2, <2>3, <2>4 DEF CInv
<1>3. CASE DecodesName
  <2>1. /\ cr # <<>> /\ cr' = Tail(cr) /\ cPc' = "idle"
        /\ UNCHANGED <<mPc, cmd, typed, chat, toServer, toClient, arrived>>
        /\ UNCHANGED <<net, served>>
    BY <1>3, DecodesNameWhat
  <2>2. IsQueue(net') /\ served' \subseteq 1 .. Len(typed)
    BY <2>1 DEF CInv, Queues, Holds
  <2> QED BY <1>2, <2>1, <2>2
<1>4. ASSUME ClientServes
      PROVE  /\ cr # <<>> /\ cr' = Tail(cr) /\ cPc' = "idle"
             /\ UNCHANGED <<mPc, cmd, typed, chat, toServer, toClient, arrived>>
             /\ served' \subseteq 1 .. Len(typed)
  BY <1>4 DEF ClientServes, Pending, CInv, Holds
<1>5. CASE ClientServes /\ UNCHANGED net
  <2>1. IsQueue(net')
    BY <1>5 DEF CInv, Queues
  <2> QED BY <1>2, <1>4, <1>5, <2>1
<1>6. ASSUME NEW e, ClientAnswers(e) PROVE CInv'
  <2>1. ClientServes /\ net' = Append(net, e) /\ Sent(e, Len(typed))
    BY <1>6 DEF ClientAnswers
  <2>2. IsQueue(net') /\ Range(net') = Range(net) \cup {e}
    BY <2>1, AppendToQueue DEF CInv, Queues
  <2> QED BY <1>2, <1>4, <2>1, <2>2
<1> QED BY <1>1, <1>3, <1>5, <1>6, ClientForms

(* The server takes a message, and may send the user a room.               *)
ServerTakes ==
  /\ toServer # <<>>
  /\ toServer' = Tail(toServer) /\ arrived' = Append(arrived, Head(toServer))
  /\ UNCHANGED <<mPc, cmd, typed, chat, mCurrentRoom, cPc, net, cr, served>>

ServerSends(room) ==
  toClient' = Append(toClient, RoomInfo(room)) /\ sRoom' = room

LEMMA ServerForms ==
  ServerStep => ServerTakes /\ (UNCHANGED <<toClient, sRoom>> \/ \E room : ServerSends(room))
BY DEF ServerStep, ServerMoves, ServerStays, Takes, ServerTakes, ServerSends, main, client, queues

LEMMA ServerKeepsTypes == CInv /\ ServerStep => CInv'
<1> SUFFICES ASSUME CInv, ServerStep PROVE CInv'
  OBVIOUS
<1> DEFINE h == Head(toServer)
<1>1. /\ toServer # <<>> /\ toServer' = Tail(toServer) /\ arrived' = Append(arrived, h)
      /\ UNCHANGED <<mPc, cmd, typed, chat, cPc, net, cr, served>>
  BY ServerForms DEF ServerTakes
<1>2. h \in Range(toServer) /\ IsQueue(toServer') /\ Range(toServer) = {h} \cup Range(toServer')
  BY <1>1, HeadOf DEF CInv, Queues
<1>3. IsQueue(arrived') /\ Range(arrived') = Range(arrived) \cup {h}
  BY <1>1, AppendToQueue DEF CInv, Queues
<1> HIDE DEF h
<1>4. IsQueue(toClient') /\ \A c \in Range(toClient') : Info(c)
  <2>1. CASE UNCHANGED toClient
    BY <2>1 DEF CInv, Queues, Holds
  <2>2. ASSUME NEW room, toClient' = Append(toClient, RoomInfo(room))
        PROVE  IsQueue(toClient') /\ \A c \in Range(toClient') : Info(c)
    <3>1. Info(RoomInfo(room))
      BY DEF Info, RoomInfo, Ctx
    <3>2. IsQueue(toClient') /\ Range(toClient') = Range(toClient) \cup {RoomInfo(room)}
      BY <2>2, AppendToQueue DEF CInv, Queues
    <3> QED BY <3>1, <3>2 DEF CInv, Holds
  <2> QED BY <2>1, <2>2, ServerForms DEF ServerSends
<1>5. Queues'
  BY <1>1, <1>2, <1>3, <1>4 DEF CInv, Queues
<1>6. Holds'
  BY <1>1, <1>2, <1>3, <1>4 DEF CInv, Holds
<1>7. Pcs'
  BY <1>1 DEF CInv, Pcs
<1> QED BY <1>5, <1>6, <1>7 DEF CInv

LEMMA StepKeepsTypes == CInv /\ [Next]_vars => CInv'
<1>1. CInv /\ UNCHANGED vars => CInv'
  BY DEF CInv, Queues, Holds, Pcs, vars, main, client, queues, server
<1> QED BY <1>1, TypesKeepsTypes, MainKeepsTypes, NetKeepsTypes, ClientKeepsTypes, ServerKeepsTypes
        DEF Next

THEOREM InputTypes == Spec => []CInv
BY InitTypes, StepKeepsTypes, PTL DEF Spec

-----------------------------------------------------------------------------
(* The user's room.                                                        *)

LEMMA InfoAppended ==
  ASSUME NEW q, NEW e, IsQueue(q)
  PROVE  /\ ~IsInfo(e) => /\ NoInfo(Append(q, e)) <=> NoInfo(q)
                          /\ \A r : Final(Append(q, e), r) <=> Final(q, r)
         /\ IsInfo(e) => Final(Append(q, e), e.msg[2])
<1> DEFINE n == Len(q)
           p == Append(q, e)
<1>1. /\ n \in Nat /\ DOMAIN q = 1 .. n /\ DOMAIN p = 1 .. n + 1
      /\ \A i \in 1 .. n : p[i] = q[i]
      /\ p[n + 1] = e
  BY AppendLast
<1> HIDE DEF n, p
<1>2. /\ \A i \in 1 .. n + 1 : i \in 1 .. n \/ i = n + 1
      /\ \A i \in 1 .. n : i \in 1 .. n + 1 /\ n + 1 > i
      /\ n + 1 \in 1 .. n + 1 /\ \A i \in 1 .. n + 1 : ~(i > n + 1)
  BY <1>1
<1>3. ASSUME ~IsInfo(e)
      PROVE  NoInfo(p) <=> NoInfo(q)
  BY <1>1, <1>2, <1>3 DEF NoInfo
<1>4. ASSUME ~IsInfo(e), NEW r, Final(q, r)
      PROVE  Final(p, r)
  <2>1. PICK i \in 1 .. n : /\ IsInfo(q[i]) /\ q[i].msg[2] = r
                            /\ \A j \in 1 .. n : j > i => ~IsInfo(q[j])
    BY <1>1, <1>4 DEF Final
  <2>2. i \in 1 .. n + 1 /\ p[i] = q[i]
    BY <1>1, <1>2
  <2>3. \A j \in 1 .. n + 1 : j > i => ~IsInfo(p[j])
    BY <1>1, <1>2, <1>4, <2>1
  <2> QED BY <1>1, <2>1, <2>2, <2>3 DEF Final
<1>5. ASSUME ~IsInfo(e), NEW r, Final(p, r)
      PROVE  Final(q, r)
  <2>1. PICK i \in 1 .. n + 1 : /\ IsInfo(p[i]) /\ p[i].msg[2] = r
                                /\ \A j \in 1 .. n + 1 : j > i => ~IsInfo(p[j])
    BY <1>1, <1>5 DEF Final
  <2>2. i \in 1 .. n /\ p[i] = q[i]
    BY <1>1, <1>2, <1>5, <2>1
  <2>3. \A j \in 1 .. n : j > i => ~IsInfo(q[j])
    BY <1>1, <1>2, <2>1
  <2> QED BY <1>1, <2>1, <2>2, <2>3 DEF Final
<1>6. ASSUME IsInfo(e) PROVE Final(p, e.msg[2])
  BY <1>1, <1>2, <1>6 DEF Final
<1> QED BY <1>3, <1>4, <1>5, <1>6 DEF p

LEMMA InfoTaken ==
  ASSUME NEW q, IsQueue(q), q # <<>>
  PROVE  /\ ~IsInfo(Head(q)) => /\ NoInfo(Tail(q)) <=> NoInfo(q)
                                /\ \A r : Final(Tail(q), r) <=> Final(q, r)
         /\ IsInfo(Head(q)) =>
              /\ ~NoInfo(q)
              /\ \A r : Final(q, r) => Final(Tail(q), r) \/ (NoInfo(Tail(q)) /\ Head(q).msg[2] = r)
<1> DEFINE n == Len(q)
           t == Tail(q)
           h == Head(q)
<1>1. n \in Nat \ {0} /\ DOMAIN q = 1 .. n
  BY QueueDomain, EmptySeq DEF IsQueue
<1>2. q[1] = h /\ DOMAIN t = 1 .. n - 1 /\ \A i \in 1 .. n - 1 : t[i] = q[i + 1]
  <2>1. t \in Seq(Range(q)) /\ Len(t) = n - 1 /\ \A i \in 1 .. Len(t) : t[i] = q[i + 1]
    BY HeadTailProperties DEF IsQueue
  <2> QED BY <2>1, HeadTailProperties, LenProperties DEF IsQueue
<1> HIDE DEF n, t, h
<1>3. /\ 1 \in 1 .. n
      /\ \A i \in 1 .. n - 1 : i + 1 \in 1 .. n /\ i + 1 > 1
      /\ \A i \in 1 .. n : i # 1 => i - 1 \in 1 .. n - 1 /\ (i - 1) + 1 = i
      /\ \A i, j \in 1 .. n : j > i => j # 1
      /\ \A i, j \in 1 .. n - 1 : j > i <=> j + 1 > i + 1
  BY <1>1
<1>4. ASSUME ~IsInfo(h)
      PROVE  NoInfo(t) <=> NoInfo(q)
  <2>1. ASSUME NoInfo(t), NEW i \in 1 .. n PROVE ~IsInfo(q[i])
    <3>1. CASE i = 1
      BY <1>2, <1>4, <3>1
    <3>2. CASE i # 1
      <4>1. i - 1 \in 1 .. n - 1 /\ t[i - 1] = q[i]
        BY <1>2, <1>3, <3>2
      <4> QED BY <1>2, <2>1, <4>1 DEF NoInfo
    <3> QED BY <3>1, <3>2
  <2>2. ASSUME NoInfo(q), NEW i \in 1 .. n - 1 PROVE ~IsInfo(t[i])
    BY <1>1, <1>2, <1>3, <2>2 DEF NoInfo
  <2> QED BY <1>1, <1>2, <2>1, <2>2 DEF NoInfo
<1>5. ASSUME NEW r, Final(t, r) PROVE Final(q, r)
  <2>1. PICK i \in 1 .. n - 1 : /\ IsInfo(t[i]) /\ t[i].msg[2] = r
                                /\ \A j \in 1 .. n - 1 : j > i => ~IsInfo(t[j])
    BY <1>2, <1>5 DEF Final
  <2>2. i + 1 \in 1 .. n /\ q[i + 1] = t[i]
    BY <1>2, <1>3
  <2>3. ASSUME NEW j \in 1 .. n, j > i + 1 PROVE ~IsInfo(q[j])
    <3>1. j - 1 \in 1 .. n - 1 /\ j - 1 > i /\ (j - 1) + 1 = j
      BY <1>1, <2>3
    <3>2. ~IsInfo(t[j - 1]) /\ t[j - 1] = q[(j - 1) + 1]
      BY <1>2, <2>1, <3>1
    <3> QED BY <3>1, <3>2
  <2> QED BY <1>1, <2>1, <2>2, <2>3 DEF Final
<1>6. ASSUME NEW r, Final(q, r)
      PROVE  Final(t, r) \/ (IsInfo(h) /\ NoInfo(t) /\ h.msg[2] = r)
  <2>1. PICK i \in 1 .. n : /\ IsInfo(q[i]) /\ q[i].msg[2] = r
                            /\ \A j \in 1 .. n : j > i => ~IsInfo(q[j])
    BY <1>1, <1>6 DEF Final
  <2>2. CASE i = 1
    <3>1. NoInfo(t)
      BY <1>2, <1>3, <2>1, <2>2 DEF NoInfo
    <3> QED BY <1>2, <2>1, <2>2, <3>1
  <2>3. CASE i # 1
    <3>1. i - 1 \in 1 .. n - 1 /\ t[i - 1] = q[i]
      BY <1>2, <1>3, <2>3
    <3>2. ASSUME NEW j \in 1 .. n - 1, j > i - 1 PROVE ~IsInfo(t[j])
      <4>1. j + 1 \in 1 .. n /\ j + 1 > i
        BY <1>1, <3>2
      <4> QED BY <1>2, <2>1, <4>1
    <3> QED BY <1>2, <2>1, <3>1, <3>2 DEF Final
  <2> QED BY <2>2, <2>3
<1>7. IsInfo(h) => ~NoInfo(q)
  BY <1>1, <1>2, <1>3 DEF NoInfo
<1> QED BY <1>4, <1>5, <1>6, <1>7 DEF t, h

LEMMA NotInfo ==
  ASSUME NEW c, NEW n, Pending(c, n) \/ Sent(c, n)
  PROVE  ~IsInfo(c)
<1> DEFINE m == c.msg
<1>1. CASE Sent(c, n)
  BY <1>1 DEF Sent, ToServer, IsInfo
<1>2. CASE Pending(c, n)
  <2>1. LocalMsg(m)
    BY <1>2 DEF Pending
  <2>2. <<"local_list_room">>[1] = "local_list_room" /\ <<"local_leave_room">>[1] = "local_leave_room"
    OBVIOUS
  <2> HIDE DEF m
  <2>3. m[1] # "s2c_room_info"
    BY <2>1, <2>2, FirstOfThree DEF LocalMsg
  <2> QED BY <2>3 DEF IsInfo, m
<1> QED BY <1>1, <1>2

LEMMA InitRoom == Init => QInv
<1> SUFFICES ASSUME Init PROVE QInv
  OBVIOUS
<1> DEFINE e == RoomInfo(HALL)
<1>1. toClient = <<e>> /\ sRoom = HALL
      /\ mCurrentRoom = [id |-> NoRoom, name |-> NoRoom]
  BY DEF Init
<1>2. IsInfo(e) /\ e.msg[2] = HALL
  BY DEF IsInfo, RoomInfo, Ctx
<1> HIDE DEF e
<1>3. DOMAIN toClient = {1} /\ toClient[1] = e
  BY <1>1
<1>4. \A j \in {1} : ~(j > 1)
  OBVIOUS
<1>5. Final(toClient, sRoom)
  BY <1>1, <1>2, <1>3, <1>4 DEF Final
<1> QED BY <1>1, <1>5 DEF QInv

LEMMA NetKeepsRoom == CInv /\ QInv /\ NetStep => QInv'
<1> SUFFICES ASSUME CInv, QInv, NetStep PROVE QInv'
  OBVIOUS
<1>1. CASE NetForwards
  <2> DEFINE h == Head(net)
  <2>1. /\ net # <<>> /\ net' = Tail(net) /\ cr' = Append(cr, h)
        /\ UNCHANGED <<mCurrentRoom, toClient, sRoom>>
    BY <1>1 DEF NetForwards, client, server
  <2>2. IsQueue(net) /\ IsQueue(cr)
    BY DEF CInv, Queues
  <2>3. /\ ~IsInfo(h) => /\ NoInfo(net') <=> NoInfo(net)
                         /\ \A r : Final(net', r) <=> Final(net, r)
        /\ IsInfo(h) => /\ ~NoInfo(net)
                        /\ \A r : Final(net, r) => Final(net', r) \/ (NoInfo(net') /\ h.msg[2] = r)
    BY <2>1, <2>2, InfoTaken
  <2>4. /\ ~IsInfo(h) => /\ NoInfo(cr') <=> NoInfo(cr)
                         /\ \A r : Final(cr', r) <=> Final(cr, r)
        /\ IsInfo(h) => Final(cr', h.msg[2])
    BY <2>1, <2>2, InfoAppended
  <2> HIDE DEF h
  <2> QED BY <2>1, <2>3, <2>4 DEF QInv
<1>2. CASE NetSends
  <2> DEFINE h == Head(net)
  <2>1. /\ net # <<>> /\ h.op = "OP_SEND" /\ net' = Tail(net)
        /\ UNCHANGED <<mCurrentRoom, cr, toClient, sRoom>>
    BY <1>2 DEF NetSends, client
  <2>2. IsQueue(net) /\ h \in Range(net)
    BY <2>1, HeadOf DEF CInv, Queues
  <2>3. ~IsInfo(h)
    BY <2>1, <2>2, NotInfo DEF CInv, Holds, Info
  <2>4. (NoInfo(net') <=> NoInfo(net)) /\ (\A r : Final(net', r) <=> Final(net, r))
    BY <2>1, <2>2, <2>3, InfoTaken
  <2> QED BY <2>1, <2>4 DEF QInv
<1>3. CASE NetReceives
  <2> DEFINE h == Head(toClient)
  <2>1. /\ toClient # <<>> /\ toClient' = Tail(toClient) /\ net' = Append(net, h)
        /\ UNCHANGED <<mCurrentRoom, cr, sRoom>>
    BY <1>3 DEF NetReceives, client
  <2>2. IsQueue(toClient) /\ IsQueue(net) /\ h \in Range(toClient)
    BY <2>1, HeadOf DEF CInv, Queues
  <2>3. IsInfo(h)
    BY <2>2 DEF CInv, Holds, Info, IsInfo
  <2>4. /\ ~NoInfo(toClient)
        /\ \A r : Final(toClient, r) => Final(toClient', r) \/ (NoInfo(toClient') /\ h.msg[2] = r)
    BY <2>1, <2>2, <2>3, InfoTaken
  <2>5. Final(net', h.msg[2])
    BY <2>1, <2>2, <2>3, InfoAppended
  <2> HIDE DEF h
  <2> QED BY <2>1, <2>4, <2>5 DEF QInv
<1> QED BY <1>1, <1>2, <1>3 DEF NetStep

LEMMA ClientKeepsRoom == CInv /\ QInv /\ ClientStep => QInv'
<1> SUFFICES ASSUME CInv, QInv, ClientStep PROVE QInv'
  OBVIOUS
<1>1. CASE DecodesId
  <2>1. /\ mCurrentRoom' = [mCurrentRoom EXCEPT !.id = Head(cr).msg[2]]
        /\ UNCHANGED <<net, cr, toClient, sRoom>>
    BY <1>1 DEF DecodesId, queues, server
  <2> DEFINE v == Head(cr).msg[2]
  <2> HIDE DEF v
  <2>2. mCurrentRoom' = [id |-> mCurrentRoom'.id, name |-> mCurrentRoom'.name]
        /\ mCurrentRoom'.name = mCurrentRoom.name
    <3>1. mCurrentRoom = [id |-> mCurrentRoom.id, name |-> mCurrentRoom.name]
      BY DEF QInv
    <3>2. mCurrentRoom' = [mCurrentRoom EXCEPT !.id = v]
      BY <2>1 DEF v
    <3> QED BY <3>1, <3>2
  <2> QED BY <2>1, <2>2 DEF QInv
<1>2. CASE DecodesName
  <2> DEFINE h == Head(cr)
             v == h.msg[2]
  <2>1. /\ cr # <<>> /\ Info(h) /\ cr' = Tail(cr)
        /\ mCurrentRoom' = [mCurrentRoom EXCEPT !.name = v]
        /\ UNCHANGED <<net, toClient, sRoom>>
    BY <1>2, DecodesNameWhat
  <2>2. IsQueue(cr) /\ IsInfo(h)
    BY <2>1 DEF CInv, Queues, Info, IsInfo
  <2>3. /\ ~NoInfo(cr)
        /\ \A r : Final(cr, r) => Final(cr', r) \/ (NoInfo(cr') /\ v = r)
    BY <2>1, <2>2, InfoTaken
  <2> HIDE DEF v, h
  <2>4. mCurrentRoom' = [id |-> mCurrentRoom'.id, name |-> mCurrentRoom'.name]
        /\ mCurrentRoom'.name = v
    <3>1. mCurrentRoom = [id |-> mCurrentRoom.id, name |-> mCurrentRoom.name]
      BY DEF QInv
    <3> QED BY <2>1, <3>1
  <2> QED BY <2>1, <2>3, <2>4 DEF QInv
<1>3. ASSUME ClientServes
      PROVE  /\ (NoInfo(cr') <=> NoInfo(cr)) /\ (\A r : Final(cr', r) <=> Final(cr, r))
             /\ UNCHANGED <<toClient, sRoom, mCurrentRoom>>
  <2>1. /\ cr # <<>> /\ Pending(Head(cr), Len(typed)) /\ cr' = Tail(cr) /\ IsQueue(cr)
        /\ UNCHANGED <<toClient, sRoom, mCurrentRoom>>
    BY <1>3 DEF ClientServes, CInv, Queues
  <2>2. ~IsInfo(Head(cr))
    BY <2>1, NotInfo
  <2> QED BY <2>1, <2>2, InfoTaken
<1>4. CASE ClientServes /\ UNCHANGED net
  BY <1>3, <1>4 DEF QInv
<1>5. ASSUME NEW e, ClientAnswers(e) PROVE QInv'
  <2>1. ClientServes /\ net' = Append(net, e) /\ Sent(e, Len(typed)) /\ IsQueue(net)
    BY <1>5 DEF ClientAnswers, CInv, Queues
  <2>2. ~IsInfo(e)
    BY <2>1, NotInfo
  <2>3. (NoInfo(net') <=> NoInfo(net)) /\ (\A r : Final(net', r) <=> Final(net, r))
    BY <2>1, <2>2, InfoAppended
  <2> QED BY <1>3, <2>1, <2>3 DEF QInv
<1> QED BY <1>1, <1>2, <1>4, <1>5, ClientForms

LEMMA StepKeepsRoom == CInv /\ QInv /\ [Next]_vars => QInv'
<1> SUFFICES ASSUME CInv, QInv, [Next]_vars PROVE QInv'
  OBVIOUS
<1>1. ASSUME UNCHANGED <<net, cr, toClient, sRoom, mCurrentRoom>> PROVE QInv'
  BY <1>1 DEF QInv
<1>2. CASE Types
  BY <1>1, <1>2 DEF Types, client, queues, server
<1>3. CASE MainStep
  <2>1. CASE MainStays
    BY <1>1, <2>1 DEF MainStays
  <2>2. ASSUME NEW e, MainAdds(e) PROVE QInv'
    <3>1. net' = Append(net, e) /\ IsQueue(net) /\ UNCHANGED <<cr, toClient, sRoom, mCurrentRoom>>
      BY <2>2 DEF MainAdds, CInv, Queues
    <3>2. ~IsInfo(e)
      BY <2>2, MainAddsWhat, NotInfo
    <3>3. (NoInfo(net') <=> NoInfo(net)) /\ (\A r : Final(net', r) <=> Final(net, r))
      BY <3>1, <3>2, InfoAppended
    <3> QED BY <3>1, <3>3 DEF QInv
  <2> QED BY <1>3, <2>1, <2>2, MainForms
<1>4. CASE ServerStep
  <2>1. UNCHANGED <<net, cr, mCurrentRoom>>
    BY <1>4, ServerForms DEF ServerTakes
  <2>2. CASE UNCHANGED <<toClient, sRoom>>
    BY <1>1, <2>1, <2>2
  <2>3. ASSUME NEW room, ServerSends(room) PROVE QInv'
    <3>1. toClient' = Append(toClient, RoomInfo(room)) /\ sRoom' = room /\ IsQueue(toClient)
      BY <2>3 DEF ServerSends, CInv, Queues
    <3>2. IsInfo(RoomInfo(room)) /\ RoomInfo(room).msg[2] = room
      BY DEF IsInfo, RoomInfo, Ctx
    <3>3. Final(toClient', sRoom')
      BY <3>1, <3>2, InfoAppended
    <3> QED BY <2>1, <3>3 DEF QInv
  <2> QED BY <1>4, <2>2, <2>3, ServerForms
<1>5. CASE UNCHANGED vars
  BY <1>1, <1>5 DEF vars, client, queues, server
<1> QED BY <1>2, <1>3, <1>4, <1>5, NetKeepsRoom, ClientKeepsRoom DEF Next

LEMMA RoomOnItsWay ==
  ASSUME CInv, QInv, mCurrentRoom.name = HALL \/ cPc = "decoding"
  PROVE  sRoom = HALL \/ RoomInfos # {}
<1>1. Range(cr \o net \o toClient) = Range(cr) \cup Range(net) \cup Range(toClient)
  <2>1. IsQueue(cr \o net) /\ Range(cr \o net) = Range(cr) \cup Range(net)
    BY ConcatOfQueues DEF CInv, Queues
  <2> QED BY <2>1, ConcatOfQueues DEF CInv, Queues
<1>2. ASSUME NEW c \in Range(cr) \cup Range(net) \cup Range(toClient), IsInfo(c)
      PROVE  RoomInfos # {}
  BY <1>1, <1>2 DEF RoomInfos, IsInfo
<1>3. ASSUME NEW q, NEW r, Final(q, r) PROVE \E c \in Range(q) : IsInfo(c)
  BY <1>3 DEF Final, Range
<1>4. CASE cPc = "decoding"
  <2>1. Head(cr) \in Range(cr) /\ IsInfo(Head(cr))
    BY <1>4, HeadOf DEF CInv, Pcs, Queues, Info, IsInfo
  <2> QED BY <1>2, <2>1
<1>5. CASE mCurrentRoom.name = HALL
  BY <1>2, <1>3, <1>5 DEF QInv
<1> QED BY <1>4, <1>5

LEMMA QuitsFromHallStep ==
  CInv /\ QInv /\ [Next]_vars =>
    [mCdkRunning /\ ~mCdkRunning' =>
       cmd.type = "exit" \/ sRoom = HALL \/ RoomInfos # {}]_vars
<1> SUFFICES ASSUME CInv, QInv, Next, mCdkRunning, ~mCdkRunning'
             PROVE  cmd.type = "exit" \/ sRoom = HALL \/ RoomInfos # {}
  BY DEF vars, client
<1>1. EndsProgram \/ LeavesHall
  BY DEF Next, Types, MainStep, Shows, CrashesReading, EnqueuesLocal, SendsRemote, WritesChat,
         SendsChat, TestsCdkRunning, NetStep, NetForwards, NetSends, NetReceives, ClientStep,
         DecodesId, DecodesName, ShowsRoomList, SendsWhisper, JoinsHall, ServerStep, ServerMoves,
         ServerStays, client
<1>2. CASE EndsProgram
  BY <1>2, RoomOnItsWay DEF EndsProgram, ReadsHall
<1>3. CASE LeavesHall
  BY <1>3, RoomOnItsWay DEF LeavesHall
<1> QED BY <1>1, <1>2, <1>3

(* /q never ends the program while the user sits in another room, unless   *)
(* that room is still on its way to the client: the client's room is the   *)
(* user's, or the last room on its way is (mCurrentRoom, which both        *)
(* threads use without a lock).                                            *)
THEOREM QuitsOnlyFromHall == Spec => QuitsFromHall
<1>1. Init => CInv /\ QInv
  BY InitTypes, InitRoom
<1>2. CInv /\ QInv /\ [Next]_vars => CInv' /\ QInv'
  BY StepKeepsTypes, StepKeepsRoom
<1> QED BY <1>1, <1>2, QuitsFromHallStep, PTL DEF Spec, QuitsFromHall

-----------------------------------------------------------------------------
(* The order in which lines arrive.                                        *)

LEMMA InitOrder == Init => OInv
BY EmptyQueue DEF Init, OInv, Fresh, Locals, Detours, Ordered

(* The numbers of the lines.                                               *)
LEMMA Numbers ==
  ASSUME CInv
  PROVE  /\ Len(typed) \in Nat
         /\ \A c \in Range(arrived) \cup Range(toServer) \cup Range(net) \cup Range(cr) :
              c.of \in Nat /\ c.of <= Len(typed)
         /\ \A n \in served : n \in Nat /\ n <= Len(typed)
<1> DEFINE n == Len(typed)
<1>1. n \in Nat
  BY QueueDomain DEF CInv, Queues
<1> HIDE DEF n
<1>2. \A k \in 1 .. n : k \in Nat /\ k <= n
  BY <1>1
<1>3. 0 \in Nat /\ 0 <= n
  BY <1>1
<1>4. \A c : Info(c) \/ Pending(c, n) \/ Sent(c, n) => c.of \in Nat /\ c.of <= n
  BY <1>2, <1>3 DEF Info, Pending, Sent
<1> QED BY <1>1, <1>2, <1>4 DEF CInv, Holds, n

LEMMA TypesKeepsOrder == CInv /\ OInv /\ Types => OInv'
<1> SUFFICES ASSUME CInv, OInv, Types PROVE OInv'
  OBVIOUS
<1>1. UNCHANGED <<net, cr, toServer, arrived, served>>
  BY DEF Types, queues, server
<1>2. Len(typed') = Len(typed) + 1
  BY AppendLast DEF Types, CInv, Queues
<1> DEFINE n == Len(typed)
           N == Len(typed')
<1>3. \A k \in Nat : k <= n => k < N
  BY <1>2, Numbers
<1> HIDE DEF n, N
<1>4. Fresh'
  BY <1>1, <1>3, Numbers DEF Fresh, n, N
<1> QED BY <1>1, <1>4 DEF OInv, Locals, Detours, Ordered

LEMMA MainKeepsOrder == CInv /\ OInv /\ MainStep => OInv'
<1> SUFFICES ASSUME CInv, OInv, MainStep PROVE OInv'
  OBVIOUS
<1>1. CASE MainStays
  <2>1. UNCHANGED <<typed, net, cr, toServer, arrived, served>>
    BY <1>1 DEF MainStays
  <2>2. mPc' \in {"handle", "send"} => mPc \in {"handle", "send"}
    BY <1>1 DEF MainStays, WritesChat, Handles
  <2>3. Fresh'
    BY <2>1, <2>2 DEF OInv, Fresh
  <2> QED BY <2>1, <2>3 DEF OInv, Locals, Detours, Ordered
<1>2. ASSUME NEW e, MainAdds(e) PROVE OInv'
  <2> DEFINE n == Len(typed)
  <2>1. /\ net' = Append(net, e) /\ mPc' = "test" /\ IsQueue(net)
        /\ UNCHANGED <<typed, cr, toServer, arrived, served>>
    BY <1>2 DEF MainAdds, CInv, Queues
  <2>2. e.of = n /\ mPc \in {"handle", "send"} /\ n \in Nat
    BY <1>2, MainAddsWhat
  <2>3. /\ \A c \in Range(arrived) \cup Range(toServer) \cup Range(net) \cup Range(cr) :
             c.of \in Nat /\ c.of < e.of /\ c.of # e.of
        /\ \A k \in served : k < e.of
    <3>1. /\ \A c \in Range(arrived) \cup Range(toServer) \cup Range(net) \cup Range(cr) :
               c.of \in Nat /\ c.of < n
          /\ \A k \in served : k < n
      BY <2>2, Numbers DEF OInv, Fresh
    <3> HIDE DEF n
    <3> QED BY <2>2, <3>1
  <2>4. /\ Range(net') = Range(net) \cup {e}
        /\ \A x, y : Before(net', x, y) <=> Before(net, x, y) \/ (x \in Range(net) /\ y = e)
    BY <2>1, AppendToQueue
  <2>5. Fresh'
    BY <2>1 DEF Fresh
  <2>6. Locals'
    BY <2>1, <2>3, <2>4 DEF OInv, Locals, InOrder
  <2>7. Detours'
    BY <2>1, <2>3, <2>4 DEF OInv, Detours, Waiting
  <2>8. Ordered'
    BY <2>1, <2>3, <2>4 DEF OInv, Ordered, SentOrder
  <2> QED BY <2>5, <2>6, <2>7, <2>8 DEF OInv
<1> QED BY <1>1, <1>2, MainForms

LEMMA NetKeepsOrder == CInv /\ OInv /\ NetStep => OInv'
<1> SUFFICES ASSUME CInv, OInv, NetStep PROVE OInv'
  OBVIOUS
<1>1. CASE NetForwards
  <2> DEFINE h == Head(net)
  <2>1. /\ net # <<>> /\ net' = Tail(net) /\ cr' = Append(cr, h)
        /\ UNCHANGED <<mPc, typed, toServer, arrived, served>>
    BY <1>1 DEF NetForwards, main, server
  <2>2. /\ Range(net) = {h} \cup Range(net')
        /\ \A x, y : Before(net', x, y) => Before(net, x, y)
        /\ \A y \in Range(net') : Before(net, h, y)
    BY <2>1, TailOfQueue DEF CInv, Queues
  <2>3. /\ Range(cr') = Range(cr) \cup {h}
        /\ \A x, y : Before(cr', x, y) <=> Before(cr, x, y) \/ (x \in Range(cr) /\ y = h)
    BY <2>1, AppendToQueue DEF CInv, Queues
  <2> HIDE DEF h
  <2>4. Fresh'
    BY <2>1, <2>2, <2>3 DEF OInv, Fresh
  <2>5. Locals'
    BY <2>2, <2>3 DEF OInv, Locals
  <2>6. Detours'
    BY <2>1, <2>2, <2>3 DEF OInv, Detours
  <2>7. Ordered'
    BY <2>1, <2>2 DEF OInv, Ordered
  <2> QED BY <2>4, <2>5, <2>6, <2>7 DEF OInv
<1>2. CASE NetSends
  <2> DEFINE h == Head(net)
  <2>1. /\ net # <<>> /\ net' = Tail(net) /\ toServer' = Append(toServer, h)
        /\ UNCHANGED <<mPc, typed, cr, arrived, served>>
    BY <1>2 DEF NetSends, main, client
  <2>2. /\ Range(net) = {h} \cup Range(net')
        /\ \A x, y : Before(net', x, y) => Before(net, x, y)
        /\ \A y \in Range(net') : Before(net, h, y)
    BY <2>1, TailOfQueue DEF CInv, Queues
  <2>3. /\ Range(toServer') = Range(toServer) \cup {h}
        /\ \A x, y : Before(toServer', x, y)
                        <=> Before(toServer, x, y) \/ (x \in Range(toServer) /\ y = h)
    BY <2>1, AppendToQueue DEF CInv, Queues
  <2> HIDE DEF h
  <2>4. Fresh'
    BY <2>1, <2>2, <2>3 DEF OInv, Fresh
  <2>5. Locals'
    BY <2>1, <2>2 DEF OInv, Locals
  <2>6. Detours'
    BY <2>1, <2>2, <2>3 DEF OInv, Detours
  <2>7. Ordered'
    BY <2>1, <2>2, <2>3 DEF OInv, Ordered
  <2> QED BY <2>4, <2>5, <2>6, <2>7 DEF OInv
<1>3. CASE NetReceives
  <2> DEFINE h == Head(toClient)
  <2>1. /\ toClient # <<>> /\ net' = Append(net, h)
        /\ UNCHANGED <<mPc, typed, cr, toServer, arrived, served>>
    BY <1>3 DEF NetReceives, main, client
  <2>2. Info(h)
    BY <2>1, HeadOf DEF CInv, Queues, Holds
  <2>3. /\ Range(net') = Range(net) \cup {h}
        /\ \A x, y : Before(net', x, y) <=> Before(net, x, y) \/ (x \in Range(net) /\ y = h)
    BY <2>1, AppendToQueue DEF CInv, Queues
  <2> HIDE DEF h
  <2>4. h.op = "OP_RECV" /\ h.of = 0
    BY <2>2 DEF Info
  <2>5. Fresh'
    <3> DEFINE n == Len(typed)
    <3>1. mPc \in {"handle", "send"} => 0 < n
      <4>1. mPc \in {"handle", "send"} => typed # <<>> /\ typed \in Seq(Range(typed))
        BY DEF CInv, Queues, Pcs, IsQueue
      <4> QED BY <4>1, EmptySeq, Numbers
    <3> HIDE DEF n
    <3> QED BY <2>1, <2>3, <2>4, <3>1 DEF OInv, Fresh, n
  <2>6. Locals'
    BY <2>1, <2>3, <2>4 DEF OInv, Locals, InOrder
  <2>7. Detours'
    BY <2>1, <2>3, <2>4 DEF OInv, Detours, Waiting
  <2>8. Ordered'
    BY <2>1, <2>3, <2>4 DEF OInv, Ordered, SentOrder
  <2> QED BY <2>5, <2>6, <2>7, <2>8 DEF OInv
<1> QED BY <1>1, <1>2, <1>3 DEF NetStep

(* The CRClient takes its first command.                                   *)
LEMMA ServesInOrder ==
  ASSUME CInv, OInv, ClientServes
  PROVE  /\ \A n \in served' : n \in Nat /\ n <= Head(cr).of
         /\ Range(cr') \subseteq Range(cr)
         /\ \A x, y : Before(cr', x, y) => Before(cr, x, y)
         /\ \A x \in Range(cr') \cup Range(net) : Waiting(x) => Head(cr).of < x.of
         /\ \A x, y : SentOrder(x, y, served)
                        /\ x \in Range(arrived) \cup Range(toServer) \cup Range(net)
                      => SentOrder(x, y, served')
         /\ \A y \in Range(arrived) \cup Range(toServer) \cup Range(net) :
              y.op = "OP_SEND" => y.of # Head(cr).of
         /\ Head(cr).of \in Nat /\ Head(cr).of \in served'
<1> DEFINE h == Head(cr)
           n == Len(typed)
<1>1. /\ cr # <<>> /\ Pending(h, n) /\ cr' = Tail(cr) /\ served' = served \cup {h.of}
      /\ IsQueue(cr)
  BY DEF ClientServes, CInv, Queues
<1>2. /\ h \in Range(cr) /\ Range(cr) = {h} \cup Range(cr')
      /\ \A x, y : Before(cr', x, y) => Before(cr, x, y)
      /\ \A y \in Range(cr') : Before(cr, h, y)
  BY <1>1, TailOfQueue
<1>3. n \in Nat /\ \A k \in served : k \in Nat
  BY Numbers
<1> HIDE DEF h, n
<1>4. h.op = "OP_RECV" /\ h.of \in Nat /\ h.of # 0
  <2>1. h.op = "OP_RECV" /\ h.of \in 1 .. n
    BY <1>1 DEF Pending, Ctx
  <2> QED BY <1>3, <2>1
<1>5. /\ \A k \in served : k < h.of
      /\ \A y \in Range(arrived) \cup Range(toServer) \cup Range(net) :
           y.op = "OP_SEND" => y.of # h.of
  BY <1>2, <1>4 DEF OInv, Detours, Waiting
<1>6. \A k \in served' : k \in Nat /\ k <= h.of
  BY <1>1, <1>3, <1>4, <1>5
<1>7. \A x \in Range(cr') \cup Range(net) : Waiting(x) => h.of < x.of
  BY <1>2, <1>4 DEF OInv, Locals, InOrder, Waiting
<1>8. ASSUME NEW x \in Range(arrived) \cup Range(toServer) \cup Range(net), NEW y,
             SentOrder(x, y, served)
      PROVE  SentOrder(x, y, served')
  BY <1>1, <1>5, <1>8 DEF SentOrder
<1> QED BY <1>1, <1>2, <1>4, <1>5, <1>6, <1>7, <1>8 DEF h

LEMMA ClientKeepsOrder == CInv /\ OInv /\ ClientStep => OInv'
<1> SUFFICES ASSUME CInv, OInv, ClientStep PROVE OInv'
  OBVIOUS
<1>1. CASE DecodesId
  <2>1. UNCHANGED <<mPc, typed, net, cr, toServer, arrived, served>>
    BY <1>1 DEF DecodesId, main, queues, server
  <2> QED BY <2>1 DEF OInv, Fresh, Locals, Detours, Ordered
<1>2. CASE DecodesName
  <2>1. /\ cr # <<>> /\ cr' = Tail(cr) /\ IsQueue(cr)
        /\ UNCHANGED <<mPc, typed, net, toServer, arrived, served>>
    BY <1>2, DecodesNameWhat DEF CInv, Queues
  <2>2. /\ Range(cr) = {Head(cr)} \cup Range(cr')
        /\ \A x, y : Before(cr', x, y) => Before(cr, x, y)
    BY <2>1, TailOfQueue
  <2>3. Fresh'
    BY <2>1, <2>2 DEF OInv, Fresh
  <2>4. Locals'
    BY <2>1, <2>2 DEF OInv, Locals
  <2>5. Detours'
    BY <2>1, <2>2 DEF OInv, Detours
  <2>6. Ordered'
    BY <2>1, <2>2 DEF OInv, Ordered
  <2> QED BY <2>3, <2>4, <2>5, <2>6 DEF OInv
<1> DEFINE h == Head(cr)
<1>3. ASSUME ClientServes
      PROVE  /\ cr' = Tail(cr) /\ served' = served \cup {h.of} /\ h \in Range(cr)
             /\ UNCHANGED <<mPc, typed, toServer, arrived>>
  <2>1. cr # <<>> /\ IsQueue(cr)
    BY <1>3 DEF ClientServes, CInv, Queues
  <2> QED BY <1>3, <2>1, HeadOf DEF ClientServes
<1>4. ASSUME ClientServes
      PROVE  /\ \A n \in served' : n \in Nat /\ n <= h.of
             /\ Range(cr') \subseteq Range(cr)
             /\ \A x, y : Before(cr', x, y) => Before(cr, x, y)
             /\ \A x \in Range(cr') \cup Range(net) : Waiting(x) => h.of < x.of
             /\ \A x, y : SentOrder(x, y, served)
                            /\ x \in Range(arrived) \cup Range(toServer) \cup Range(net)
                          => SentOrder(x, y, served')
             /\ \A y \in Range(arrived) \cup Range(toServer) \cup Range(net) :
                  y.op = "OP_SEND" => y.of # h.of
             /\ h.of \in Nat /\ h.of \in served'
  BY <1>4, ServesInOrder
<1> HIDE DEF h
<1>5. ASSUME ClientServes
      PROVE  /\ \A n \in served' : mPc' \in {"handle", "send"} => n < Len(typed')
             /\ \A x \in Range(cr') \cup Range(net) : Waiting(x) => \A n \in served' : n < x.of
             /\ \A x, y : Before(arrived, x, y) => SentOrder(x, y, served')
             /\ \A x, y : Before(toServer, x, y) => SentOrder(x, y, served')
             /\ \A x, y : Before(net, x, y) => SentOrder(x, y, served')
             /\ \A x \in Range(arrived), y \in Range(toServer) \cup Range(net) :
                  SentOrder(x, y, served')
             /\ \A x \in Range(toServer), y \in Range(net) : SentOrder(x, y, served')
  <2>1. \A n \in served' : mPc' \in {"handle", "send"} => n < Len(typed')
    BY <1>3, <1>5 DEF OInv, Fresh
  <2>2. ASSUME NEW x \in Range(cr') \cup Range(net), Waiting(x), NEW n \in served'
        PROVE  n < x.of
    <3>1. n \in Nat /\ n <= h.of /\ h.of < x.of /\ h.of \in Nat
      BY <1>4, <1>5, <2>2
    <3>2. x.of \in Nat
      BY <1>4, <1>5, <2>2, Numbers
    <3> QED BY <3>1, <3>2
  <2>3. /\ \A x, y : Before(arrived, x, y) => SentOrder(x, y, served) /\ x \in Range(arrived)
        /\ \A x, y : Before(toServer, x, y) => SentOrder(x, y, served) /\ x \in Range(toServer)
        /\ \A x, y : Before(net, x, y) => SentOrder(x, y, served) /\ x \in Range(net)
    BY BeforeIsInQueue DEF OInv, Ordered
  <2> QED BY <1>4, <1>5, <2>1, <2>2, <2>3 DEF OInv, Ordered
<1>6. CASE ClientServes /\ UNCHANGED net
  <2>1. UNCHANGED <<mPc, typed, toServer, arrived, net>>
    BY <1>3, <1>6
  <2>2. Fresh'
    BY <1>4, <1>5, <1>6, <2>1 DEF OInv, Fresh
  <2>3. Locals'
    BY <1>4, <1>6, <2>1 DEF OInv, Locals
  <2>4. Detours'
    BY <1>4, <1>5, <1>6, <2>1 DEF OInv, Detours
  <2>5. Ordered'
    BY <1>5, <1>6, <2>1 DEF Ordered
  <2> QED BY <2>2, <2>3, <2>4, <2>5 DEF OInv
<1>7. ASSUME NEW e, ClientAnswers(e) PROVE OInv'
  <2>1. /\ ClientServes /\ net' = Append(net, e) /\ e.op = "OP_SEND" /\ e.of = h.of
        /\ IsQueue(net)
    BY <1>7 DEF ClientAnswers, Sent, CInv, Queues, h
  <2>2. UNCHANGED <<mPc, typed, toServer, arrived>>
    BY <1>3, <2>1
  <2>3. /\ Range(net') = Range(net) \cup {e}
        /\ \A x, y : Before(net', x, y) <=> Before(net, x, y) \/ (x \in Range(net) /\ y = e)
    BY <2>1, AppendToQueue
  <2>4. Fresh'
    BY <1>3, <1>4, <1>5, <2>1, <2>2, <2>3 DEF OInv, Fresh
  <2>5. Locals'
    BY <1>4, <2>1, <2>2, <2>3 DEF OInv, Locals, InOrder
  <2>6. Detours'
    <3>1. ASSUME NEW x \in Range(cr') \cup Range(net), Waiting(x) PROVE e.of # x.of
      <4>1. h.of < x.of /\ h.of \in Nat /\ x.of \in Nat
        BY <1>4, <2>1, <3>1, Numbers
      <4> QED BY <2>1, <4>1
    <3>2. ~Waiting(e)
      BY <2>1 DEF Waiting
    <3> QED BY <1>4, <1>5, <2>1, <2>2, <2>3, <3>1, <3>2 DEF OInv, Detours
  <2>7. \A x \in Range(arrived) \cup Range(toServer) \cup Range(net) : SentOrder(x, e, served')
    <3> SUFFICES ASSUME NEW x \in Range(arrived) \cup Range(toServer) \cup Range(net),
                        x.op = "OP_SEND"
                 PROVE  x.of < e.of \/ (x.of > e.of /\ e.of \in served' /\ x.of \notin served')
      BY DEF SentOrder
    <3>1. x.of \in Nat /\ h.of \in Nat /\ x.of # h.of /\ h.of \in served'
      BY <1>4, <2>1, Numbers
    <3>2. CASE x.of < h.of
      BY <2>1, <3>2
    <3>3. CASE x.of > h.of
      <4>1. ASSUME x.of \in served' PROVE FALSE
        <5>1. x.of <= h.of
          BY <1>4, <2>1, <4>1
        <5> QED BY <3>1, <3>3, <5>1
      <4> QED BY <2>1, <3>1, <3>3, <4>1
    <3> QED BY <3>1, <3>2, <3>3
  <2>8. Ordered'
    BY <1>5, <2>1, <2>2, <2>3, <2>7 DEF Ordered
  <2> QED BY <2>4, <2>5, <2>6, <2>8 DEF OInv
<1> QED BY <1>1, <1>2, <1>6, <1>7, ClientForms

LEMMA ServerKeepsOrder == CInv /\ OInv /\ ServerStep => OInv'
<1> SUFFICES ASSUME CInv, OInv, ServerStep PROVE OInv'
  OBVIOUS
<1> DEFINE h == Head(toServer)
<1>1. /\ toServer # <<>> /\ toServer' = Tail(toServer) /\ arrived' = Append(arrived, h)
      /\ UNCHANGED <<mPc, typed, net, cr, served>>
  BY ServerForms DEF ServerTakes
<1>2. /\ Range(toServer) = {h} \cup Range(toServer')
      /\ \A x, y : Before(toServer', x, y) => Before(toServer, x, y)
      /\ \A y \in Range(toServer') : Before(toServer, h, y)
  BY <1>1, TailOfQueue DEF CInv, Queues
<1>3. /\ Range(arrived') = Range(arrived) \cup {h}
      /\ \A x, y : Before(arrived', x, y)
                      <=> Before(arrived, x, y) \/ (x \in Range(arrived) /\ y = h)
  BY <1>1, AppendToQueue DEF CInv, Queues
<1> HIDE DEF h
<1>4. Fresh'
  BY <1>1, <1>2, <1>3 DEF OInv, Fresh
<1>5. Locals'
  BY <1>1 DEF OInv, Locals
<1>6. Detours'
  BY <1>1, <1>2, <1>3 DEF OInv, Detours
<1>7. Ordered'
  BY <1>1, <1>2, <1>3 DEF OInv, Ordered
<1> QED BY <1>4, <1>5, <1>6, <1>7 DEF OInv

LEMMA StepKeepsOrder == CInv /\ OInv /\ [Next]_vars => OInv'
<1>1. OInv /\ UNCHANGED vars => OInv'
  BY DEF OInv, Fresh, Locals, Detours, Ordered, vars, main, queues, server
<1> QED BY <1>1, TypesKeepsOrder, MainKeepsOrder, NetKeepsOrder, ClientKeepsOrder, ServerKeepsOrder
        DEF Next

LEMMA OrderImplies == CInv /\ OInv => OvertakesOnlyDetours
<1> SUFFICES ASSUME CInv, OInv,
                    NEW i \in DOMAIN OnTheWay, NEW j \in DOMAIN OnTheWay, i < j
             PROVE  SentOrder(OnTheWay[i], OnTheWay[j], served)
  BY DEF OvertakesOnlyDetours, SentOrder
<1> DEFINE x == OnTheWay[i]
           y == OnTheWay[j]
<1>1. Before(OnTheWay, x, y)
  BY DEF Before
<1>2. IsQueue(arrived) /\ IsQueue(toServer) /\ IsQueue(net)
  BY DEF CInv, Queues
<1> HIDE DEF x, y
<1>3. /\ IsQueue(arrived \o toServer)
      /\ Range(arrived \o toServer) = Range(arrived) \cup Range(toServer)
      /\ Before(arrived \o toServer, x, y)
           <=> \/ Before(arrived, x, y) \/ Before(toServer, x, y)
               \/ x \in Range(arrived) /\ y \in Range(toServer)
  BY <1>2, ConcatOfQueues
<1>4. Before(OnTheWay, x, y)
        <=> \/ Before(arrived \o toServer, x, y) \/ Before(net, x, y)
            \/ x \in Range(arrived \o toServer) /\ y \in Range(net)
  BY <1>2, <1>3, ConcatOfQueues DEF OnTheWay
<1>5. SentOrder(x, y, served)
  BY <1>1, <1>3, <1>4 DEF OInv, Ordered
<1> QED BY <1>5 DEF x, y

(* Of each line the server gets at most one message, and it gets them in   *)
(* the order in which the lines were typed, except that a message for a    *)
(* local command may come after what main sends for later lines            *)
(* (CRClient::HandleInput and CRClient::RecvMessage, on two threads).      *)
THEOREM OnlyDetoursAreOvertaken == Spec => []OvertakesOnlyDetours
<1>1. Init => CInv /\ OInv
  BY InitTypes, InitOrder
<1>2. CInv /\ OInv /\ [Next]_vars => CInv' /\ OInv'
  BY StepKeepsTypes, StepKeepsOrder
<1> QED BY <1>1, <1>2, OrderImplies, PTL DEF Spec

-----------------------------------------------------------------------------
LEMMA RestOfText ==
  ASSUME NEW t, IsQueue(t), NEW j \in 0 .. Len(t)
  PROVE  /\ IsQueue(SubSeq(t, j + 1, Len(t)))
         /\ Len(SubSeq(t, j + 1, Len(t))) = Len(t) - j
         /\ DOMAIN SubSeq(t, j + 1, Len(t)) = 1 .. Len(t) - j
         /\ \A k \in 1 .. Len(t) - j : SubSeq(t, j + 1, Len(t))[k] = t[j + k]
<1> DEFINE n == Len(t)
           u == SubSeq(t, j + 1, n)
<1>1. n \in Nat /\ j \in 0 .. n
  BY QueueDomain
<1>2. /\ IsQueue(u) /\ Len(u) = n - (j + 1) + 1 /\ DOMAIN u = 1 .. n - (j + 1) + 1
      /\ \A k \in 1 .. n - (j + 1) + 1 : u[k] = t[j + 1 + k - 1]
  <2>1. j + 1 \in 1 .. n + 1 /\ j + 1 <= n + 1 /\ n <= n
    BY <1>1
  <2> HIDE DEF u
  <2>2. j + 1 \in 1 .. Len(t) + 1 /\ Len(t) \in Nat /\ j + 1 <= Len(t) + 1 /\ Len(t) <= Len(t)
    BY <1>1, <2>1
  <2> DEFINE a == j + 1
             b == Len(t)
  <2>3. a \in 1 .. Len(t) + 1 /\ b \in Nat /\ a <= b + 1 /\ b <= Len(t)
    BY <2>2
  <2> HIDE DEF a, b, n
  <2>4. /\ IsQueue(SubSeq(t, a, b)) /\ Len(SubSeq(t, a, b)) = b - a + 1
        /\ DOMAIN SubSeq(t, a, b) = 1 .. b - a + 1
        /\ \A k \in 1 .. b - a + 1 : SubSeq(t, a, b)[k] = t[a + k - 1]
    BY <2>3, PartOfText
  <2>5. SubSeq(t, a, b) = u
    BY DEF u, a, b, n
  <2> QED BY <2>4, <2>5 DEF a, b, n
<1> HIDE DEF n, u
<1>3. n - (j + 1) + 1 = n - j /\ \A k \in 1 .. n - j : j + 1 + k - 1 = j + k
  BY <1>1
<1>4. IsQueue(u) /\ Len(u) = n - j /\ DOMAIN u = 1 .. n - j /\ \A k \in 1 .. n - j : u[k] = t[j + k]
  BY <1>2, <1>3
<1> QED BY <1>4 DEF n, u

-----------------------------------------------------------------------------
(* The n-th number of a set.                                               *)

Rank(S, b) == Cardinality({y \in S : y <= b})

LEMMA RankType ==
  ASSUME NEW N \in Nat, NEW S, S \subseteq 1 .. N
  PROVE  /\ IsFiniteSet(S) /\ Cardinality(S) \in Nat
         /\ \A b : IsFiniteSet({y \in S : y <= b}) /\ Rank(S, b) \in Nat /\ Rank(S, b) <= Cardinality(S)
<1>1. IsFiniteSet(S) /\ Cardinality(S) \in Nat
  <2>1. IsFiniteSet(1 .. N)
    BY FS_Interval
  <2>2. S \in SUBSET (1 .. N)
    OBVIOUS
  <2>3. IsFiniteSet(S)
    BY <2>1, <2>2, FS_Subset
  <2> QED BY <2>3, FS_CardinalityType
<1>2. ASSUME NEW b
      PROVE  IsFiniteSet({y \in S : y <= b}) /\ Rank(S, b) \in Nat /\ Rank(S, b) <= Cardinality(S)
  <2> DEFINE T == {y \in S : y <= b}
  <2>1. T \in SUBSET S
    OBVIOUS
  <2> HIDE DEF T
  <2>2. IsFiniteSet(T) /\ Cardinality(T) <= Cardinality(S) /\ Cardinality(T) \in Nat
    BY <1>1, <2>1, FS_Subset, FS_CardinalityType
  <2> QED BY <2>2 DEF Rank, T
<1> QED BY <1>1, <1>2

LEMMA RankGrows ==
  ASSUME NEW N \in Nat, NEW S, S \subseteq 1 .. N, NEW i \in S, NEW j \in S, i < j
  PROVE  Rank(S, i) < Rank(S, j)
<1> DEFINE A == {y \in S : y <= i}
           B == {y \in S : y <= j}
<1>1. A \in SUBSET B
  <2>1. \A y \in S : y <= i => y <= j
    OBVIOUS
  <2> QED BY <2>1
<1>2. j \in B /\ j \notin A
  OBVIOUS
<1>3. IsFiniteSet(B) /\ Rank(S, i) = Cardinality(A) /\ Rank(S, j) = Cardinality(B)
      /\ Rank(S, i) \in Nat /\ Rank(S, j) \in Nat
  BY RankType DEF Rank
<1> HIDE DEF A, B
<1>4. Cardinality(A) <= Cardinality(B) /\ Cardinality(A) # Cardinality(B)
  BY <1>1, <1>2, <1>3, FS_Subset
<1> QED BY <1>3, <1>4

LEMMA NthExists ==
  ASSUME NEW N \in Nat, NEW S, S \subseteq 1 .. N, NEW k \in 1 .. Cardinality(S)
  PROVE  \E i \in S : Rank(S, i) = k
<1> DEFINE G == {b \in 0 .. N : Rank(S, b) >= k}
<1>1. k \in Nat /\ k >= 1 /\ k <= Cardinality(S) /\ Cardinality(S) \in Nat
  <2>1. Cardinality(S) \in Nat
    BY RankType
  <2> QED BY <2>1
<1>2. N \in G
  <2>1. {y \in S : y <= N} = S
    <3>1. \A y \in S : y <= N
      OBVIOUS
    <3> QED BY <3>1
  <2>2. Rank(S, N) = Cardinality(S)
    BY <2>1 DEF Rank
  <2>3. Rank(S, N) >= k /\ N \in 0 .. N
    BY <1>1, <2>2
  <2> QED BY <2>3
<1>3. PICK b \in G : \A c \in G : b <= c
  <2>1. G \subseteq Nat /\ G # {}
    BY <1>2
  <2> HIDE DEF G
  <2> QED BY <2>1, LeastNumber
<1>4. b \in 0 .. N /\ Rank(S, b) >= k
  BY <1>3
<1>5. b # 0
  <2>1. {y \in S : y <= 0} = {}
    <3>1. \A y \in S : ~(y <= 0)
      OBVIOUS
    <3> QED BY <3>1
  <2>2. Rank(S, 0) = 0
    BY <2>1, FS_EmptySet DEF Rank
  <2> QED BY <1>1, <1>4, <2>2
<1> DEFINE a == b - 1
           A == {y \in S : y <= a}
           B == {y \in S : y <= b}
<1>6. a \in 0 .. N /\ b = a + 1 /\ ~(b <= a)
  BY <1>4, <1>5
<1>7. ~(Rank(S, a) >= k)
  <2>1. a \notin G
    BY <1>3, <1>6
  <2> QED BY <1>6, <2>1
<1>8. /\ IsFiniteSet(A) /\ Rank(S, a) = Cardinality(A) /\ Rank(S, b) = Cardinality(B)
      /\ Rank(S, a) \in Nat /\ Rank(S, b) \in Nat
  BY RankType DEF Rank
<1>9. B = (IF b \in S THEN A \cup {b} ELSE A) /\ b \notin A
  <2>1. \A y \in S : y <= b <=> y <= a \/ y = b
    BY <1>6
  <2> QED BY <1>6, <2>1
<1> HIDE DEF G, A, B, a
<1>10. b \in S
  BY <1>4, <1>7, <1>8, <1>9
<1>11. Cardinality(B) = Cardinality(A) + 1
  BY <1>8, <1>9, <1>10, FS_AddElement
<1>12. Rank(S, b) = k
  BY <1>1, <1>4, <1>7, <1>8, <1>11
<1> QED BY <1>10, <1>12

LEMMA NthIs ==
  ASSUME NEW N \in Nat, NEW S, S \subseteq 1 .. N, NEW i \in S
  PROVE  Nth(S, Rank(S, i)) = i
<1> DEFINE P(x) == Rank(S, x) = Rank(S, i)
<1>1. ASSUME NEW j \in S, P(j) PROVE j = i
  <2>1. i \in Nat /\ j \in Nat
    OBVIOUS
  <2>2. Rank(S, i) \in Nat /\ Rank(S, j) \in Nat
    BY RankType
  <2>3. i < j => Rank(S, i) < Rank(S, j)
    BY RankGrows
  <2>4. j < i => Rank(S, j) < Rank(S, i)
    BY RankGrows
  <2>5. ~(i < j) /\ ~(j < i)
    BY <1>1, <2>2, <2>3, <2>4
  <2> QED BY <2>1, <2>5
<1>2. P(i)
  OBVIOUS
<1>3. Nth(S, Rank(S, i)) = CHOOSE x \in S : P(x)
  BY DEF Nth, Rank
<1> HIDE DEF P
<1> QED BY <1>1, <1>2, <1>3

(* A set of numbers moved by d, and one number before it.                  *)
Shifted(T, d, i) == {i} \cup {x + d : x \in T}

RanksShifted(S, T, d, i) ==
  /\ Cardinality(S) = Cardinality(T) + 1
  /\ Rank(S, i) = 1
  /\ \A x \in T : x + d \in S /\ Rank(S, x + d) = Rank(T, x) + 1

LEMMA RankShifted ==
  ASSUME NEW M \in Nat, NEW T, T \subseteq 1 .. M, NEW d \in Nat, NEW i \in 1 .. d,
         NEW S, S = Shifted(T, d, i)
  PROVE  S \subseteq 1 .. M + d /\ RanksShifted(S, T, d, i)
<1>0. S = {i} \cup {x + d : x \in T}
  BY DEF Shifted
<1>1. \A x \in T : x \in 1 .. M /\ x + d \in 1 .. M + d /\ x + d > i /\ x + d # i
  OBVIOUS
<1>2. S \subseteq 1 .. M + d
  <2>1. i \in 1 .. M + d
    OBVIOUS
  <2> QED BY <1>0, <1>1, <2>1
<1>3. ASSUME NEW U, U \subseteq T
      PROVE  Cardinality({i} \cup {x + d : x \in U}) = Cardinality(U) + 1
  <2> DEFINE V == {x + d : x \in U}
             f == [x \in U |-> x + d]
  <2>1. IsFiniteSet(U)
    <3>1. IsFiniteSet(T) /\ U \in SUBSET T
      BY <1>3, RankType
    <3> QED BY <3>1, FS_Subset
  <2>2. f \in Bijection(U, V)
    <3>1. f \in [U -> V] /\ \A v \in V : \E x \in U : f[x] = v
      OBVIOUS
    <3>2. \A x, y \in U : f[x] = f[y] => x = y
      <4>1. \A x \in U : x \in Nat /\ f[x] = x + d
        BY <1>1, <1>3
      <4> HIDE DEF f
      <4> QED BY <4>1
    <3> HIDE DEF f, V
    <3>3. f \in Injection(U, V)
      BY <3>1, <3>2 DEF Injection, IsInjective
    <3>4. f \in Surjection(U, V)
      BY <3>1 DEF Surjection
    <3> QED BY <3>3, <3>4 DEF Bijection
  <2>3. i \notin V
    BY <1>1, <1>3
  <2> HIDE DEF f, V
  <2>4. IsFiniteSet(V) /\ Cardinality(V) = Cardinality(U)
    BY <2>1, <2>2, FS_Bijection DEF ExistsBijection
  <2>5. Cardinality(V \cup {i}) = Cardinality(V) + 1
    BY <2>3, <2>4, FS_AddElement
  <2>6. V \cup {i} = {i} \cup V
    OBVIOUS
  <2> QED BY <2>4, <2>5, <2>6 DEF V
<1>4. Cardinality(S) = Cardinality(T) + 1
  BY <1>0, <1>3
<1>5. Rank(S, i) = 1
  <2>1. {y \in S : y <= i} = {i}
    <3>1. i <= i /\ \A x \in T : ~(x + d <= i)
      BY <1>1
    <3> QED BY <1>0, <3>1
  <2> QED BY <2>1, FS_Singleton DEF Rank
<1>6. ASSUME NEW x \in T
      PROVE  Rank(S, x + d) = Rank(T, x) + 1
  <2> DEFINE U == {y \in T : y <= x}
  <2>1. {y \in S : y <= x + d} = {i} \cup {y + d : y \in U}
    <3>1. i <= x + d
      BY <1>1
    <3>2. \A y \in T : y + d <= x + d <=> y <= x
      BY <1>1
    <3> QED BY <1>0, <3>1, <3>2
  <2>2. U \subseteq T
    OBVIOUS
  <2> HIDE DEF U
  <2>3. Cardinality({i} \cup {y + d : y \in U}) = Cardinality(U) + 1
    BY <1>3, <2>2
  <2>4. Rank(S, x + d) = Cardinality(U) + 1
    BY <2>1, <2>3 DEF Rank
  <2>5. Rank(T, x) = Cardinality(U)
    BY DEF Rank, U
  <2> QED BY <2>4, <2>5
<1>7. \A x \in T : x + d \in S
  BY <1>0
<1> QED BY <1>2, <1>4, <1>5, <1>6, <1>7 DEF RanksShifted

-----------------------------------------------------------------------------
(* The words of a text, one by one.                                        *)

LEMMA CountedQueue ==
  ASSUME NEW c \in Nat, NEW w, w = [k \in 1 .. c |-> w[k]]
  PROVE  IsQueue(w) /\ Len(w) = c
<1>1. w \in [1 .. c -> Range(w)]
  BY DEF Range
<1>2. w \in Seq(Range(w))
  BY <1>1, SeqDef
<1>3. DOMAIN w = 1 .. c
  BY <1>1
<1>4. Len(w) = c
  BY <1>2, <1>3, LenProperties
<1> QED BY <1>2, <1>4 DEF IsQueue

WordEnd(t, i, j) == /\ \A k \in i .. j : t[k] # BLANK
                    /\ j = Len(t) \/ t[j + 1] = BLANK

LEMMA WordIs ==
  ASSUME NEW t, IsQueue(t), NEW i \in 1 .. Len(t), NEW j \in i .. Len(t), WordEnd(t, i, j)
  PROVE  WordAt(t, i) = SubSeq(t, i, j)
<1> DEFINE n == Len(t)
<1>1. n \in Nat
  BY QueueDomain
<1> HIDE DEF n
<1>2. ASSUME NEW e \in i .. n, WordEnd(t, i, e) PROVE e = j
  <2>1. i \in Nat /\ j \in i .. n
    BY <1>1 DEF n
  <2>2. ASSUME e < j PROVE FALSE
    <3>1. e # n /\ e + 1 \in i .. j
      BY <1>1, <2>1, <2>2
    <3> QED BY <1>2, <3>1 DEF WordEnd, n
  <2>3. ASSUME j < e PROVE FALSE
    <3>1. j # n /\ j + 1 \in i .. e
      BY <1>1, <2>1, <2>3
    <3> QED BY <1>2, <3>1 DEF WordEnd, n
  <2> QED BY <1>1, <2>1, <2>2, <2>3
<1>3. WordAt(t, i) = SubSeq(t, i, CHOOSE e \in i .. n : WordEnd(t, i, e))
  BY DEF WordAt, WordEnd, n
<1>4. (CHOOSE e \in i .. n : WordEnd(t, i, e)) = j
  BY <1>2 DEF n
<1> QED BY <1>3, <1>4

LEMMA WordEnds ==
  ASSUME NEW t, IsQueue(t), NEW i \in 1 .. Len(t), t[i] # BLANK
  PROVE  \E j \in i .. Len(t) : WordEnd(t, i, j)
<1> DEFINE n == Len(t)
           G == {j \in i .. n : j = n \/ t[j + 1] = BLANK}
<1>1. n \in Nat /\ i \in 1 .. n
  BY QueueDomain
<1>2. n \in i .. n
  BY <1>1
<1>3. G \subseteq Nat /\ G # {}
  BY <1>1, <1>2
<1>4. PICK j \in G : \A k \in G : j <= k
  <2> HIDE DEF G
  <2> QED BY <1>3, LeastNumber
<1>5. j \in i .. n /\ (j = n \/ t[j + 1] = BLANK)
  BY <1>4
<1>6. ASSUME NEW k \in i .. j PROVE t[k] # BLANK
  <2>1. CASE k = i
    BY <2>1
  <2>2. CASE k # i
    <3> DEFINE e == k - 1
    <3>1. e \in i .. n /\ ~(j <= e) /\ k = e + 1
      BY <1>1, <1>5, <1>6, <2>2
    <3>2. e \notin G
      BY <1>4, <3>1
    <3> HIDE DEF e
    <3> QED BY <3>1, <3>2
  <2> QED BY <2>1, <2>2
<1> QED BY <1>5, <1>6 DEF WordEnd

LEMMA NoWords ==
  ASSUME NEW t, IsQueue(t), \A k \in 1 .. Len(t) : t[k] = BLANK
  PROVE  WordsOf(t) = <<>>
<1>1. StartsOf(t) = {}
  BY QueueDomain DEF StartsOf
<1> DEFINE w == WordsOf(t)
<1>2. w = [k \in 1 .. 0 |-> w[k]]
  BY <1>1, FS_EmptySet DEF WordsOf
<1> HIDE DEF w
<1>3. IsQueue(w) /\ Len(w) = 0
  BY <1>2, CountedQueue
<1>4. w = <<>>
  BY <1>3, EmptySeq DEF IsQueue
<1> QED BY <1>4 DEF w

(* A text is blanks, a word and the rest.                                  *)
Splits(t, i, j) ==
  /\ i \in 1 .. Len(t) /\ j \in i .. Len(t)
  /\ \A k \in 1 .. i - 1 : t[k] = BLANK
  /\ WordEnd(t, i, j)

LEMMA StartsOfRest ==
  ASSUME NEW t, IsQueue(t), NEW i, NEW j, Splits(t, i, j)
  PROVE  StartsOf(t) = Shifted(StartsOf(SubSeq(t, j + 1, Len(t))), j, i)
<1> DEFINE n == Len(t)
           u == SubSeq(t, j + 1, n)
           M == n - j
<1>1. n \in Nat /\ i \in 1 .. n /\ j \in i .. n /\ DOMAIN t = 1 .. n /\ M \in Nat
  BY QueueDomain DEF Splits
<1>2. IsQueue(u) /\ Len(u) = M /\ DOMAIN u = 1 .. M /\ \A k \in 1 .. M : u[k] = t[j + k]
  <2>1. j \in 0 .. Len(t)
    BY <1>1
  <2> QED BY <2>1, RestOfText
<1>3. /\ \A k \in 1 .. i - 1 : t[k] = BLANK
      /\ \A k \in i .. j : t[k] # BLANK
      /\ j # n => t[j + 1] = BLANK
  BY DEF Splits, WordEnd
<1> HIDE DEF n, u, M
<1>4. M = n - j
  BY DEF M
<1>5. i \in StartsOf(t)
  <2>1. t[i] # BLANK
    BY <1>1, <1>3
  <2>2. i = 1 \/ t[i - 1] = BLANK
    BY <1>1, <1>3
  <2> QED BY <1>1, <2>1, <2>2 DEF StartsOf
<1>6. ASSUME NEW m \in StartsOf(u) PROVE m + j \in StartsOf(t)
  <2>1. m \in 1 .. M /\ u[m] # BLANK /\ (m = 1 \/ u[m - 1] = BLANK)
    BY <1>2 DEF StartsOf
  <2>2. m + j \in 1 .. n /\ t[m + j] # BLANK
    <3>1. m + j = j + m /\ m + j \in 1 .. n
      BY <1>1, <1>4, <2>1
    <3> QED BY <1>2, <2>1, <3>1
  <2>3. m # 1
    <3>1. ASSUME m = 1 PROVE FALSE
      <4>1. j # n /\ m + j = j + 1
        BY <1>1, <1>4, <2>1, <3>1
      <4> QED BY <1>3, <2>2, <4>1
    <3> QED BY <3>1
  <2>4. t[m + j - 1] = BLANK
    <3>1. m - 1 \in 1 .. M /\ j + (m - 1) = m + j - 1
      BY <1>1, <1>4, <2>1, <2>3
    <3> QED BY <1>2, <2>1, <2>3, <3>1
  <2> DEFINE k == m + j
  <2>5. k \in DOMAIN t /\ t[k] # BLANK /\ t[k - 1] = BLANK
    <3>1. k \in DOMAIN t
      BY <1>1, <2>2
    <3>2. t[k] # BLANK
      BY <2>2
    <3>3. t[k - 1] = BLANK
      <4>1. k - 1 = m + (j - 1)
        BY <1>1, <1>4, <2>1
      <4> QED BY <2>4, <4>1
    <3> QED BY <3>1, <3>2, <3>3
  <2> HIDE DEF k
  <2>6. k \in StartsOf(t)
    BY <2>5 DEF StartsOf
  <2> QED BY <2>6 DEF k
<1>7. ASSUME NEW k \in StartsOf(t), k # i
      PROVE  k - j \in StartsOf(u) /\ k = (k - j) + j
  <2>1. k \in 1 .. n /\ t[k] # BLANK /\ (k = 1 \/ t[k - 1] = BLANK)
    BY <1>1 DEF StartsOf
  <2>2. k > i
    <3>1. ASSUME k < i PROVE FALSE
      <4>1. k \in 1 .. i - 1
        BY <1>1, <2>1, <3>1
      <4> QED BY <1>3, <2>1, <4>1
    <3> QED BY <1>1, <1>7, <2>1, <3>1
  <2>3. k > j
    <3>1. ASSUME k <= j PROVE FALSE
      <4>1. k - 1 \in i .. j /\ k # 1
        BY <1>1, <2>1, <2>2, <3>1
      <4> QED BY <1>3, <2>1, <4>1
    <3> QED BY <1>1, <2>1, <3>1
  <2>4. k # j + 1
    <3>1. ASSUME k = j + 1 PROVE FALSE
      <4>1. j # n
        BY <1>1, <2>1, <3>1
      <4> QED BY <1>3, <2>1, <3>1, <4>1
    <3> QED BY <3>1
  <2>5. k - j \in 1 .. M /\ k - j - 1 \in 1 .. M /\ j + (k - j) = k /\ j + (k - j - 1) = k - 1
        /\ k # 1 /\ k = (k - j) + j
    BY <1>1, <1>4, <2>1, <2>3, <2>4
  <2>6. u[k - j] # BLANK /\ u[k - j - 1] = BLANK
    BY <1>2, <2>1, <2>5
  <2> QED BY <1>2, <2>5, <2>6 DEF StartsOf
<1>8. StartsOf(t) = {i} \cup {m + j : m \in StartsOf(u)}
  BY <1>5, <1>6, <1>7
<1> QED BY <1>8 DEF u, n, Shifted

LEMMA WordsSplit ==
  ASSUME NEW t, IsQueue(t), NEW i, NEW j, Splits(t, i, j)
  PROVE  LET w == WordsOf(t)    v == WordsOf(SubSeq(t, j + 1, Len(t))) IN
         /\ IsQueue(w) /\ IsQueue(v) /\ Len(w) = Len(v) + 1
         /\ w # <<>> /\ w[1] = SubSeq(t, i, j) /\ Tail(w) = v
<1> DEFINE n == Len(t)
           u == SubSeq(t, j + 1, n)
           M == n - j
           S == StartsOf(t)
           T == StartsOf(u)
           w == WordsOf(t)
           v == WordsOf(u)
           c == Cardinality(T)
<1>1. n \in Nat /\ i \in 1 .. n /\ j \in i .. n /\ DOMAIN t = 1 .. n /\ M \in Nat
  BY QueueDomain DEF Splits
<1>2. IsQueue(u) /\ Len(u) = M /\ DOMAIN u = 1 .. M /\ \A k \in 1 .. M : u[k] = t[j + k]
  <2>1. j \in 0 .. Len(t)
    BY <1>1
  <2> QED BY <2>1, RestOfText
<1>3. T \subseteq 1 .. M
  BY <1>2 DEF StartsOf
<1>4. /\ S \subseteq 1 .. M + j
      /\ Cardinality(S) = Cardinality(T) + 1
      /\ Rank(S, i) = 1
      /\ \A x \in T : x + j \in S /\ Rank(S, x + j) = Rank(T, x) + 1
  <2>1. S = Shifted(T, j, i)
    BY StartsOfRest
  <2>2. j \in Nat /\ i \in 1 .. j
    BY <1>1
  <2>3. M \in Nat
    BY <1>1
  <2> HIDE DEF S, T, M
  <2>4. S \subseteq 1 .. M + j /\ RanksShifted(S, T, j, i)
    BY <1>3, <2>1, <2>2, <2>3, RankShifted
  <2> QED BY <2>4 DEF RanksShifted
<1>5. c \in Nat
  <2> HIDE DEF T, M
  <2> QED BY <1>1, <1>3, RankType
<1>6. /\ M + j \in Nat /\ i \in S
      /\ WordEnd(t, i, j)
      /\ \A x \in T : u[x] # BLANK
  <2>1. M + j \in Nat
    BY <1>1
  <2>2. i \in S
    BY StartsOfRest DEF Shifted
  <2>3. WordEnd(t, i, j)
    BY DEF Splits
  <2>4. \A x \in T : u[x] # BLANK
    BY DEF StartsOf
  <2> QED BY <2>1, <2>2, <2>3, <2>4
<1>7. w = [k \in 1 .. c + 1 |-> WordAt(t, Nth(S, k))] /\ v = [k \in 1 .. c |-> WordAt(u, Nth(T, k))]
  BY <1>4 DEF WordsOf
<1> HIDE DEF u, M, S, T, w, v, c
<1>8. IsQueue(w) /\ Len(w) = c + 1 /\ IsQueue(v) /\ Len(v) = c
  <2>1. w = [k \in 1 .. c + 1 |-> w[k]] /\ v = [k \in 1 .. c |-> v[k]] /\ c + 1 \in Nat
    BY <1>5, <1>7
  <2> QED BY <1>5, <2>1, CountedQueue
<1>9. w[1] = SubSeq(t, i, j)
  <2>1. 1 \in 1 .. c + 1
    BY <1>5
  <2>2. Nth(S, 1) = i
    BY <1>4, <1>6, NthIs
  <2>3. WordAt(t, i) = SubSeq(t, i, j)
    BY <1>1, <1>6, WordIs
  <2> QED BY <1>7, <2>1, <2>2, <2>3
<1>10. ASSUME NEW k \in 1 .. c PROVE w[k + 1] = v[k]
  <2>1. PICK x \in T : Rank(T, x) = k
    BY <1>1, <1>3, NthExists DEF c
  <2>2. Nth(T, k) = x
    BY <1>1, <1>3, <2>1, NthIs
  <2>3. x + j \in S /\ Rank(S, x + j) = k + 1
    BY <1>4, <2>1
  <2>4. Nth(S, k + 1) = x + j
    BY <1>4, <1>6, <2>3, NthIs
  <2>5. k + 1 \in 1 .. c + 1
    BY <1>5
  <2>6. w[k + 1] = WordAt(t, x + j) /\ v[k] = WordAt(u, x)
    BY <1>7, <2>2, <2>4, <2>5
  <2>7. x \in 1 .. M
    BY <1>3, <2>1
  <2>8. PICK e \in x .. M : WordEnd(u, x, e)
    BY <1>2, <1>6, <2>1, <2>7, WordEnds
  <2>9. WordAt(u, x) = SubSeq(u, x, e)
    BY <1>2, <2>7, <2>8, WordIs
  <2>10. /\ x + j \in 1 .. n /\ e + j \in x + j .. n
         /\ e \in 1 .. M /\ M = n - j
    BY <1>1, <2>7, <2>8 DEF M
  <2>11. WordEnd(t, x + j, e + j)
    <3>1. ASSUME NEW k0 \in x + j .. e + j PROVE t[k0] # BLANK
      <4>1. k0 - j \in x .. e /\ k0 - j \in 1 .. M /\ j + (k0 - j) = k0
        BY <1>1, <2>7, <2>10, <3>1
      <4>2. u[k0 - j] # BLANK /\ u[k0 - j] = t[j + (k0 - j)]
        BY <1>2, <2>8, <4>1 DEF WordEnd
      <4> QED BY <4>1, <4>2
    <3>2. ASSUME e + j # n PROVE t[e + j + 1] = BLANK
      <4>1. e # M /\ e + 1 \in 1 .. M /\ j + (e + 1) = e + j + 1
        <5>1. e \in Nat /\ M \in Nat /\ n \in Nat /\ j \in Nat /\ M = n - j /\ e >= 1 /\ e <= M
          BY <1>1, <2>10 DEF M
        <5> HIDE DEF n
        <5> QED BY <3>2, <5>1
      <4>2. u[e + 1] = BLANK
        BY <1>2, <2>8, <4>1 DEF WordEnd
      <4>3. u[e + 1] = t[j + (e + 1)]
        BY <1>2, <4>1
      <4> QED BY <4>1, <4>2, <4>3
    <3> QED BY <3>1, <3>2 DEF WordEnd
  <2>12. WordAt(t, x + j) = SubSeq(t, x + j, e + j)
    BY <2>10, <2>11, WordIs
  <2>13. SubSeq(t, x + j, e + j) = SubSeq(u, x, e)
    <3> DEFINE p == SubSeq(t, x + j, e + j)
               q == SubSeq(u, x, e)
               z == e - x + 1
    <3>1. /\ x + j \in 1 .. n + 1 /\ e + j \in Nat /\ x + j <= (e + j) + 1 /\ e + j <= n
          /\ x \in 1 .. M + 1 /\ e \in Nat /\ x <= e + 1 /\ e <= M
          /\ (e + j) - (x + j) + 1 = z /\ e - x + 1 = z
          /\ \A k0 \in 1 .. z : /\ x + k0 - 1 \in 1 .. M
                                /\ j + (x + k0 - 1) = x + j + k0 - 1
      BY <1>1, <2>7, <2>8, <2>10
    <3>2. /\ IsQueue(p) /\ Len(p) = (e + j) - (x + j) + 1
          /\ \A k0 \in 1 .. (e + j) - (x + j) + 1 : p[k0] = t[x + j + k0 - 1]
      BY <3>1, PartOfText
    <3>3. /\ IsQueue(q) /\ Len(q) = e - x + 1
          /\ \A k0 \in 1 .. e - x + 1 : q[k0] = u[x + k0 - 1]
      <4>1. x \in 1 .. Len(u) + 1 /\ e \in Nat /\ x <= e + 1 /\ e <= Len(u)
        BY <1>2, <3>1
      <4> QED BY <1>2, <4>1, PartOfText
    <3> HIDE DEF p, q, z
    <3>4. /\ Len(p) = z /\ Len(q) = z
          /\ \A k0 \in 1 .. z : p[k0] = t[x + j + k0 - 1] /\ q[k0] = u[x + k0 - 1]
      BY <3>1, <3>2, <3>3
    <3>5. \A k0 \in 1 .. z : p[k0] = q[k0]
      BY <1>2, <3>1, <3>4
    <3>6. p = q
      BY <3>2, <3>3, <3>4, <3>5, SameQueue
    <3> QED BY <3>6 DEF p, q
  <2> QED BY <2>6, <2>9, <2>12, <2>13
<1>11. w # <<>>
  <2>1. Len(w) # 0
    BY <1>5, <1>8
  <2> QED BY <2>1, EmptySeq
<1>12. Tail(w) = v
  <2>1. IsQueue(Tail(w)) /\ Len(Tail(w)) = c /\ \A k \in 1 .. c : Tail(w)[k] = w[k + 1]
    <3>1. /\ Tail(w) \in Seq(Range(w)) /\ Len(Tail(w)) = Len(w) - 1
          /\ \A k \in 1 .. Len(Tail(w)) : Tail(w)[k] = w[k + 1]
      BY <1>8, <1>11, HeadTailProperties DEF IsQueue
    <3>2. Len(Tail(w)) = c
      BY <1>5, <1>8, <3>1
    <3> QED BY <3>1, <3>2, AnySeqIsQueue
  <2>2. \A k \in 1 .. Len(Tail(w)) : Tail(w)[k] = v[k]
    BY <1>10, <2>1
  <2> QED BY <1>8, <2>1, <2>2, SameQueue
<1> QED BY <1>8, <1>9, <1>11, <1>12 DEF w, v, u, n

(* The words after the first.                                              *)
LEMMA OneMoreWord ==
  ASSUME NEW w, NEW v, IsQueue(w), IsQueue(v), Len(w) = Len(v) + 1, Tail(w) = v
  PROVE  /\ w # <<>> /\ Len(v) \in Nat
         /\ \A k \in 1 .. Len(v) : w[k + 1] = v[k]
<1>1. Len(w) \in Nat /\ Len(v) \in Nat
  BY QueueDomain
<1>2. w # <<>>
  BY <1>1, EmptySeq
<1>3. Len(Tail(w)) = Len(w) - 1 /\ \A k \in 1 .. Len(Tail(w)) : Tail(w)[k] = w[k + 1]
  BY <1>2, HeadTailProperties DEF IsQueue
<1> QED BY <1>1, <1>2, <1>3

LEMMA SameWords ==
  ASSUME NEW w, NEW v, NEW x, IsQueue(w), IsQueue(v), IsQueue(x),
         Len(w) = Len(x) + 1, Len(v) = Len(x) + 1,
         Tail(w) = x, Tail(v) = x, w[1] = v[1]
  PROVE  w = v
<1>1. Len(x) \in Nat /\ \A k \in 1 .. Len(x) : w[k + 1] = x[k] /\ v[k + 1] = x[k]
  BY OneMoreWord
<1>2. ASSUME NEW k \in 1 .. Len(w) PROVE w[k] = v[k]
  <2>1. CASE k = 1
    BY <2>1
  <2>2. CASE k # 1
    <3> DEFINE e == k - 1
    <3>1. e \in 1 .. Len(x) /\ k = e + 1
      BY <1>1, <2>2
    <3> HIDE DEF e
    <3> QED BY <1>1, <3>1
  <2> QED BY <2>1, <2>2
<1> QED BY <1>2, SameQueue

LEMMA PartOfPart ==
  ASSUME NEW t, IsQueue(t), NEW d \in 0 .. Len(t), NEW x \in Nat, NEW y \in Nat,
         x >= 1, x <= y + 1, y <= Len(t) - d
  PROVE  SubSeq(SubSeq(t, d + 1, Len(t)), x, y) = SubSeq(t, d + x, d + y)
<1> DEFINE n == Len(t)
           M == n - d
           u == SubSeq(t, d + 1, n)
           p == SubSeq(t, d + x, d + y)
           q == SubSeq(u, x, y)
           z == y - x + 1
<1>1. n \in Nat /\ d \in Nat /\ d <= n /\ M \in Nat /\ M = n - d
  BY QueueDomain
<1>2. IsQueue(u) /\ Len(u) = M /\ \A k \in 1 .. M : u[k] = t[d + k]
  BY RestOfText
<1>3. /\ d + x \in 1 .. n + 1 /\ d + y \in Nat /\ d + x <= (d + y) + 1 /\ d + y <= n
      /\ (d + y) - (d + x) + 1 = z
      /\ x \in 1 .. M + 1 /\ y <= M
      /\ \A k \in 1 .. z : x + k - 1 \in 1 .. M /\ d + (x + k - 1) = (d + x) + k - 1
  BY <1>1
<1>4. /\ IsQueue(p) /\ Len(p) = (d + y) - (d + x) + 1
      /\ \A k \in 1 .. (d + y) - (d + x) + 1 : p[k] = t[(d + x) + k - 1]
  BY <1>3, PartOfText
<1> HIDE DEF u
<1>5. /\ IsQueue(q) /\ Len(q) = y - x + 1
      /\ \A k \in 1 .. y - x + 1 : q[k] = u[x + k - 1]
  <2>1. x \in 1 .. Len(u) + 1 /\ y <= Len(u)
    BY <1>2, <1>3
  <2> QED BY <1>2, <2>1, PartOfText
<1> HIDE DEF p, q, M, n
<1>6. Len(p) = z /\ Len(q) = z
  BY <1>3, <1>4, <1>5
<1>7. ASSUME NEW k \in 1 .. z PROVE p[k] = q[k]
  <2>1. p[k] = t[(d + x) + k - 1]
    BY <1>3, <1>4
  <2>2. q[k] = u[x + k - 1]
    BY <1>5
  <2>3. u[x + k - 1] = t[d + (x + k - 1)]
    BY <1>2, <1>3
  <2>4. d + (x + k - 1) = (d + x) + k - 1
    BY <1>3
  <2> QED BY <2>1, <2>2, <2>3, <2>4
<1> HIDE DEF z
<1>8. p = q
  BY <1>4, <1>5, <1>6, <1>7, SameQueue
<1> QED BY <1>8 DEF p, q, u, n

-----------------------------------------------------------------------------
(* The loops of the parser, over the line, its NUL and what is behind.     *)

InMemory(text, line) ==
  /\ IsQueue(text) /\ IsQueue(line) /\ Len(text) > Len(line)
  /\ \A k \in 1 .. Len(line) : text[k] = line[k] /\ line[k] # NUL
  /\ text[Len(line) + 1] = NUL

LEMMA LineInMemory ==
  ASSUME NEW line, NEW behind, IsQueue(line), IsQueue(behind), NUL \notin Range(line)
  PROVE  InMemory(line \o <<NUL>> \o behind, line)
<1> DEFINE L == Len(line)
           a == line \o <<NUL>>
           t == a \o behind
           S == Range(line) \cup {NUL} \cup Range(behind)
<1>1. L \in Nat /\ Len(behind) \in Nat /\ DOMAIN line = 1 .. L
  BY QueueDomain
<1>2. /\ line \in Seq(S) /\ <<NUL>> \in Seq(S) /\ behind \in Seq(S)
      /\ Len(<<NUL>>) = 1 /\ <<NUL>>[1] = NUL
  <2>1. /\ Range(line) \subseteq S /\ Range(behind) \subseteq S /\ NUL \in S
        /\ line \in Seq(Range(line)) /\ behind \in Seq(Range(behind))
    BY DEF IsQueue
  <2> HIDE DEF S
  <2> QED BY <2>1, SeqMonotonic
<1> HIDE DEF S
<1>3. /\ a \in Seq(S) /\ Len(a) = L + 1
      /\ \A i \in 1 .. L + 1 : a[i] = IF i <= L THEN line[i] ELSE <<NUL>>[i - L]
  BY <1>2, ConcatProperties
<1> HIDE DEF a
<1>4. /\ t \in Seq(S) /\ Len(t) = Len(a) + Len(behind)
      /\ \A i \in 1 .. Len(a) + Len(behind) : t[i] = IF i <= Len(a) THEN a[i] ELSE behind[i - Len(a)]
  BY <1>2, <1>3, ConcatProperties
<1>5. IsQueue(t) /\ Len(t) > L
  <2> HIDE DEF t
  <2>1. IsQueue(t)
    BY <1>4, AnySeqIsQueue
  <2>2. Len(t) > L
    BY <1>1, <1>3, <1>4
  <2> QED BY <2>1, <2>2
<1>6. ASSUME NEW k \in 1 .. L PROVE t[k] = line[k] /\ line[k] # NUL
  <2>1. k \in 1 .. Len(a) + Len(behind) /\ k <= Len(a) /\ k \in 1 .. L + 1 /\ k <= L
    BY <1>1, <1>3
  <2>2. line[k] \in Range(line)
    BY <1>1 DEF Range
  <2> QED BY <1>3, <1>4, <2>1, <2>2
<1>7. t[L + 1] = NUL
  <2>1. /\ L + 1 \in 1 .. Len(a) + Len(behind) /\ L + 1 <= Len(a) /\ L + 1 \in 1 .. L + 1
        /\ ~(L + 1 <= L) /\ (L + 1) - L = 1
    BY <1>1, <1>3
  <2> QED BY <1>2, <1>3, <1>4, <2>1
<1> QED BY <1>5, <1>6, <1>7 DEF InMemory, a

LEMMA FirstOf ==
  ASSUME NEW i \in Nat, NEW m \in Nat, i <= m, NEW A, m \in A
  PROVE  \E j \in i .. m : j \in A /\ \A k \in i .. j - 1 : k \notin A
<1> DEFINE G == {j \in i .. m : j \in A}
<1>1. G \subseteq Nat /\ m \in G
  OBVIOUS
<1>2. PICK j \in G : \A k \in G : j <= k
  <2> HIDE DEF G
  <2> QED BY <1>1, LeastNumber
<1>3. ASSUME NEW k \in i .. j - 1 PROVE k \notin A
  <2>1. k \in i .. m /\ ~(j <= k)
    BY <1>2
  <2> QED BY <1>2, <2>1
<1> QED BY <1>2, <1>3

(* Where each loop ends, started inside the line.                          *)
LEMMA BlanksSkipped ==
  ASSUME NEW text, NEW line, InMemory(text, line), NEW i \in 1 .. Len(line) + 1
  PROVE  LET j == SkipBlanks(text, i) IN
         j \in i .. Len(line) + 1 /\ text[j] # BLANK /\ \A k \in i .. j - 1 : text[k] = BLANK
<1> DEFINE N == Len(text)
           L == Len(line)
           P(x) == text[x] # BLANK /\ \A k \in i .. x - 1 : ~(text[k] # BLANK)
           j == CHOOSE x \in i .. N : P(x)
<1>1. N \in Nat /\ L \in Nat /\ N > L /\ text[L + 1] # BLANK
  BY QueueDomain DEF InMemory, BLANK, NUL
<1>2. PICK m \in i .. L + 1 : P(m)
  <2> DEFINE A == {x \in i .. L + 1 : text[x] # BLANK}
  <2>1. L + 1 \in A /\ i <= L + 1 /\ i \in Nat /\ L + 1 \in Nat
    BY <1>1
  <2>2. PICK m \in i .. L + 1 : m \in A /\ \A k \in i .. m - 1 : k \notin A
    <3> HIDE DEF A
    <3> QED BY <2>1, FirstOf
  <2>3. \A k \in i .. m - 1 : k \in i .. L + 1
    BY <1>1, <2>2
  <2> QED BY <2>2, <2>3
<1>3. m \in i .. N
  BY <1>1, <1>2
<1>4. j \in i .. N /\ P(j)
  <2> HIDE DEF P
  <2> QED BY <1>2, <1>3
<1>5. SkipBlanks(text, i) = j
  BY DEF SkipBlanks, Until
<1> HIDE DEF j
<1>6. j <= m
  <2>1. ASSUME m < j PROVE FALSE
    <3>1. m \in i .. j - 1
      BY <1>1, <1>2, <1>4, <2>1
    <3> QED BY <1>2, <1>4, <3>1
  <2> QED BY <1>1, <1>2, <1>4, <2>1
<1>7. j \in i .. L + 1
  BY <1>1, <1>2, <1>4, <1>6
<1> QED BY <1>4, <1>5, <1>7

LEMMA WordEnded ==
  ASSUME NEW text, NEW line, InMemory(text, line), NEW i \in 1 .. Len(line) + 1
  PROVE  LET j == EndOfWord(text, i) IN
         /\ j \in i .. Len(line) + 1
         /\ text[j] \in {BLANK, NUL} /\ \A k \in i .. j - 1 : text[k] \notin {BLANK, NUL}
<1> DEFINE N == Len(text)
           L == Len(line)
           P(x) == text[x] \in {BLANK, NUL} /\ \A k \in i .. x - 1 : ~(text[k] \in {BLANK, NUL})
           j == CHOOSE x \in i .. N : P(x)
<1>1. N \in Nat /\ L \in Nat /\ N > L /\ text[L + 1] \in {BLANK, NUL}
  BY QueueDomain DEF InMemory
<1>2. PICK m \in i .. L + 1 : P(m)
  <2> DEFINE A == {x \in i .. L + 1 : text[x] \in {BLANK, NUL}}
  <2>1. L + 1 \in A /\ i <= L + 1 /\ i \in Nat /\ L + 1 \in Nat
    BY <1>1
  <2>2. PICK m \in i .. L + 1 : m \in A /\ \A k \in i .. m - 1 : k \notin A
    <3> HIDE DEF A
    <3> QED BY <2>1, FirstOf
  <2>3. \A k \in i .. m - 1 : k \in i .. L + 1
    BY <1>1, <2>2
  <2> QED BY <2>2, <2>3
<1>3. m \in i .. N
  BY <1>1, <1>2
<1>4. j \in i .. N /\ P(j)
  <2> HIDE DEF P
  <2> QED BY <1>2, <1>3
<1>5. EndOfWord(text, i) = j
  BY DEF EndOfWord, Until
<1> HIDE DEF j
<1>6. j <= m
  <2>1. ASSUME m < j PROVE FALSE
    <3>1. m \in i .. j - 1
      BY <1>1, <1>2, <1>4, <2>1
    <3> QED BY <1>2, <1>4, <3>1
  <2> QED BY <1>1, <1>2, <1>4, <2>1
<1>7. j \in i .. L + 1
  BY <1>1, <1>2, <1>4, <1>6
<1> QED BY <1>4, <1>5, <1>7

LEMMA LineEnded ==
  ASSUME NEW text, NEW line, InMemory(text, line), NEW i \in 1 .. Len(line) + 1
  PROVE  EndOfLine(text, i) = Len(line) + 1
<1> DEFINE N == Len(text)
           L == Len(line)
           P(x) == text[x] = NUL /\ \A k \in i .. x - 1 : ~(text[k] = NUL)
           j == CHOOSE x \in i .. N : P(x)
<1>1. /\ N \in Nat /\ L \in Nat /\ N > L /\ text[L + 1] = NUL
      /\ \A k \in 1 .. L : text[k] # NUL
  BY QueueDomain DEF InMemory
<1>2. P(L + 1) /\ L + 1 \in i .. N
  BY <1>1
<1>3. j \in i .. N /\ P(j)
  <2> HIDE DEF P
  <2> QED BY <1>2
<1>4. EndOfLine(text, i) = j
  BY DEF EndOfLine, Until
<1> HIDE DEF j
<1>5. j = L + 1
  <2>1. ~(j < L + 1)
    BY <1>1, <1>3
  <2>2. ASSUME L + 1 < j PROVE FALSE
    <3>1. L + 1 \in i .. j - 1
      BY <1>1, <1>3, <2>2
    <3> QED BY <1>1, <1>3, <3>1
  <2> QED BY <1>1, <1>3, <2>1, <2>2
<1> QED BY <1>4, <1>5

(* The name of /c ends like a word when a blank follows it in the line.    *)
LEMMA NameEnded ==
  ASSUME NEW text, NEW line, InMemory(text, line), NEW i \in 1 .. Len(line) + 1,
         EndOfWord(text, i) # Len(line) + 1
  PROVE  EndOfName(text, i) = EndOfWord(text, i)
<1> DEFINE N == Len(text)
           L == Len(line)
           e == EndOfWord(text, i)
           P(x) == text[x] = BLANK /\ \A k \in i .. x - 1 : ~(text[k] = BLANK)
           j == CHOOSE x \in i .. N : P(x)
<1>1. /\ N \in Nat /\ L \in Nat /\ N > L
      /\ \A k \in 1 .. L : text[k] # NUL
  BY QueueDomain DEF InMemory
<1>2. /\ e \in i .. L + 1
      /\ text[e] \in {BLANK, NUL} /\ \A k \in i .. e - 1 : text[k] \notin {BLANK, NUL}
  BY WordEnded
<1> HIDE DEF e
<1>3. e \in i .. L /\ e \in i .. N /\ e \in 1 .. L
  BY <1>1, <1>2 DEF e
<1>4. P(e)
  BY <1>1, <1>2, <1>3
<1>5. j \in i .. N /\ P(j)
  <2> HIDE DEF P
  <2> QED BY <1>3, <1>4
<1>6. EndOfName(text, i) = j
  BY DEF EndOfName, Until
<1> HIDE DEF j
<1>7. j = e
  <2>1. ASSUME j < e PROVE FALSE
    <3>1. j \in i .. e - 1
      BY <1>1, <1>3, <1>5, <2>1
    <3> QED BY <1>2, <1>5, <3>1
  <2>2. ASSUME e < j PROVE FALSE
    <3>1. e \in i .. j - 1
      BY <1>1, <1>3, <1>5, <2>2
    <3> QED BY <1>4, <1>5, <3>1
  <2> QED BY <1>1, <1>3, <1>5, <2>1, <2>2
<1> QED BY <1>6, <1>7 DEF e

LEMMA BetweenInLine ==
  ASSUME NEW text, NEW line, InMemory(text, line),
         NEW i \in 1 .. Len(line) + 1, NEW j \in i .. Len(line) + 1
  PROVE  /\ Between(text, i, j) = SubSeq(line, i, j - 1)
         /\ Len(Between(text, i, j)) = j - i
<1> DEFINE L == Len(line)
           p == SubSeq(text, i, j - 1)
           q == SubSeq(line, i, j - 1)
           z == (j - 1) - i + 1
<1>1. /\ IsQueue(text) /\ IsQueue(line) /\ L \in Nat /\ Len(text) \in Nat /\ Len(text) > L
      /\ \A k \in 1 .. L : text[k] = line[k]
  BY QueueDomain DEF InMemory
<1>2. /\ i \in 1 .. Len(text) + 1 /\ i \in 1 .. L + 1 /\ j - 1 \in Nat /\ i <= (j - 1) + 1
      /\ j - 1 <= Len(text) /\ j - 1 <= L /\ z = j - i
      /\ \A k \in 1 .. z : i + k - 1 \in 1 .. L
  BY <1>1
<1>3. IsQueue(p) /\ Len(p) = z /\ \A k \in 1 .. z : p[k] = text[i + k - 1]
  BY <1>1, <1>2, PartOfText
<1>4. IsQueue(q) /\ Len(q) = z /\ \A k \in 1 .. z : q[k] = line[i + k - 1]
  BY <1>1, <1>2, PartOfText
<1> HIDE DEF p, q, z
<1>5. \A k \in 1 .. z : p[k] = q[k]
  BY <1>1, <1>2, <1>3, <1>4
<1>6. p = q /\ Len(p) = j - i
  BY <1>2, <1>3, <1>4, <1>5, SameQueue
<1> QED BY <1>6 DEF p, q, Between

LEMMA BlankAhead ==
  ASSUME NEW text, NEW line, InMemory(text, line), NEW i \in 1 .. Len(line) + 1
  PROVE  LET a == SkipBlanks(text, i)    e == EndOfWord(text, a) IN
         /\ a \in i .. Len(line) + 1 /\ (text[a] = NUL <=> a = Len(line) + 1)
         /\ a = Len(line) + 1 => e = a
         /\ a # Len(line) + 1 => a \in 1 .. Len(line) /\ e \in a + 1 .. Len(line) + 1
<1> DEFINE L == Len(line)
           a == SkipBlanks(text, i)
           e == EndOfWord(text, a)
<1>1. /\ L \in Nat /\ text[L + 1] = NUL
      /\ \A k \in 1 .. L : text[k] # NUL
  BY QueueDomain DEF InMemory
<1>2. a \in i .. L + 1 /\ text[a] # BLANK
  BY BlanksSkipped
<1>3. a \in 1 .. L + 1
  BY <1>1, <1>2
<1>4. e \in a .. L + 1 /\ text[e] \in {BLANK, NUL}
  <2> HIDE DEF a
  <2> QED BY <1>3, WordEnded
<1> HIDE DEF L, a, e
<1>5. text[a] = NUL <=> a = L + 1
  BY <1>1, <1>3
<1>6. a = L + 1 => e = a
  BY <1>1, <1>4
<1>7. a # L + 1 => a \in 1 .. L /\ e \in a + 1 .. L + 1
  BY <1>1, <1>2, <1>3, <1>4, <1>5
<1> QED BY <1>2, <1>5, <1>6, <1>7 DEF L, a, e

(* Skipping blanks to a word's end finds the next word of the line.        *)
LEMMA NextWord ==
  ASSUME NEW text, NEW line, InMemory(text, line), NEW i \in 1 .. Len(line) + 1
  PROVE  LET L == Len(line)
             a == SkipBlanks(text, i)    e == EndOfWord(text, a)
             w == WordsOf(SubSeq(line, i, L))    v == WordsOf(SubSeq(line, e, L)) IN
         /\ a = L + 1 => w = <<>>
         /\ a # L + 1 => /\ IsQueue(w) /\ IsQueue(v) /\ Len(w) = Len(v) + 1 /\ Tail(w) = v
                         /\ w[1] = SubSeq(line, a, e - 1)
<1> DEFINE L == Len(line)
           a == SkipBlanks(text, i)
           e == EndOfWord(text, a)
           d == i - 1
           t == SubSeq(line, i, L)
           M == L - d
           w == WordsOf(t)
           v == WordsOf(SubSeq(line, e, L))
<1>1. /\ IsQueue(line) /\ L \in Nat /\ i \in 1 .. L + 1
      /\ \A k \in 1 .. L : text[k] = line[k] /\ line[k] # NUL
  BY QueueDomain DEF InMemory
<1>2. a \in i .. L + 1 /\ text[a] # BLANK /\ \A k \in i .. a - 1 : text[k] = BLANK
  BY BlanksSkipped
<1>3. a # L + 1 => a \in 1 .. L /\ e \in a + 1 .. L + 1
  BY BlankAhead
<1>4. e \in a .. L + 1 /\ text[e] \in {BLANK, NUL} /\ \A k \in a .. e - 1 : text[k] \notin {BLANK, NUL}
  <2>1. a \in 1 .. L + 1
    BY <1>1, <1>2
  <2> HIDE DEF a
  <2> QED BY <2>1, WordEnded
<1> HIDE DEF a, e
<1>5. IsQueue(t) /\ Len(t) = M /\ \A k \in 1 .. M : t[k] = line[d + k]
  <2>1. d \in 0 .. L /\ d + 1 = i
    BY <1>1
  <2> HIDE DEF d
  <2> QED BY <1>1, <2>1, RestOfText
<1>6. d \in 0 .. L /\ d + 1 = i /\ M \in Nat /\ M = L - d /\ d = i - 1
  BY <1>1
<1> HIDE DEF d, M, L
<1>7. ASSUME a = L + 1 PROVE w = <<>>
  <2>1. ASSUME NEW k \in 1 .. M PROVE t[k] = BLANK
    <3>1. d + k \in 1 .. L /\ d + k \in i .. a - 1
      BY <1>1, <1>6, <1>7
    <3> QED BY <1>1, <1>2, <1>5, <3>1
  <2> HIDE DEF t
  <2> QED BY <1>5, <2>1, NoWords
<1>8. ASSUME a # L + 1
      PROVE  /\ IsQueue(w) /\ IsQueue(v) /\ Len(w) = Len(v) + 1 /\ Tail(w) = v
             /\ w[1] = SubSeq(line, a, e - 1)
  <2> DEFINE x == a - d
             y == (e - 1) - d
  <2>1. a \in i .. L /\ e \in a + 1 .. L + 1
    BY <1>1, <1>2, <1>3, <1>8 DEF L
  <2>2. x \in 1 .. M /\ y \in x .. M /\ d + x = a /\ d + y = e - 1 /\ d + (y + 1) = e
    BY <1>1, <1>6, <2>1
  <2> HIDE DEF x, y
  <2>3. ASSUME NEW k \in 1 .. M PROVE d + k \in 1 .. L /\ t[k] = text[d + k] /\ text[d + k] # NUL
    <3>1. d + k \in 1 .. L
      BY <1>1, <1>6
    <3> QED BY <1>1, <1>5, <3>1
  <2>4. ASSUME NEW k \in 1 .. x - 1 PROVE t[k] = BLANK
    <3>1. k \in 1 .. M /\ d + k \in i .. a - 1
      BY <1>1, <1>6, <2>1, <2>2
    <3> QED BY <1>2, <2>3, <3>1
  <2>5. ASSUME NEW k \in x .. y PROVE t[k] # BLANK
    <3>1. k \in 1 .. M /\ d + k \in a .. e - 1
      BY <1>1, <1>6, <2>1, <2>2
    <3> QED BY <1>4, <2>3, <3>1
  <2>6. ASSUME y # M PROVE t[y + 1] = BLANK
    <3>1. y + 1 \in 1 .. M
      BY <1>6, <2>2, <2>6
    <3>2. t[y + 1] = text[e] /\ text[e] # NUL
      BY <2>2, <2>3, <3>1
    <3> QED BY <1>4, <3>2
  <2>7. Splits(t, x, y)
    <3> HIDE DEF t
    <3> QED BY <1>5, <2>2, <2>4, <2>5, <2>6 DEF Splits, WordEnd
  <2>8. SubSeq(t, x, y) = SubSeq(line, a, e - 1)
    <3>1. x \in Nat /\ y \in Nat /\ x >= 1 /\ x <= y + 1 /\ y <= L - d
      BY <1>6, <2>2
    <3>2. SubSeq(SubSeq(line, d + 1, L), x, y) = SubSeq(line, d + x, d + y)
      BY <1>1, <1>6, <3>1, PartOfPart DEF L
    <3> QED BY <1>6, <2>2, <3>2
  <2>9. SubSeq(t, y + 1, M) = SubSeq(line, e, L)
    <3>1. y + 1 \in Nat /\ M \in Nat /\ y + 1 >= 1 /\ y + 1 <= M + 1 /\ M <= L - d /\ d + M = L
      BY <1>1, <1>6, <2>2
    <3> DEFINE y1 == y + 1
    <3>2. y1 \in Nat /\ M \in Nat /\ y1 >= 1 /\ y1 <= M + 1 /\ M <= L - d
      BY <3>1
    <3> HIDE DEF y1
    <3>3. SubSeq(SubSeq(line, d + 1, L), y1, M) = SubSeq(line, d + y1, d + M)
      BY <1>1, <1>6, <3>2, PartOfPart DEF L
    <3> QED BY <1>6, <2>2, <3>1, <3>3 DEF y1
  <2> HIDE DEF t
  <2>10. LET v0 == WordsOf(SubSeq(t, y + 1, Len(t))) IN
         /\ IsQueue(w) /\ IsQueue(v0) /\ Len(w) = Len(v0) + 1
         /\ w # <<>> /\ w[1] = SubSeq(t, x, y) /\ Tail(w) = v0
    BY <1>5, <2>7, WordsSplit
  <2>11. WordsOf(SubSeq(t, y + 1, Len(t))) = v
    BY <1>5, <2>9
  <2> QED BY <2>8, <2>10, <2>11
<1> QED BY <1>7, <1>8 DEF w, v, t, L, a, e

LEMMA BlanksIgnored ==
  ASSUME NEW text, NEW line, InMemory(text, line), NEW i \in 1 .. Len(line) + 1
  PROVE  WordsOf(SubSeq(line, SkipBlanks(text, i), Len(line))) = WordsOf(SubSeq(line, i, Len(line)))
<1> DEFINE L == Len(line)
           b == SkipBlanks(text, i)
           e == EndOfWord(text, b)
           w == WordsOf(SubSeq(line, i, L))
           u == WordsOf(SubSeq(line, b, L))
           v == WordsOf(SubSeq(line, e, L))
<1>1. L \in Nat
  BY QueueDomain DEF InMemory
<1>2. b \in i .. L + 1 /\ text[b] # BLANK
  BY BlanksSkipped
<1>3. b \in 1 .. L + 1
  BY <1>1, <1>2
<1>4. SkipBlanks(text, b) = b
  <2> DEFINE c == SkipBlanks(text, b)
  <2> HIDE DEF b
  <2>1. c \in b .. L + 1 /\ \A k \in b .. c - 1 : text[k] = BLANK
    BY <1>3, BlanksSkipped
  <2> HIDE DEF c
  <2>2. c # b => b \in b .. c - 1
    BY <1>1, <1>3, <2>1
  <2>3. c = b
    BY <1>2, <2>1, <2>2
  <2> QED BY <2>3 DEF c
<1>5. /\ b = L + 1 => w = <<>>
      /\ b # L + 1 => /\ IsQueue(w) /\ IsQueue(v) /\ Len(w) = Len(v) + 1 /\ Tail(w) = v
                      /\ w[1] = SubSeq(line, b, e - 1)
  BY NextWord
<1>6. /\ b = L + 1 => u = <<>>
      /\ b # L + 1 => /\ IsQueue(u) /\ IsQueue(v) /\ Len(u) = Len(v) + 1 /\ Tail(u) = v
                      /\ u[1] = SubSeq(line, b, e - 1)
  <2> HIDE DEF b
  <2>1. /\ SkipBlanks(text, b) = L + 1 => u = <<>>
        /\ SkipBlanks(text, b) # L + 1
           => LET e0 == EndOfWord(text, SkipBlanks(text, b))
                  v0 == WordsOf(SubSeq(line, e0, L)) IN
              /\ IsQueue(u) /\ IsQueue(v0) /\ Len(u) = Len(v0) + 1 /\ Tail(u) = v0
              /\ u[1] = SubSeq(line, SkipBlanks(text, b), e0 - 1)
    BY <1>3, NextWord
  <2> QED BY <1>4, <2>1
<1> HIDE DEF w, u, v, b, e, L
<1>7. u = w
  <2>1. CASE b = L + 1
    BY <1>5, <1>6, <2>1
  <2>2. CASE b # L + 1
    BY <1>5, <1>6, <2>2, SameWords
  <2> QED BY <2>1, <2>2
<1> QED BY <1>7 DEF w, u, b, L

-----------------------------------------------------------------------------
(* The commands.                                                           *)

LEMMA FirstArg ==
  ASSUME NEW text, NEW line, InMemory(text, line), NEW i \in 1 .. Len(line) + 1
  PROVE  LET a == SkipBlanks(text, i)    e == EndOfWord(text, a)
             args == ArgsFrom(line, i)    rest == ArgsFrom(line, e) IN
         /\ args = <<>> <=> text[a] = NUL
         /\ text[a] # NUL =>
              /\ e \in 1 .. Len(line) + 1
              /\ args[1] = Between(text, a, e) /\ Len(args[1]) = e - a
              /\ Tail(args) = rest
              /\ Len(rest) \in Nat /\ Len(args) = Len(rest) + 1
              /\ \A k \in 1 .. Len(rest) : args[k + 1] = rest[k]
<1> DEFINE L == Len(line)
           a == SkipBlanks(text, i)
           e == EndOfWord(text, a)
           args == ArgsFrom(line, i)
           rest == ArgsFrom(line, e)
<1>1. L \in Nat
  BY QueueDomain DEF InMemory
<1>2. /\ a \in i .. L + 1 /\ (text[a] = NUL <=> a = L + 1)
      /\ a # L + 1 => a \in 1 .. L /\ e \in a + 1 .. L + 1
  BY BlankAhead
<1>3. /\ a = L + 1 => args = <<>>
      /\ a # L + 1 => /\ IsQueue(args) /\ IsQueue(rest) /\ Len(args) = Len(rest) + 1 /\ Tail(args) = rest
                      /\ args[1] = SubSeq(line, a, e - 1)
  BY NextWord DEF ArgsFrom
<1> HIDE DEF a, e, args, rest
<1>4. ASSUME a # L + 1
      PROVE  /\ args # <<>>
             /\ e \in 1 .. Len(line) + 1
             /\ args[1] = Between(text, a, e) /\ Len(args[1]) = e - a
             /\ Tail(args) = rest
             /\ Len(rest) \in Nat /\ Len(args) = Len(rest) + 1
             /\ \A k \in 1 .. Len(rest) : args[k + 1] = rest[k]
  <2>1. a \in 1 .. L + 1 /\ e \in a .. L + 1 /\ e \in 1 .. L + 1
    BY <1>1, <1>2, <1>4
  <2>2. Between(text, a, e) = SubSeq(line, a, e - 1) /\ Len(Between(text, a, e)) = e - a
    BY <2>1, BetweenInLine
  <2>3. args # <<>> /\ Len(rest) \in Nat /\ \A k \in 1 .. Len(rest) : args[k + 1] = rest[k]
    <3>1. IsQueue(args) /\ IsQueue(rest) /\ Len(args) = Len(rest) + 1 /\ Tail(args) = rest
      BY <1>3, <1>4
    <3>2. args # <<>>
      BY <3>1, OneMoreWord
    <3>3. Len(rest) \in Nat
      BY <3>1, OneMoreWord
    <3>4. \A k \in 1 .. Len(rest) : args[k + 1] = rest[k]
      BY <3>1, OneMoreWord
    <3> QED BY <3>2, <3>3, <3>4
  <2> QED BY <1>3, <1>4, <2>1, <2>2, <2>3
<1> QED BY <1>2, <1>3, <1>4 DEF a, e, args, rest

LEMMA TwoArgs ==
  ASSUME NEW text, NEW line, InMemory(text, line), NEW i \in 1 .. Len(line) + 1
  PROVE  LET a == SkipBlanks(text, i)    e == EndOfWord(text, a)
             b == SkipBlanks(text, e)    f == EndOfWord(text, b)
             args == ArgsFrom(line, i) IN
         /\ text[a] # NUL => (LengthOkay(a, e) /\ LengthOkay(b, f) <=> Named(args, 2))
         /\ text[a] # NUL /\ Named(args, 2) =>
              args[1] = Between(text, a, e) /\ args[2] = Between(text, b, f)
         /\ text[a] = NUL => ~Named(args, 2)
<1> DEFINE L == Len(line)
           a == SkipBlanks(text, i)
           e == EndOfWord(text, a)
           b == SkipBlanks(text, e)
           f == EndOfWord(text, b)
           args == ArgsFrom(line, i)
           rest == ArgsFrom(line, e)
           last == ArgsFrom(line, f)
<1>1. /\ args = <<>> <=> text[a] = NUL
      /\ text[a] # NUL =>
              /\ e \in 1 .. Len(line) + 1
              /\ args[1] = Between(text, a, e) /\ Len(args[1]) = e - a
              /\ Tail(args) = rest
              /\ Len(rest) \in Nat /\ Len(args) = Len(rest) + 1
              /\ \A k \in 1 .. Len(rest) : args[k + 1] = rest[k]
  BY FirstArg
<1>2. /\ MinLength \in Nat /\ MinLength >= 1 /\ MaxLength \in Nat
      /\ 1 \in 1 .. 2 /\ 2 \in 1 .. 2
      /\ \A k \in 1 .. 2 : k = 1 \/ k = 2
  BY InputParserAssumption
<1>5. a \in Int
  <2>1. a \in i .. Len(line) + 1
    BY BlankAhead
  <2>2. Len(line) \in Nat
    BY QueueDomain DEF InMemory
  <2> HIDE DEF a
  <2> QED BY <2>1, <2>2
<1> HIDE DEF a, e, args, rest
<1>3. ASSUME text[a] = NUL PROVE ~Named(args, 2)
  <2>1. Len(args) = 0
    BY <1>1, <1>3, EmptySeq
  <2>2. ~(1 <= Len(args))
    BY <2>1
  <2> QED BY <1>2, <2>2 DEF Named
<1>4. ASSUME text[a] # NUL
      PROVE  /\ LengthOkay(a, e) /\ LengthOkay(b, f) <=> Named(args, 2)
             /\ Named(args, 2) => args[1] = Between(text, a, e) /\ args[2] = Between(text, b, f)
  <2>1. /\ rest = <<>> <=> text[b] = NUL
        /\ text[b] # NUL =>
              /\ rest[1] = Between(text, b, f) /\ Len(rest[1]) = f - b
              /\ Len(last) \in Nat /\ Len(rest) = Len(last) + 1
    BY <1>1, <1>4, FirstArg DEF rest
  <2>2. b \in e .. Len(line) + 1 /\ (text[b] = NUL <=> b = Len(line) + 1)
        /\ (b = Len(line) + 1 => f = b)
        /\ (b # Len(line) + 1 => f \in b + 1 .. Len(line) + 1)
    BY <1>1, <1>4, BlankAhead
  <2>3. Len(line) \in Nat
    BY QueueDomain DEF InMemory
  <2> HIDE DEF b, f, last
  <2>4. CASE text[b] = NUL
    <3>1. f = b /\ b \in Nat
      BY <2>2, <2>3, <2>4
    <3>2. ~LengthOkay(b, f)
      BY <1>2, <3>1 DEF LengthOkay
    <3>3. Len(rest) = 0
      BY <2>1, <2>4, EmptySeq
    <3>4. ~(2 <= Len(args))
      <4>1. Len(args) = 0 + 1
        BY <1>1, <1>4, <3>3
      <4> QED BY <4>1
    <3>5. ~Named(args, 2)
      BY <1>2, <3>4 DEF Named
    <3> QED BY <3>2, <3>5
  <2>5. CASE text[b] # NUL
    <3>1. 1 \in 1 .. Len(rest) /\ Len(args) \in Nat /\ 1 <= Len(args) /\ 2 <= Len(args)
      BY <1>1, <1>4, <2>1, <2>5
    <3>2. args[2] = rest[1]
      <4>1. args[1 + 1] = rest[1]
        BY <1>1, <1>4, <3>1
      <4>2. 1 + 1 = 2
        OBVIOUS
      <4> QED BY <4>1, <4>2
    <3>3. Len(args[1]) = e - a /\ Len(args[2]) = f - b
      BY <1>1, <1>4, <2>1, <2>5, <3>2
    <3>4. Named(args, 2) <=> /\ Len(args[1]) \in MinLength .. MaxLength
                               /\ Len(args[2]) \in MinLength .. MaxLength
      <4>1. ASSUME Named(args, 2)
            PROVE  Len(args[1]) \in MinLength .. MaxLength /\ Len(args[2]) \in MinLength .. MaxLength
        BY <1>2, <4>1 DEF Named
      <4>2. ASSUME Len(args[1]) \in MinLength .. MaxLength, Len(args[2]) \in MinLength .. MaxLength
            PROVE  Named(args, 2)
        <5>1. ASSUME NEW k \in 1 .. 2
              PROVE  k <= Len(args) /\ Len(args[k]) \in MinLength .. MaxLength
          BY <1>2, <3>1, <4>2
        <5> QED BY <5>1 DEF Named
      <4> QED BY <4>1, <4>2
    <3>5. e - a \in Int /\ f - b \in Int
      <4>1. f \in b + 1 .. Len(line) + 1
        BY <2>2, <2>3, <2>5
      <4>2. b \in Int /\ f \in Int
        BY <1>1, <1>4, <2>2, <2>3, <4>1
      <4> QED BY <1>1, <1>4, <1>5, <4>2
    <3>6. LengthOkay(a, e) <=> Len(args[1]) \in MinLength .. MaxLength
      BY <1>2, <3>3, <3>5 DEF LengthOkay
    <3>7. LengthOkay(b, f) <=> Len(args[2]) \in MinLength .. MaxLength
      BY <1>2, <3>3, <3>5 DEF LengthOkay
    <3> QED BY <1>1, <1>4, <2>1, <2>5, <3>2, <3>4, <3>6, <3>7
  <2> QED BY <2>4, <2>5
<1> QED BY <1>3, <1>4 DEF a, e, b, f, args

LEMMA TakenForWhat ==
  /\ \A t : TakenFor(Refused(t)) = <<"chat">> /\ TakenFor(Invalid(t)) = <<"shown">>
  /\ \A m : TakenFor(Valid("help", TRUE, m)) = <<"shown">> /\ TakenFor(Valid("exit", TRUE, m)) = <<"exit">>
  /\ \A m, local : /\ TakenFor(Valid("chat", local, m)) = Asked(m)
                   /\ TakenFor(Valid("create_room", local, m)) = Asked(m)
                   /\ TakenFor(Valid("list_room", local, m)) = Asked(m)
                   /\ TakenFor(Valid("leave_room", local, m)) = Asked(m)
<1>1. ASSUME NEW t PROVE TakenFor(Refused(t)) = <<"chat">>
  BY DEF TakenFor, Refused
<1>2. ASSUME NEW t PROVE TakenFor(Invalid(t)) = <<"shown">>
  <2>1. Invalid(t).parsed /\ Invalid(t).mInvalid
    BY DEF Invalid, Refused
  <2> QED BY <2>1 DEF TakenFor
<1>3. ASSUME NEW t, NEW local, NEW m
      PROVE  /\ Valid(t, local, m).parsed /\ ~Valid(t, local, m).mInvalid
             /\ Valid(t, local, m).type = t /\ Valid(t, local, m).msg = m
  BY DEF Valid
<1>4. ASSUME NEW m
      PROVE  TakenFor(Valid("help", TRUE, m)) = <<"shown">> /\ TakenFor(Valid("exit", TRUE, m)) = <<"exit">>
  <2>1. ASSUME NEW t \in {"help", "exit"}
        PROVE  /\ Valid(t, TRUE, m).parsed /\ ~Valid(t, TRUE, m).mInvalid
               /\ Valid(t, TRUE, m).type = t
    BY DEF Valid
  <2>2. TakenFor(Valid("help", TRUE, m)) = <<"shown">>
    BY <2>1 DEF TakenFor
  <2>3. "exit" # "help"
    OBVIOUS
  <2>4. TakenFor(Valid("exit", TRUE, m)) = <<"exit">>
    BY <2>1, <2>3 DEF TakenFor
  <2> QED BY <2>2, <2>4
<1>5. ASSUME NEW m, NEW local, NEW t \in {"chat", "create_room", "list_room", "leave_room"}
      PROVE  TakenFor(Valid(t, local, m)) = Asked(m)
  <2>1. t # "help" /\ t # "exit"
    OBVIOUS
  <2> QED BY <1>3, <2>1 DEF TakenFor
<1> QED BY <1>1, <1>2, <1>4, <1>5

LEMMA AskedWhat ==
  /\ \A x, y : /\ Asked(<<"c2s_create_room", x, y>>) = <<"c2s_create_room", x, y>>
               /\ Asked(<<"c2s_join_room", x, y>>) = <<"c2s_join_room", x, y>>
               /\ Asked(<<"local_whisper_msg", x, y>>) = <<"local_whisper_msg", x, WordsOf(y)>>
  /\ Asked(<<"local_leave_room">>) = <<"local_leave_room">>
  /\ Asked(<<"local_list_room">>) = <<"local_list_room">>
<1>1. ASSUME NEW x, NEW y, NEW op
      PROVE  <<op, x, y>> # <<>> /\ <<op, x, y>>[1] = op /\ <<op, x, y>>[2] = x /\ <<op, x, y>>[3] = y
  OBVIOUS
<1>2. ASSUME NEW op PROVE <<op>>[1] = op
  OBVIOUS
<1>3. ASSUME NEW x, NEW y, NEW op \in {"c2s_create_room", "c2s_join_room"}
      PROVE  Asked(<<op, x, y>>) = <<op, x, y>>
  <2>1. op \notin {"local_whisper_msg", "c2s_whisper_msg"}
    OBVIOUS
  <2> QED BY <1>1, <2>1 DEF Asked
<1>4. ASSUME NEW x, NEW y
      PROVE  Asked(<<"local_whisper_msg", x, y>>) = <<"local_whisper_msg", x, WordsOf(y)>>
  BY <1>1 DEF Asked
<1>5. ASSUME NEW op \in {"local_leave_room", "local_list_room"} PROVE Asked(<<op>>) = <<op>>
  <2>1. op \notin {"local_whisper_msg", "c2s_whisper_msg"}
    OBVIOUS
  <2> QED BY <1>2, <2>1 DEF Asked
<1> QED BY <1>3, <1>4, <1>5

LEMMA JoinMeant ==
  ASSUME NEW text, NEW line, InMemory(text, line), NEW i \in 1 .. Len(line) + 1
  PROVE  LET args == ArgsFrom(line, i) IN
         TakenFor(ParseJoinRoom(text, i)) =
           IF Named(args, 2) THEN <<"c2s_join_room", args[1], args[2]>> ELSE <<"chat">>
<1> DEFINE a == SkipBlanks(text, i)
           e == EndOfWord(text, a)
           b == SkipBlanks(text, e)
           f == EndOfWord(text, b)
           args == ArgsFrom(line, i)
           m == <<"c2s_join_room", Between(text, a, e), Between(text, b, f)>>
<1>1. /\ text[a] # NUL => (LengthOkay(a, e) /\ LengthOkay(b, f) <=> Named(args, 2))
      /\ text[a] # NUL /\ Named(args, 2) =>
              args[1] = Between(text, a, e) /\ args[2] = Between(text, b, f)
      /\ text[a] = NUL => ~Named(args, 2)
  BY TwoArgs
<1>2. ParseJoinRoom(text, i) =
        IF text[a] = NUL \/ ~LengthOkay(a, e) THEN Refused("null")
        ELSE IF ~LengthOkay(b, f) THEN Refused("chat")
        ELSE Valid("chat", FALSE, m)
  BY DEF ParseJoinRoom
<1>3. Asked(m) = m
  BY AskedWhat
<1>4. m = <<"c2s_join_room", Between(text, a, e), Between(text, b, f)>>
  OBVIOUS
<1> HIDE DEF a, e, b, f, args, m
<1>5. CASE Named(args, 2)
  <2>1. ParseJoinRoom(text, i) = Valid("chat", FALSE, m)
    BY <1>1, <1>2, <1>5
  <2>2. m = <<"c2s_join_room", args[1], args[2]>>
    BY <1>1, <1>4, <1>5
  <2>3. TakenFor(Valid("chat", FALSE, m)) = Asked(m)
    BY TakenForWhat
  <2>4. TakenFor(ParseJoinRoom(text, i)) = <<"c2s_join_room", args[1], args[2]>>
    BY <1>3, <2>1, <2>2, <2>3
  <2> QED BY <1>5, <2>4 DEF args
<1>6. CASE ~Named(args, 2)
  <2>1. ParseJoinRoom(text, i) \in {Refused("null"), Refused("chat")}
    BY <1>1, <1>2, <1>6
  <2> QED BY <1>6, <2>1, TakenForWhat DEF args
<1> QED BY <1>5, <1>6

LEMMA CreateMeant ==
  ASSUME NEW text, NEW line, InMemory(text, line), NEW i \in 1 .. Len(line) + 1,
         ~(Len(ArgsFrom(line, i)) = 1 /\ line[Len(line)] # BLANK)
  PROVE  LET args == ArgsFrom(line, i) IN
         TakenFor(ParseCreateRoom(text, i)) =
           IF Named(args, 2) THEN <<"c2s_create_room", args[1], args[2]>> ELSE <<"chat">>
<1> DEFINE L == Len(line)
           a == SkipBlanks(text, i)
           e == EndOfWord(text, a)
           n == EndOfName(text, a)
           b == SkipBlanks(text, e)
           f == EndOfWord(text, b)
           b0 == SkipBlanks(text, n)
           f0 == EndOfWord(text, b0)
           args == ArgsFrom(line, i)
           rest == ArgsFrom(line, e)
           m == <<"c2s_create_room", Between(text, a, e), Between(text, b, f)>>
           m0 == <<"c2s_create_room", Between(text, a, n), Between(text, b0, f0)>>
<1>1. /\ text[a] # NUL => (LengthOkay(a, e) /\ LengthOkay(b, f) <=> Named(args, 2))
      /\ text[a] # NUL /\ Named(args, 2) =>
              args[1] = Between(text, a, e) /\ args[2] = Between(text, b, f)
      /\ text[a] = NUL => ~Named(args, 2)
  BY TwoArgs
<1>2. ParseCreateRoom(text, i) =
        IF text[a] # NUL /\ LengthOkay(a, n) /\ LengthOkay(b0, f0)
        THEN Valid("create_room", FALSE, m0) ELSE Refused("create_room")
  BY DEF ParseCreateRoom
<1>3. Asked(m) = m
  BY AskedWhat
<1>4. m = <<"c2s_create_room", Between(text, a, e), Between(text, b, f)>>
  OBVIOUS
<1>5. n = e => b0 = b /\ f0 = f /\ m0 = m
  OBVIOUS
<1>6. text[a] # NUL => n = e
  <2> SUFFICES ASSUME text[a] # NUL PROVE n = e
    OBVIOUS
  <2>1. L \in Nat /\ (\A k \in 1 .. L : text[k] = line[k])
    BY QueueDomain DEF InMemory
  <2>2. /\ a \in i .. L + 1 /\ (text[a] = NUL <=> a = L + 1)
        /\ a # L + 1 => a \in 1 .. L /\ e \in a + 1 .. L + 1
    BY BlankAhead
  <2>3. args # <<>> /\ Len(args) = Len(rest) + 1
    BY FirstArg
  <2>4. a \in 1 .. L + 1
    BY <2>1, <2>2
  <2>5. \A k \in a .. e - 1 : text[k] \notin {BLANK, NUL}
    <3> HIDE DEF a
    <3> QED BY <2>4, WordEnded
  <2>6. e # L + 1
    <3>1. ASSUME e = L + 1 PROVE FALSE
      <4>1. SubSeq(line, e, L) = <<>>
        <5>1. e > L /\ e \in Int /\ L \in Int
          BY <2>1, <3>1
        <5>2. IsQueue(SubSeq(line, e, L)) /\ Len(SubSeq(line, e, L)) = L - e + 1
          <6>1. e \in 1 .. Len(line) + 1 /\ L \in Nat /\ e <= L + 1 /\ L <= Len(line)
            BY <2>1, <3>1
          <6>2. IsQueue(line)
            BY DEF InMemory
          <6> HIDE DEF e, L
          <6> QED BY <6>1, <6>2, PartOfText
        <5>3. L - e + 1 = 0
          BY <2>1, <3>1
        <5> QED BY <5>2, <5>3, EmptySeq DEF IsQueue
      <4>2. rest = <<>>
        <5>1. WordsOf(<<>>) = <<>>
          <6>1. IsQueue(<<>>) /\ \A k \in 1 .. Len(<<>>) : <<>>[k] = BLANK
            BY EmptyQueue, EmptySeq
          <6> QED BY <6>1, NoWords
        <5> QED BY <4>1, <5>1 DEF ArgsFrom
      <4>3. Len(args) = 1
        <5>1. Len(rest) = 0
          BY <4>2, EmptySeq
        <5> HIDE DEF rest
        <5> QED BY <2>3, <5>1
      <4>4. L \in a .. e - 1 /\ L \in 1 .. L
        BY <2>1, <2>2, <3>1
      <4>5. line[L] # BLANK
        BY <2>1, <2>5, <4>4
      <4> QED BY <2>3, <4>3, <4>5
    <3> QED BY <3>1
  <2> HIDE DEF a
  <2> QED BY <2>4, <2>6, NameEnded
<1> HIDE DEF a, e, b, f, n, b0, f0, args, m, m0
<1>7. CASE Named(args, 2)
  <2>1. ParseCreateRoom(text, i) = Valid("create_room", FALSE, m)
    BY <1>1, <1>2, <1>5, <1>6, <1>7
  <2>2. m = <<"c2s_create_room", args[1], args[2]>>
    BY <1>1, <1>4, <1>7
  <2>3. TakenFor(Valid("create_room", FALSE, m)) = Asked(m)
    BY TakenForWhat
  <2>4. TakenFor(ParseCreateRoom(text, i)) = <<"c2s_create_room", args[1], args[2]>>
    BY <1>3, <2>1, <2>2, <2>3
  <2> QED BY <1>7, <2>4 DEF args
<1>8. CASE ~Named(args, 2)
  <2>1. ParseCreateRoom(text, i) = Refused("create_room")
    BY <1>1, <1>2, <1>5, <1>6, <1>8
  <2> QED BY <1>8, <2>1, TakenForWhat DEF args
<1> QED BY <1>7, <1>8

LEMMA WhisperMeant ==
  ASSUME NEW text, NEW line, InMemory(text, line), NEW i \in 1 .. Len(line) + 1
  PROVE  LET args == ArgsFrom(line, i) IN
         TakenFor(ParseWhisper(text, i)) =
           IF args # <<>> THEN <<"local_whisper_msg", args[1], Tail(args)>> ELSE <<"chat">>
<1> DEFINE L == Len(line)
           a == SkipBlanks(text, i)
           e == EndOfWord(text, a)
           b == SkipBlanks(text, e)
           args == ArgsFrom(line, i)
           rest == ArgsFrom(line, e)
           said == Between(text, b, EndOfLine(text, b))
           m == <<"local_whisper_msg", Between(text, a, e), said>>
<1>1. /\ args = <<>> <=> text[a] = NUL
      /\ text[a] # NUL => /\ e \in 1 .. Len(line) + 1
                          /\ args[1] = Between(text, a, e)
                          /\ Tail(args) = rest
  BY FirstArg
<1>2. ParseWhisper(text, i) = IF text[a] = NUL THEN Refused("null") ELSE Valid("chat", TRUE, m)
  BY DEF ParseWhisper
<1>3. Asked(m) = <<"local_whisper_msg", Between(text, a, e), WordsOf(said)>>
  BY AskedWhat
<1>4. ASSUME text[a] # NUL PROVE WordsOf(said) = rest
  <2>1. L \in Nat
    BY QueueDomain DEF InMemory
  <2>2. e \in 1 .. Len(line) + 1
    BY <1>1, <1>4
  <2> HIDE DEF e
  <2>3. b \in e .. Len(line) + 1
    BY <2>2, BlanksSkipped
  <2>4. b \in 1 .. L + 1 /\ L + 1 \in b .. L + 1 /\ (L + 1) - 1 = L
    BY <2>1, <2>2, <2>3
  <2>5. WordsOf(SubSeq(line, b, L)) = rest
    BY <2>2, BlanksIgnored DEF ArgsFrom
  <2> HIDE DEF b
  <2>6. EndOfLine(text, b) = L + 1
    BY <2>4, LineEnded
  <2>7. Between(text, b, L + 1) = SubSeq(line, b, (L + 1) - 1)
    <3> DEFINE z == L + 1
    <3>1. b \in 1 .. Len(line) + 1 /\ z \in b .. Len(line) + 1
      BY <2>4
    <3> HIDE DEF z
    <3>2. Between(text, b, z) = SubSeq(line, b, z - 1)
      BY <3>1, BetweenInLine
    <3> QED BY <3>2 DEF z
  <2> QED BY <2>4, <2>5, <2>6, <2>7
<1> HIDE DEF a, e, b, args, rest, said, m
<1>5. CASE args = <<>>
  BY <1>1, <1>2, <1>5, TakenForWhat DEF args
<1>6. CASE args # <<>>
  <2>1. TakenFor(ParseWhisper(text, i)) = Asked(m)
    BY <1>1, <1>2, <1>6, TakenForWhat
  <2>2. Asked(m) = <<"local_whisper_msg", args[1], Tail(args)>>
    BY <1>1, <1>3, <1>4, <1>6
  <2> QED BY <1>6, <2>1, <2>2 DEF args
<1> QED BY <1>5, <1>6

LEMMA ListMeant ==
  ASSUME NEW text, NEW line, InMemory(text, line), NEW i \in 1 .. Len(line) + 1
  PROVE  LET args == ArgsFrom(line, i) IN
         TakenFor(ParseList(text, i)) =
           IF args = <<>> THEN <<"chat">>
           ELSE IF args[1] = RoomWord THEN <<"local_list_room">> ELSE <<"shown">>
<1> DEFINE a == SkipBlanks(text, i)
           e == EndOfWord(text, a)
           args == ArgsFrom(line, i)
<1>1. (args = <<>> <=> text[a] = NUL) /\ (text[a] # NUL => args[1] = Between(text, a, e))
  BY FirstArg
<1>2. ParseList(text, i) =
        IF text[a] = NUL THEN Refused("null")
        ELSE IF Between(text, a, e) = RoomWord THEN Valid("list_room", TRUE, <<"local_list_room">>)
        ELSE Invalid("null")
  BY DEF ParseList
<1>3. /\ TakenFor(Refused("null")) = <<"chat">> /\ TakenFor(Invalid("null")) = <<"shown">>
      /\ TakenFor(Valid("list_room", TRUE, <<"local_list_room">>)) = <<"local_list_room">>
  BY TakenForWhat, AskedWhat
<1> HIDE DEF a, e, args
<1>4. CASE args = <<>>
  BY <1>1, <1>2, <1>3, <1>4 DEF args
<1>5. CASE args # <<>> /\ args[1] = RoomWord
  BY <1>1, <1>2, <1>3, <1>5 DEF args
<1>6. CASE args # <<>> /\ args[1] # RoomWord
  BY <1>1, <1>2, <1>3, <1>6 DEF args
<1> QED BY <1>4, <1>5, <1>6

LEMMA LeaveMeant ==
  ASSUME NEW text, NEW line, InMemory(text, line),
         NEW i \in 1 .. Len(line), NEW e, e = EndOfWord(text, i), i + 1 \in 1 .. Len(line),
         text[i] \notin {BLANK, NUL}, text[i + 1] \notin {BLANK, NUL}
  PROVE  TakenFor(ParseLeaveRoom(text, i + 2)) = IF e - i = 2 THEN <<"local_leave_room">> ELSE <<"chat">>
<1> DEFINE L == Len(line)
<1>1. L \in Nat
  BY QueueDomain DEF InMemory
<1>2. e \in i .. L + 1 /\ text[e] \in {BLANK, NUL} /\ \A k \in i .. e - 1 : text[k] \notin {BLANK, NUL}
  <2>1. i \in 1 .. L + 1
    BY <1>1
  <2> QED BY <2>1, WordEnded
<1> HIDE DEF L
<1>3. e # i /\ e # i + 1
  BY <1>2
<1>4. e \in Int /\ i \in Int /\ e >= i + 2
  BY <1>1, <1>2, <1>3
<1>5. text[i + 2] \in {BLANK, NUL} <=> e - i = 2
  <2>1. ASSUME e - i = 2 PROVE text[i + 2] \in {BLANK, NUL}
    <3>1. e = i + 2
      BY <1>4, <2>1
    <3> QED BY <1>2, <3>1
  <2>2. ASSUME e - i # 2 PROVE text[i + 2] \notin {BLANK, NUL}
    <3>1. i + 2 \in i .. e - 1
      BY <1>4, <2>2
    <3> QED BY <1>2, <3>1
  <2> QED BY <2>1, <2>2
<1>6. ParseLeaveRoom(text, i + 2) =
        IF e - i = 2 THEN Valid("leave_room", TRUE, <<"local_leave_room">>) ELSE Refused("null")
  BY <1>5 DEF ParseLeaveRoom
<1>7. /\ TakenFor(Valid("leave_room", TRUE, <<"local_leave_room">>)) = <<"local_leave_room">>
      /\ TakenFor(Refused("null")) = <<"chat">>
  BY TakenForWhat, AskedWhat
<1>8. CASE e - i = 2
  BY <1>6, <1>7, <1>8
<1>9. CASE e - i # 2
  BY <1>6, <1>7, <1>9
<1> QED BY <1>8, <1>9

LEMMA SlashIs ==
  ASSUME NEW line, IsQueue(line), NEW i \in 1 .. Len(line), line[i] = "/",
         \A k \in 1 .. i - 1 : line[k] = BLANK
  PROVE  FirstSlash(line) = i
<1> DEFINE P(x) == line[x] = "/" /\ \A k \in 1 .. x - 1 : line[k] # "/"
           slash == CHOOSE x \in DOMAIN line : P(x)
<1>1. Len(line) \in Nat /\ DOMAIN line = 1 .. Len(line)
  BY QueueDomain
<1>2. i \in DOMAIN line /\ P(i)
  BY <1>1 DEF BLANK
<1>3. slash \in 1 .. Len(line) /\ P(slash)
  <2> HIDE DEF P
  <2> QED BY <1>1, <1>2
<1>4. FirstSlash(line) = slash
  BY DEF FirstSlash
<1> HIDE DEF slash
<1>5. ~(slash < i)
  <2>1. slash < i => slash \in 1 .. i - 1
    BY <1>1, <1>3
  <2> QED BY <1>2, <1>3, <2>1
<1>6. ~(i < slash)
  <2>1. i < slash => i \in 1 .. slash - 1
    BY <1>1, <1>3
  <2> QED BY <1>2, <1>3, <2>1
<1> QED BY <1>1, <1>3, <1>4, <1>5, <1>6

LEMMA MadeOfWhat ==
  /\ MadeOf(<<"shown">>) = <<"shown">> /\ MadeOf(<<"exit">>) = <<"exit">>
  /\ MadeOf(<<"chat">>) = <<"chat">> /\ MadeOf(<<"refused">>) = <<"chat">>
  /\ MadeOf(<<"local_leave_room">>) = <<"local_leave_room">>
  /\ MadeOf(<<"local_list_room">>) = <<"local_list_room">>
  /\ \A x, y : /\ MadeOf(<<"c2s_create_room", x, y>>) = <<"c2s_create_room", x, y>>
               /\ MadeOf(<<"c2s_join_room", x, y>>) = <<"c2s_join_room", x, y>>
               /\ MadeOf(<<"local_whisper_msg", x, y>>) = <<"local_whisper_msg", x, y>>
<1>1. <<"refused">>[1] = "refused" /\ \A op, x, y : <<op>>[1] = op /\ <<op, x, y>>[1] = op
  OBVIOUS
<1>2. ASSUME NEW m, m[1] # "refused" PROVE MadeOf(m) = m
  BY <1>1, <1>2 DEF MadeOf
<1>3. ASSUME NEW op, op # "refused" PROVE MadeOf(<<op>>) = <<op>>
  BY <1>1, <1>2, <1>3
<1>4. ASSUME NEW op, op # "refused", NEW x, NEW y PROVE MadeOf(<<op, x, y>>) = <<op, x, y>>
  BY <1>1, <1>2, <1>4
<1>5. MadeOf(<<"refused">>) = <<"chat">>
  BY DEF MadeOf
<1> QED BY <1>3, <1>4, <1>5

(* Who asks for something asks for what was meant.                         *)
LEMMA AskedIsMeant ==
  ASSUME NEW m, NEW meaning, m # <<"chat">>, m = MadeOf(meaning)
  PROVE  m = meaning
BY DEF MadeOf

LEMMA ChatIsMeant ==
  ASSUME NEW meaning, MadeOf(meaning) = <<"chat">>
  PROVE  meaning \in {<<"chat">>, <<"refused">>}
BY DEF MadeOf

(* What follows a slash that is not the last character.                    *)
LEMMA CommandIsMeant ==
  ASSUME NEW text, NEW line, InMemory(text, line), NEW i \in 1 .. Len(line), i # Len(line),
         line[i] = "/", Len(WordsOf(line)[1]) = EndOfWord(text, i) - i,
         ~(line[i + 1] = "c" /\ Len(ArgsFrom(line, i + 2)) = 1 /\ line[Len(line)] # BLANK)
  PROVE  TakenFor(ParseCmdMessage(text, i + 1)) = MadeOf(CommandMeant(line, i))
<1> DEFINE L == Len(line)
           c == line[i + 1]
           p == i + 2
           q == i + 1
           args == ArgsFrom(line, p)
           Cmd == ParseCmdMessage(text, q)
<1>1. /\ L \in Nat /\ q \in 1 .. L /\ p \in 1 .. L + 1 /\ q + 1 = p
      /\ text[q] = c /\ c # NUL /\ text[i] = "/"
  <2>1. L \in Nat /\ \A k \in 1 .. L : text[k] = line[k] /\ line[k] # NUL
    BY QueueDomain DEF InMemory
  <2>2. q \in 1 .. L /\ p \in 1 .. L + 1 /\ q + 1 = p
    BY <2>1
  <2> QED BY <2>1, <2>2
<1>2. Len(WordsOf(line)[1]) = EndOfWord(text, i) - i
  OBVIOUS
<1>3. TakenFor(ParseJoinRoom(text, p)) =
        IF Named(args, 2) THEN <<"c2s_join_room", args[1], args[2]>> ELSE <<"chat">>
  BY <1>1, JoinMeant
<1>4. c = "c" => TakenFor(ParseCreateRoom(text, p)) =
        IF Named(args, 2) THEN <<"c2s_create_room", args[1], args[2]>> ELSE <<"chat">>
  <2> HIDE DEF p
  <2> QED BY <1>1, CreateMeant DEF p
<1>5. TakenFor(ParseWhisper(text, p)) =
        IF args # <<>> THEN <<"local_whisper_msg", args[1], Tail(args)>> ELSE <<"chat">>
  BY <1>1, WhisperMeant
<1>6. TakenFor(ParseList(text, p)) =
        IF args = <<>> THEN <<"chat">>
        ELSE IF args[1] = RoomWord THEN <<"local_list_room">> ELSE <<"shown">>
  BY <1>1, ListMeant
<1>7. c = "q" => TakenFor(ParseLeaveRoom(text, p)) =
        IF Len(WordsOf(line)[1]) = 2 THEN <<"local_leave_room">> ELSE <<"chat">>
  <2> SUFFICES ASSUME c = "q"
               PROVE  TakenFor(ParseLeaveRoom(text, p)) =
                        IF Len(WordsOf(line)[1]) = 2 THEN <<"local_leave_room">> ELSE <<"chat">>
    OBVIOUS
  <2>1. text[i] \notin {BLANK, NUL} /\ text[i + 1] \notin {BLANK, NUL} /\ i + 1 \in 1 .. Len(line)
    BY <1>1 DEF BLANK, NUL
  <2> DEFINE e == EndOfWord(text, i)
  <2>2. TakenFor(ParseLeaveRoom(text, i + 2)) = IF e - i = 2 THEN <<"local_leave_room">> ELSE <<"chat">>
    BY <2>1, LeaveMeant
  <2> QED BY <1>2, <2>2
<1>8. /\ TakenFor(Valid("help", TRUE, <<>>)) = <<"shown">> /\ TakenFor(Valid("exit", TRUE, <<>>)) = <<"exit">>
      /\ TakenFor(Refused("chat")) = <<"chat">> /\ TakenFor(Invalid("chat")) = <<"shown">>
  BY TakenForWhat
<1>9. CASE c = "h"
  <2>1. Cmd = Valid("help", TRUE, <<>>)
    BY <1>1, <1>9 DEF ParseCmdMessage
  <2>2. CommandMeant(line, i) = <<"shown">>
    BY <1>9 DEF CommandMeant
  <2>3. MadeOf(<<"shown">>) = <<"shown">>
    BY MadeOfWhat
  <2> QED BY <1>8, <2>1, <2>2, <2>3
<1>10. CASE c = "e"
  <2>1. Cmd = Valid("exit", TRUE, <<>>)
    BY <1>1, <1>10 DEF ParseCmdMessage, NUL
  <2>2. CommandMeant(line, i) = <<"exit">>
    BY <1>10 DEF CommandMeant
  <2>3. MadeOf(<<"exit">>) = <<"exit">>
    BY MadeOfWhat
  <2> QED BY <1>8, <2>1, <2>2, <2>3
<1>11. CASE c = "c"
  <2>1. Cmd = ParseCreateRoom(text, p)
    BY <1>1, <1>11 DEF ParseCmdMessage, NUL
  <2>2. CommandMeant(line, i) =
          IF Named(args, 2) THEN <<"c2s_create_room", args[1], args[2]>> ELSE <<"refused">>
    BY <1>11 DEF CommandMeant
  <2> QED BY <1>4, <1>11, <2>1, <2>2, MadeOfWhat
<1>12. CASE c = "j"
  <2>1. Cmd = ParseJoinRoom(text, p)
    BY <1>1, <1>12 DEF ParseCmdMessage, NUL
  <2>2. CommandMeant(line, i) =
          IF Named(args, 2) THEN <<"c2s_join_room", args[1], args[2]>> ELSE <<"refused">>
    BY <1>12 DEF CommandMeant
  <2> QED BY <1>3, <2>1, <2>2, MadeOfWhat
<1>13. CASE c = "w"
  <2>1. Cmd = ParseWhisper(text, p)
    BY <1>1, <1>13 DEF ParseCmdMessage, NUL
  <2>2. CommandMeant(line, i) =
          IF args # <<>> THEN <<"local_whisper_msg", args[1], Tail(args)>> ELSE <<"refused">>
    BY <1>13 DEF CommandMeant
  <2> QED BY <1>5, <2>1, <2>2, MadeOfWhat
<1>14. CASE c = "q"
  <2>1. Cmd = ParseLeaveRoom(text, p)
    BY <1>1, <1>14 DEF ParseCmdMessage, NUL
  <2>2. CommandMeant(line, i) =
          IF Len(WordsOf(line)[1]) = 2 THEN <<"local_leave_room">> ELSE <<"refused">>
    BY <1>14 DEF CommandMeant
  <2> QED BY <1>7, <1>14, <2>1, <2>2, MadeOfWhat
<1>15. CASE c = "l"
  <2>1. Cmd = ParseList(text, p)
    BY <1>1, <1>15 DEF ParseCmdMessage, NUL
  <2>2. CommandMeant(line, i) =
          IF args = <<>> THEN <<"refused">>
          ELSE IF args[1] = RoomWord THEN <<"local_list_room">> ELSE <<"shown">>
    BY <1>15 DEF CommandMeant
  <2> QED BY <1>6, <2>1, <2>2, MadeOfWhat
<1>16. CASE c = "r"
  <2>1. Cmd = Refused("chat")
    BY <1>1, <1>16 DEF ParseCmdMessage, ParseReply, NUL
  <2>2. CommandMeant(line, i) = <<"chat">>
    BY <1>16 DEF CommandMeant
  <2>3. MadeOf(<<"chat">>) = <<"chat">>
    BY MadeOfWhat
  <2> QED BY <1>8, <2>1, <2>2, <2>3
<1>17. CASE c \notin {"h", "e", "c", "j", "w", "q", "l", "r"}
  <2>1. Cmd = Invalid("chat")
    BY <1>1, <1>17 DEF ParseCmdMessage
  <2>2. CommandMeant(line, i) = <<"shown">>
    BY <1>17 DEF CommandMeant
  <2>3. MadeOf(<<"shown">>) = <<"shown">>
    BY MadeOfWhat
  <2> QED BY <1>8, <2>1, <2>2, <2>3
<1> QED BY <1>9, <1>10, <1>11, <1>12, <1>13, <1>14, <1>15, <1>16, <1>17

LEMMA ParsedIsMeant ==
  ASSUME NEW line, NEW behind, IsQueue(line), IsQueue(behind), NUL \notin Range(line),
         ~Unterminated(line)
  PROVE  TakenFor(ParseInput(line, behind)) = MadeOf(Meaning(line))
<1> DEFINE L == Len(line)
           text == line \o <<NUL>> \o behind
           i == SkipBlanks(text, 1)
           e == EndOfWord(text, i)
           words == WordsOf(line)
<1>1. InMemory(text, line)
  BY LineInMemory
<1>2. InMemory(line \o <<NUL>> \o <<>>, line)
  BY EmptyQueue, LineInMemory
<1> HIDE DEF text
<1>3. L \in Nat /\ 1 \in 1 .. L + 1 /\ \A k \in 1 .. L : text[k] = line[k] /\ line[k] # NUL
  <2>1. L \in Nat
    BY QueueDomain
  <2> QED BY <1>1, <2>1 DEF InMemory
<1>4. /\ i \in 1 .. L + 1 /\ text[i] # BLANK /\ \A k \in 1 .. i - 1 : text[k] = BLANK
  BY <1>1, <1>3, BlanksSkipped
<1>5. SubSeq(line, 1, L) = line
  <2>1. IsQueue(SubSeq(line, 1, L)) /\ Len(SubSeq(line, 1, L)) = L - 1 + 1
        /\ \A k \in 1 .. L - 1 + 1 : SubSeq(line, 1, L)[k] = line[1 + k - 1]
    BY <1>3, PartOfText
  <2>2. L - 1 + 1 = L /\ \A k \in 1 .. L : 1 + k - 1 = k
    BY <1>3
  <2> DEFINE whole == SubSeq(line, 1, L)
  <2>3. IsQueue(whole) /\ Len(whole) = Len(line) /\ \A k \in 1 .. Len(whole) : whole[k] = line[k]
    BY <2>1, <2>2
  <2> HIDE DEF whole
  <2>4. whole = line
    BY <2>3, SameQueue
  <2> QED BY <2>4 DEF whole
<1>6. /\ words = <<>> <=> text[i] = NUL
      /\ text[i] # NUL =>
           /\ e \in 1 .. L + 1 /\ words[1] = Between(text, i, e) /\ Len(words[1]) = e - i
  <2>1. ArgsFrom(line, 1) = words
    BY <1>5 DEF ArgsFrom
  <2> HIDE DEF words, L
  <2> QED BY <1>1, <1>3, <2>1, FirstArg DEF L
<1>7. text[i] = NUL <=> i = L + 1
  BY <1>1, <1>3, BlankAhead
<1>8. ParseInput(line, behind) =
        CASE i = L + 1 -> Refused("null")
          [] text[i] = "/" -> ParseCmdMessage(text, i + 1)
          [] OTHER -> Refused("chat")
  BY DEF ParseInput, text
<1>9. TakenFor(Refused("null")) = <<"chat">> /\ TakenFor(Refused("chat")) = <<"chat">>
  BY TakenForWhat
<1>10. CASE i = L + 1
  <2>1. ParseInput(line, behind) = Refused("null")
    <3>1. text[i] # "/"
      BY <1>7, <1>10 DEF NUL
    <3> QED BY <1>8, <1>10, <3>1
  <2>2. Meaning(line) = <<"chat">>
    BY <1>6, <1>7, <1>10 DEF Meaning
  <2> QED BY <1>9, <2>1, <2>2, MadeOfWhat
<1>11. CASE i # L + 1
  <2>1. i \in 1 .. L /\ text[i] = line[i] /\ words # <<>>
    BY <1>3, <1>4, <1>6, <1>7, <1>11
  <2>2. words[1][1] = line[i] /\ e \in i + 1 .. L + 1
    <3>1. e \in i + 1 .. L + 1
      BY <1>1, <1>3, <1>11, BlankAhead
    <3> HIDE DEF i, e
    <3>2. Between(text, i, e) = SubSeq(line, i, e - 1)
      <4>1. i \in 1 .. Len(line) + 1 /\ e \in i .. Len(line) + 1
        BY <1>3, <2>1, <3>1
      <4> HIDE DEF L
      <4> QED BY <1>1, <4>1, BetweenInLine
    <3>3. i \in 1 .. Len(line) + 1 /\ e - 1 \in Nat /\ i <= (e - 1) + 1 /\ e - 1 <= Len(line)
          /\ 1 \in 1 .. (e - 1) - i + 1 /\ i + 1 - 1 = i
      BY <1>3, <2>1, <3>1
    <3>4. SubSeq(line, i, e - 1)[1] = line[i + 1 - 1]
      BY <3>3, PartOfText
    <3> QED BY <1>6, <1>7, <1>11, <3>1, <3>2, <3>3, <3>4
  <2>3. \A k \in 1 .. i - 1 : line[k] = BLANK
    BY <1>3, <1>4, <2>1
  <2>4. CASE line[i] # "/"
    <3>1. ParseInput(line, behind) = Refused("chat")
      BY <1>8, <1>11, <2>1, <2>4
    <3>2. Meaning(line) = <<"chat">>
      BY <2>2, <2>4 DEF Meaning
    <3> QED BY <1>9, <3>1, <3>2, MadeOfWhat
  <2>5. CASE line[i] = "/"
    <3>1. FirstSlash(line) = i
      <4> HIDE DEF i
      <4> QED BY <2>1, <2>3, <2>5, SlashIs
    <3>2. ParseInput(line, behind) = ParseCmdMessage(text, i + 1)
      BY <1>8, <1>11, <2>1, <2>5
    <3>3. CASE i = L
      <4>1. text[i + 1] = NUL
        BY <1>1, <3>3 DEF InMemory
      <4>2. ParseCmdMessage(text, i + 1) = Refused("chat")
        BY <4>1 DEF ParseCmdMessage, NUL
      <4>3. Meaning(line) = <<"chat">>
        BY <3>1, <3>3 DEF Meaning
      <4> QED BY <1>9, <3>2, <4>2, <4>3, MadeOfWhat
    <3>4. CASE i # L
      <4>1. Meaning(line) = CommandMeant(line, i)
        BY <2>1, <2>2, <2>5, <3>1, <3>4 DEF Meaning
      <4>2. ~(line[i + 1] = "c" /\ Len(ArgsFrom(line, i + 2)) = 1 /\ line[Len(line)] # BLANK)
        <5> DEFINE i0 == SkipBlanks(line \o <<NUL>>, 1)
        <5>1. i0 = i
          <6> DEFINE t0 == line \o <<NUL>>
          <6>1. t0 \o <<>> = t0
            <7>1. t0 \in Seq(Range(line) \cup {NUL})
              <8>1. line \in Seq(Range(line) \cup {NUL}) /\ <<NUL>> \in Seq(Range(line) \cup {NUL})
                BY SeqMonotonic DEF IsQueue
              <8> QED BY <8>1, ConcatProperties
            <7> HIDE DEF t0
            <7> QED BY <7>1, ConcatEmptySeq
          <6>2. InMemory(t0, line)
            BY <1>2, <6>1
          <6> HIDE DEF t0
          <6>3. LET k == SkipBlanks(t0, 1) IN
                k \in 1 .. L + 1 /\ t0[k] # BLANK /\ \A n \in 1 .. k - 1 : t0[n] = BLANK
            BY <1>3, <6>2, BlanksSkipped
          <6> DEFINE k == SkipBlanks(t0, 1)
          <6>4. k \in 1 .. L + 1 /\ t0[k] # BLANK /\ \A n \in 1 .. k - 1 : t0[n] = BLANK
            BY <6>3
          <6>5. \A n \in 1 .. L : t0[n] = line[n]
            BY <6>2 DEF InMemory
          <6> HIDE DEF k, i
          <6>6. ~(k < i)
            <7>1. ASSUME k < i PROVE FALSE
              <8>1. k \in 1 .. i - 1 /\ k \in 1 .. L
                BY <1>3, <2>1, <6>4, <7>1
              <8> QED BY <2>3, <6>4, <6>5, <8>1
            <7> QED BY <7>1
          <6>7. ~(i < k)
            <7>1. ASSUME i < k PROVE FALSE
              <8>1. i \in 1 .. k - 1 /\ i \in 1 .. L
                BY <1>3, <2>1, <6>4, <7>1
              <8> QED BY <1>4, <2>1, <6>4, <6>5, <8>1
            <7> QED BY <7>1
          <6>8. k = i
            BY <1>3, <2>1, <6>4, <6>6, <6>7
          <6> QED BY <6>8 DEF k, t0
        <5>2. i < L
          BY <1>3, <2>1, <3>4
        <5>3. Last(line) = line[Len(line)]
          BY DEF Last
        <5>4. Unterminated(line) <=>
                /\ i0 < Len(line) /\ line[i0] = "/" /\ line[i0 + 1] = "c"
                /\ Len(ArgsFrom(line, i0 + 2)) = 1 /\ Last(line) # BLANK
          BY DEF Unterminated
        <5> HIDE DEF i0, i
        <5> QED BY <2>5, <5>1, <5>2, <5>3, <5>4
      <4>3. Len(WordsOf(line)[1]) = EndOfWord(text, i) - i
        BY <1>6, <1>7, <1>11
      <4> HIDE DEF i
      <4>4. TakenFor(ParseCmdMessage(text, i + 1)) = MadeOf(CommandMeant(line, i))
        BY <1>1, <2>1, <2>5, <3>4, <4>2, <4>3, CommandIsMeant
      <4> QED BY <3>2, <4>1, <4>4
    <3> QED BY <3>3, <3>4
  <2> QED BY <2>4, <2>5
<1> QED BY <1>10, <1>11

-----------------------------------------------------------------------------
(* A line that is being handled was parsed, with something behind it.      *)
Handled ==
  mPc = "handle" => /\ Last(typed) \in Lines
                    /\ \E behind \in Behind : cmd = ParseInput(Last(typed), behind)

LEMMA StepKeepsHandled == CInv /\ Handled /\ [Next]_vars => Handled'
<1> SUFFICES ASSUME CInv, Handled, [Next]_vars PROVE Handled'
  OBVIOUS
<1>1. CASE Types
  <2>1. PICK line \in Lines, behind \in Behind :
          typed' = Append(typed, line) /\ cmd' = ParseInput(line, behind)
    BY <1>1, ClientInputAssumption DEF Types
  <2>2. Last(typed') = line
    BY <2>1, AppendLast DEF CInv, Queues
  <2> QED BY <2>1, <2>2 DEF Handled
<1>2. CASE MainStep
  <2>1. mPc' # "handle"
    BY <1>2 DEF MainStep, Shows, EndsProgram, CrashesReading, EnqueuesLocal, SendsRemote,
                WritesChat, SendsChat, TestsCdkRunning, Returns
  <2> QED BY <2>1 DEF Handled
<1>3. CASE UNCHANGED main
  BY <1>3 DEF main, Handled
<1>4. NetStep \/ ClientStep \/ ServerStep \/ UNCHANGED vars => UNCHANGED main
  BY DEF NetStep, NetForwards, NetSends, NetReceives, ClientStep, DecodesId, DecodesName,
         ShowsRoomList, SendsWhisper, LeavesHall, JoinsHall, ServerStep, ServerMoves, ServerStays,
         vars
<1> QED BY <1>1, <1>2, <1>3, <1>4 DEF Next

LEMMA HandledIsMeant == Handled => ParsedAsMeant
<1> SUFFICES ASSUME Handled, mPc = "handle", ~Unterminated(Last(typed))
             PROVE  TakenFor(cmd) = MadeOf(Meaning(Last(typed)))
  BY DEF ParsedAsMeant
<1> DEFINE line == Last(typed)
<1>1. line \in Lines
  BY DEF Handled
<1>2. PICK behind \in Behind : cmd = ParseInput(line, behind)
  BY DEF Handled
<1> HIDE DEF line
<1>3. IsQueue(line) /\ IsQueue(behind) /\ NUL \notin Range(line)
  BY <1>1, <1>2, TextsAssumption DEF IsQueue
<1>4. ~Unterminated(line)
  BY DEF line
<1>5. TakenFor(cmd) = MadeOf(Meaning(line))
  BY <1>2, <1>3, <1>4, ParsedIsMeant
<1> QED BY <1>5 DEF line

(* The index loops of the parser (InputParser.cpp) find in every line, of  *)
(* every length, with whatever is behind it in memory, the command and the *)
(* words that its characters say, but for the name of a room to create     *)
(* that ends with the line; they take the commands they refuse for chats.  *)
THEOREM LinesAreParsedAsMeant == Spec => []ParsedAsMeant
<1>1. Init => CInv /\ Handled
  BY InitTypes DEF Init, Handled
<1>2. CInv /\ Handled /\ [Next]_vars => CInv' /\ Handled'
  BY StepKeepsTypes, StepKeepsHandled
<1> QED BY <1>1, <1>2, HandledIsMeant, PTL DEF Spec

-----------------------------------------------------------------------------
(* What is sent.                                                           *)

LEMMA AskedPlain ==
  /\ \A m : RemoteMsg(m) => Asked(m) = m
  /\ Asked(<<"local_leave_room">>) = <<"local_leave_room">>
<1>1. ASSUME NEW m, RemoteMsg(m) PROVE Asked(m) = m
  <2>1. m[1] \in {"c2s_create_room", "c2s_join_room"}
    BY <1>1, FirstOfThree DEF RemoteMsg
  <2> QED BY <2>1 DEF Asked
<1>2. <<"local_leave_room">>[1] = "local_leave_room"
  OBVIOUS
<1>3. Asked(<<"local_leave_room">>) = <<"local_leave_room">>
  BY <1>2 DEF Asked
<1> QED BY <1>1, <1>3

LEMMA AskedIsNoChat ==
  ASSUME NEW m, LocalMsg(m) \/ RemoteMsg(m)
  PROVE  Asked(m) # <<"chat">>
<1>1. <<"chat">>[1] = "chat" /\ \A op, x, y : <<op>>[1] = op /\ <<op, x, y>>[1] = op
  OBVIOUS
<1>2. m[1] # "chat"
  BY <1>1, FirstOfThree DEF LocalMsg, RemoteMsg
<1>3. Asked(m)[1] # "chat"
  BY <1>1, <1>2 DEF Asked
<1> QED BY <1>1, <1>3

LEMMA LastTyped ==
  ASSUME CInv, mPc \in {"handle", "send"}
  PROVE  typed[Len(typed)] = Last(typed)
BY DEF Last

LEMMA InitSent == Init => SInv
BY EmptyQueue DEF Init, SInv

LEMMA TypesKeepsSent == CInv /\ SInv /\ Types => SInv'
<1> SUFFICES ASSUME CInv, SInv, Types PROVE SInv'
  OBVIOUS
<1> DEFINE n == Len(typed)
<1>1. mPc' = "handle" /\ UNCHANGED <<net, cr, toServer, arrived>>
  BY DEF Types, queues, server
<1>2. \A k \in 1 .. n : typed'[k] = typed[k]
  BY AppendLast DEF Types, CInv, Queues
<1>3. /\ \A c \in Range(cr) \cup Range(net) : Waiting(c) => c.of \in 1 .. n
      /\ \A c \in Range(arrived) \cup Range(toServer) \cup Range(net) :
           c.op = "OP_SEND" => c.of \in 1 .. n
  BY DEF CInv, Holds, Waiting, Info, Pending, Sent, Ctx
<1> HIDE DEF n
<1>4. \A c \in Range(cr') \cup Range(net') : Waiting(c) =>
        Unterminated(typed'[c.of]) \/ Asked(c.msg) = Meaning(typed'[c.of])
  BY <1>1, <1>2, <1>3 DEF SInv
<1>5. \A c \in Range(arrived') \cup Range(toServer') \cup Range(net') : c.op = "OP_SEND" =>
        Means(c.msg, typed'[c.of])
  BY <1>1, <1>2, <1>3 DEF SInv
<1> QED BY <1>1, <1>4, <1>5 DEF SInv

LEMMA MainKeepsSent == CInv /\ SInv /\ ParsedAsMeant /\ MainStep => SInv'
<1> SUFFICES ASSUME CInv, SInv, ParsedAsMeant, MainStep PROVE SInv'
  OBVIOUS
<1> DEFINE line == Last(typed)
<1>1. CASE MainStays
  <2>1. UNCHANGED <<typed, net, cr, toServer, arrived>>
    BY <1>1 DEF MainStays
  <2>2. ASSUME mPc' = "send"
        PROVE  Unterminated(line) \/ Meaning(line) \in {<<"chat">>, <<"refused">>}
    <3>1. WritesChat
      BY <1>1, <2>2 DEF MainStays
    <3>2. mPc = "handle" /\ ~cmd.parsed
      BY <3>1 DEF WritesChat, Handles
    <3>3. TakenFor(cmd) = <<"chat">>
      BY <3>2 DEF TakenFor
    <3> HIDE DEF line
    <3> QED BY <3>2, <3>3, ChatIsMeant DEF ParsedAsMeant, line
  <2> HIDE DEF line
  <2>3. mPc' = "send" =>
          Unterminated(Last(typed')) \/ Meaning(Last(typed')) \in {<<"chat">>, <<"refused">>}
    BY <2>1, <2>2 DEF line
  <2>4. \A c \in Range(cr') \cup Range(net') : Waiting(c) =>
          Unterminated(typed'[c.of]) \/ Asked(c.msg) = Meaning(typed'[c.of])
    BY <2>1 DEF SInv
  <2>5. \A c \in Range(arrived') \cup Range(toServer') \cup Range(net') : c.op = "OP_SEND" =>
          Means(c.msg, typed'[c.of])
    BY <2>1 DEF SInv
  <2> QED BY <2>3, <2>4, <2>5 DEF SInv
<1>2. ASSUME NEW e, MainAdds(e) PROVE SInv'
  <2>1. /\ net' = Append(net, e) /\ mPc' = "test" /\ IsQueue(net)
        /\ UNCHANGED <<typed, cr, toServer, arrived>>
    BY <1>2 DEF MainAdds, CInv, Queues
  <2>2. e.of = Len(typed) /\ mPc \in {"handle", "send"}
    BY <1>2, MainAddsWhat
  <2>3. typed[e.of] = line
    BY <2>2, LastTyped
  <2>4. Range(net') = Range(net) \cup {e}
    BY <2>1, AppendToQueue
  <2>5. ASSUME mPc = "handle"
        PROVE  /\ Unterminated(line) \/ Asked(e.msg) = Meaning(line)
               /\ e.op = "OP_SEND" => RemoteMsg(e.msg)
    <3>1. /\ cmd.parsed /\ ~cmd.mInvalid /\ cmd.type \notin {"exit", "help"}
          /\ e = Ctx(e.op, cmd.msg, Len(typed))
          /\ e.op = "OP_SEND" => RemoteMsg(cmd.msg)
          /\ LocalMsg(cmd.msg) \/ RemoteMsg(cmd.msg)
      BY <1>2, <2>5 DEF MainAdds
    <3>2. e.msg = cmd.msg
      BY <3>1 DEF Ctx
    <3>3. TakenFor(cmd) = Asked(cmd.msg)
      BY <3>1 DEF TakenFor
    <3>4. Unterminated(line) \/ TakenFor(cmd) = MadeOf(Meaning(line))
      BY <2>5 DEF ParsedAsMeant
    <3>5. Asked(cmd.msg) # <<"chat">>
      BY <3>1, AskedIsNoChat
    <3> HIDE DEF line
    <3>6. Unterminated(line) \/ Asked(cmd.msg) = Meaning(line)
      BY <3>3, <3>4, <3>5, AskedIsMeant
    <3> QED BY <3>1, <3>2, <3>6
  <2>6. ASSUME e.op = "OP_SEND" PROVE Means(e.msg, line)
    <3>1. CASE mPc = "handle"
      <4> DEFINE m == e.msg
      <4>1. RemoteMsg(m) /\ (Unterminated(line) \/ Asked(m) = Meaning(line))
        BY <2>5, <2>6, <3>1
      <4> HIDE DEF m, line
      <4>2. m[1] \in ToServer /\ Asked(m) = m
        BY <4>1, FirstOfThree, AskedPlain DEF RemoteMsg, ToServer
      <4>3. Means(m, line)
        BY <4>1, <4>2 DEF Means
      <4> QED BY <4>3 DEF m
    <3>2. CASE mPc = "send"
      <4>1. e = Ctx("OP_SEND", chat, Len(typed))
        BY <1>2, <3>2 DEF MainAdds
      <4>2. e.msg = chat
        BY <4>1 DEF Ctx
      <4>3. chat[1] = "c2s_publish_chat_msg" /\ chat[3] = line
        BY <3>2 DEF CInv, Pcs
      <4>4. Unterminated(line) \/ Meaning(line) \in {<<"chat">>, <<"refused">>}
        BY <3>2 DEF SInv
      <4> HIDE DEF line
      <4> QED BY <4>2, <4>3, <4>4 DEF Means
    <3> QED BY <2>2, <3>1, <3>2
  <2>7. ASSUME e.op = "OP_RECV" PROVE Unterminated(line) \/ Asked(e.msg) = Meaning(line)
    <3>1. mPc = "handle"
      BY <1>2, <2>7 DEF MainAdds, Ctx
    <3> QED BY <2>5, <3>1
  <2> HIDE DEF line
  <2>8. \A c \in Range(cr') \cup Range(net') : Waiting(c) =>
          Unterminated(typed'[c.of]) \/ Asked(c.msg) = Meaning(typed'[c.of])
    BY <2>1, <2>3, <2>4, <2>7 DEF SInv, Waiting
  <2>9. \A c \in Range(arrived') \cup Range(toServer') \cup Range(net') : c.op = "OP_SEND" =>
          Means(c.msg, typed'[c.of])
    BY <2>1, <2>3, <2>4, <2>6 DEF SInv
  <2> QED BY <2>1, <2>8, <2>9 DEF SInv
<1> QED BY <1>1, <1>2, MainForms

(* The threads that only move contexts.                                    *)
LEMMA MovedAreSent ==
  ASSUME SInv, UNCHANGED <<mPc, typed>>,
         \A c \in Range(cr') \cup Range(net') :
           Waiting(c) => c \in Range(cr) \cup Range(net),
         \A c \in Range(arrived') \cup Range(toServer') \cup Range(net') : c.op = "OP_SEND" =>
           c \in Range(arrived) \cup Range(toServer) \cup Range(net) \/ Means(c.msg, typed[c.of])
  PROVE  SInv'
<1>1. \A c \in Range(cr') \cup Range(net') : Waiting(c) =>
        Unterminated(typed'[c.of]) \/ Asked(c.msg) = Meaning(typed'[c.of])
  BY DEF SInv
<1>2. \A c \in Range(arrived') \cup Range(toServer') \cup Range(net') : c.op = "OP_SEND" =>
        Means(c.msg, typed'[c.of])
  BY DEF SInv
<1> QED BY <1>1, <1>2 DEF SInv

LEMMA NetKeepsSent == CInv /\ SInv /\ NetStep => SInv'
<1> SUFFICES ASSUME CInv, SInv, NetStep PROVE SInv'
  OBVIOUS
<1>1. UNCHANGED <<mPc, typed>>
  BY DEF NetStep, NetForwards, NetSends, NetReceives, main
<1>2. CASE NetForwards
  <2>1. /\ net # <<>> /\ net' = Tail(net) /\ cr' = Append(cr, Head(net))
        /\ UNCHANGED <<toServer, arrived>>
    BY <1>2 DEF NetForwards, server
  <2>2. Range(net) = {Head(net)} \cup Range(net') /\ Range(cr') = Range(cr) \cup {Head(net)}
    BY <2>1, HeadOf, AppendToQueue DEF CInv, Queues
  <2> QED BY <1>1, <2>1, <2>2, MovedAreSent
<1>3. CASE NetSends
  <2>1. /\ net # <<>> /\ net' = Tail(net) /\ toServer' = Append(toServer, Head(net))
        /\ UNCHANGED <<cr, arrived>>
    BY <1>3 DEF NetSends
  <2>2. /\ Range(net) = {Head(net)} \cup Range(net')
        /\ Range(toServer') = Range(toServer) \cup {Head(net)}
    BY <2>1, HeadOf, AppendToQueue DEF CInv, Queues
  <2> QED BY <1>1, <2>1, <2>2, MovedAreSent
<1>4. CASE NetReceives
  <2> DEFINE h == Head(toClient)
  <2>1. /\ toClient # <<>> /\ net' = Append(net, h) /\ UNCHANGED <<cr, toServer, arrived>>
    BY <1>4 DEF NetReceives
  <2>2. h.op = "OP_RECV" /\ h.of = 0 /\ Range(net') = Range(net) \cup {h}
    BY <2>1, HeadOf, AppendToQueue DEF CInv, Queues, Holds, Info
  <2>3. ~Waiting(h) /\ h.op # "OP_SEND"
    BY <2>2 DEF Waiting
  <2> HIDE DEF h
  <2> QED BY <1>1, <2>1, <2>2, <2>3, MovedAreSent
<1> QED BY <1>2, <1>3, <1>4 DEF NetStep

LEMMA ClientKeepsSent == CInv /\ SInv /\ ClientStep => SInv'
<1> SUFFICES ASSUME CInv, SInv, ClientStep PROVE SInv'
  OBVIOUS
<1>1. CASE DecodesId
  <2>1. UNCHANGED <<mPc, typed, net, cr, toServer, arrived>>
    BY <1>1 DEF DecodesId, main, queues, server
  <2> QED BY <2>1, MovedAreSent
<1>2. CASE DecodesName
  <2>1. /\ cr # <<>> /\ cr' = Tail(cr) /\ UNCHANGED <<mPc, typed, net, toServer, arrived>>
    BY <1>2, DecodesNameWhat
  <2>2. Range(cr') \subseteq Range(cr)
    BY <2>1, HeadOf DEF CInv, Queues
  <2> QED BY <2>1, <2>2, MovedAreSent
<1>3. ASSUME ClientServes
      PROVE  /\ Head(cr) \in Range(cr) /\ Range(cr') \subseteq Range(cr)
             /\ Pending(Head(cr), Len(typed))
             /\ UNCHANGED <<mPc, typed, toServer, arrived>>
  <2>1. /\ cr # <<>> /\ cr' = Tail(cr) /\ Pending(Head(cr), Len(typed))
        /\ UNCHANGED <<mPc, typed, toServer, arrived>>
    BY <1>3 DEF ClientServes
  <2> QED BY <2>1, HeadOf DEF CInv, Queues
<1>4. CASE ClientServes /\ UNCHANGED net
  BY <1>3, <1>4, MovedAreSent
<1>5. ASSUME NEW e, ClientAnswers(e) PROVE SInv'
  <2> DEFINE h == Head(cr)
             line == typed[h.of]
  <2>1. /\ ClientServes /\ net' = Append(net, e) /\ IsQueue(net)
        /\ e.op = "OP_SEND" /\ e.of = h.of
        /\ \/ Asked(h.msg)[1] = "local_whisper_msg" /\ Asked(e.msg) = Asked(h.msg)
           \/ h.msg = <<"local_leave_room">> /\ e.msg = <<"c2s_join_room", HALL, <<>> >>
    BY <1>5 DEF ClientAnswers, Sent, CInv, Queues
  <2>2. /\ h \in Range(cr) /\ Range(cr') \subseteq Range(cr) /\ Pending(h, Len(typed))
        /\ UNCHANGED <<mPc, typed, toServer, arrived>>
    BY <1>3, <2>1
  <2>3. Waiting(h)
    <3>1. h.op = "OP_RECV" /\ h.of \in 1 .. Len(typed)
      BY <2>2 DEF Pending, Ctx
    <3>2. h.of # 0
      BY <3>1, Numbers
    <3> QED BY <3>1, <3>2 DEF Waiting
  <2>4. Unterminated(line) \/ Asked(h.msg) = Meaning(line)
    BY <2>2, <2>3 DEF SInv
  <2>5. Range(net') = Range(net) \cup {e}
    BY <2>1, AppendToQueue
  <2>6. typed[e.of] = line
    BY <2>1
  <2> HIDE DEF h, line
  <2>7. Means(e.msg, line)
    BY <2>1, <2>4, AskedPlain DEF Means
  <2>8. ~Waiting(e)
    BY <2>1 DEF Waiting
  <2> QED BY <2>2, <2>5, <2>6, <2>7, <2>8, MovedAreSent
<1> QED BY <1>1, <1>2, <1>4, <1>5, ClientForms

LEMMA ServerKeepsSent == CInv /\ SInv /\ ServerStep => SInv'
<1> SUFFICES ASSUME CInv, SInv, ServerStep PROVE SInv'
  OBVIOUS
<1>1. /\ toServer # <<>> /\ toServer' = Tail(toServer)
      /\ arrived' = Append(arrived, Head(toServer)) /\ UNCHANGED <<mPc, typed, net, cr>>
  BY ServerForms DEF ServerTakes
<1>2. /\ Range(toServer) = {Head(toServer)} \cup Range(toServer')
      /\ Range(arrived') = Range(arrived) \cup {Head(toServer)}
  BY <1>1, HeadOf, AppendToQueue DEF CInv, Queues
<1> QED BY <1>1, <1>2, MovedAreSent

LEMMA StepKeepsSent == CInv /\ SInv /\ ParsedAsMeant /\ [Next]_vars => SInv'
<1>1. SInv /\ UNCHANGED vars => SInv'
  <2>1. UNCHANGED vars => UNCHANGED <<mPc, typed, net, cr, toServer, arrived>>
    BY DEF vars, main, queues, server
  <2> QED BY <2>1, MovedAreSent
<1> QED BY <1>1, TypesKeepsSent, MainKeepsSent, NetKeepsSent, ClientKeepsSent, ServerKeepsSent
        DEF Next

LEMMA SentImplies == CInv /\ SInv => SentAsMeant
<1> SUFFICES ASSUME CInv, SInv, NEW c \in Range(OnTheWay), c.op = "OP_SEND"
             PROVE  Means(c.msg, typed[c.of])
  BY DEF SentAsMeant, Means
<1>1. Range(OnTheWay) = Range(arrived) \cup Range(toServer) \cup Range(net)
  <2>1. /\ IsQueue(arrived \o toServer)
        /\ Range(arrived \o toServer) = Range(arrived) \cup Range(toServer)
    BY ConcatOfQueues DEF CInv, Queues
  <2> QED BY <2>1, ConcatOfQueues DEF CInv, Queues, OnTheWay
<1> QED BY <1>1 DEF SInv

(* The server gets of each line what the line means: with the parser, the  *)
(* two threads, the queues between them and the detour of a /w or a /q no  *)
(* line is mistaken for another, no chat is sent as a command, and no      *)
(* command is published as a chat but those the parser refuses, which all  *)
(* are (CRClient::HandleInput and CRClient::RecvMessage).                  *)
THEOREM LinesAreSentAsMeant == Spec => []SentAsMeant
<1>1. Init => CInv /\ Handled /\ SInv
  BY InitTypes, InitSent DEF Init, Handled
<1>2. CInv /\ Handled /\ SInv /\ [Next]_vars => CInv' /\ Handled' /\ SInv'
  BY StepKeepsTypes, StepKeepsHandled, StepKeepsSent, HandledIsMeant
<1> QED BY <1>1, <1>2, SentImplies, PTL DEF Spec

===============================================================================
