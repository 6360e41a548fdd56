------------------------------ MODULE InputParser ------------------------------
(***************************************************************************)
(* InputParser (src/src/Main/client/InputParser.cpp): what a line typed    *)
(* into the entry is taken for.                                            *)
(*                                                                         *)
(* A text is the line, the NUL that ends it and the memory behind it, as a *)
(* sequence of characters; the parser's loops move an index over it.       *)
(***************************************************************************)
EXTENDS Naturals, Sequences

CONSTANTS MinLength,   \* 4 in the code: the shortest name or password
          MaxLength,   \* 20 in the code: the longest
          RoomWord     \* the word "room" of /l room

ASSUME InputParserAssumption ==
  MinLength \in Nat \ {0} /\ MaxLength \in Nat /\ MinLength <= MaxLength

BLANK == " "
NUL == "NUL"

(* The loops: the first index from i on that ends the run. *)
Until(text, i, Ends(_)) ==
  CHOOSE j \in i .. Len(text) : Ends(text[j]) /\ \A k \in i .. j - 1 : ~Ends(text[k])

SkipBlanks(text, i) == Until(text, i, LAMBDA c : c # BLANK)

EndOfWord_Short(text, i) ==         \* bug: stops one character early
  Until(text, i, LAMBDA c : c \in {BLANK, NUL}) - 1

EndOfWord(text, i) == Until(text, i, LAMBDA c : c \in {BLANK, NUL})

(* The name of /c: this loop does not stop at the end of the line. *)
EndOfName(text, i) == Until(text, i, LAMBDA c : c = BLANK)

EndOfLine(text, i) == Until(text, i, LAMBDA c : c = NUL)

Between(text, i, j) == SubSeq(text, i, j - 1)     \* [i, j)

LengthOkay_Over(i, j) ==            \* bug: one character too many is accepted
  j - i >= MinLength /\ j - i <= MaxLength + 1

LengthOkay(i, j) == j - i >= MinLength /\ j - i <= MaxLength

-----------------------------------------------------------------------------
(* Cmd, with ParseInput's result; msg is <<>> for NULL.                    *)

Refused(type) ==
  [parsed |-> FALSE, type |-> type, mInvalid |-> TRUE, mLocalCmd |-> TRUE, msg |-> <<>>]
Invalid(type) == [Refused(type) EXCEPT !.parsed = TRUE]
Valid(type, local, msg) ==
  [parsed |-> TRUE, type |-> type, mInvalid |-> FALSE, mLocalCmd |-> local, msg |-> msg]

ParseCreateRoom(text, i) ==
  LET name == SkipBlanks(text, i)    nameend == EndOfName(text, name)
      passwd == SkipBlanks(text, nameend)    passwdend == EndOfWord(text, passwd)
  IN IF text[name] # NUL /\ LengthOkay(name, nameend) /\ LengthOkay(passwd, passwdend)
     THEN Valid("create_room", FALSE, <<"c2s_create_room", Between(text, name, nameend),
                                        Between(text, passwd, passwdend)>>)
     ELSE Refused("create_room")

ParseJoinRoom(text, i) ==
  LET room == SkipBlanks(text, i)    roomend == EndOfWord(text, room)
      passwd == SkipBlanks(text, roomend)    passwdend == EndOfWord(text, passwd)
  IN IF text[room] = NUL \/ ~LengthOkay(room, roomend) THEN Refused("null")
     ELSE IF ~LengthOkay(passwd, passwdend) THEN Refused("chat")
     ELSE Valid("chat", FALSE, <<"c2s_join_room", Between(text, room, roomend),
                                 Between(text, passwd, passwdend)>>)

ParseWhisper(text, i) ==
  LET target == SkipBlanks(text, i)    targetend == EndOfWord(text, target)
      words == SkipBlanks(text, targetend)
  IN IF text[target] = NUL THEN Refused("null")
     ELSE Valid("chat", TRUE, <<"local_whisper_msg", Between(text, target, targetend),
                                Between(text, words, EndOfLine(text, words))>>)

ParseReply(text, i) == Refused("chat")

ParseList(text, i) ==
  LET target == SkipBlanks(text, i)
  IN IF text[target] = NUL THEN Refused("null")
     ELSE IF Between(text, target, EndOfWord(text, target)) = RoomWord
     THEN Valid("list_room", TRUE, <<"local_list_room">>)
     ELSE Invalid("null")

ParseLeaveRoom(text, i) ==
  IF text[i] \in {BLANK, NUL} THEN Valid("leave_room", TRUE, <<"local_leave_room">>)
  ELSE Refused("null")

ParseCmdMessage(text, i) ==
  CASE text[i] = "h" -> Valid("help", TRUE, <<>>)
    [] text[i] = "c" -> ParseCreateRoom(text, i + 1)
    [] text[i] = "j" -> ParseJoinRoom(text, i + 1)
    [] text[i] = "w" -> ParseWhisper(text, i + 1)
    [] text[i] = "r" -> ParseReply(text, i + 1)
    [] text[i] = "q" -> ParseLeaveRoom(text, i + 1)
    [] text[i] = "e" -> Valid("exit", TRUE, <<>>)
    [] text[i] = "l" -> ParseList(text, i + 1)
    [] text[i] = NUL -> Refused("chat")
    [] OTHER -> Invalid("chat")     \* parsed, and never set valid: /i, too

ParseInput(line, behind) ==
  LET text == line \o <<NUL>> \o behind
      i == SkipBlanks(text, 1)
  IN CASE i = Len(line) + 1 -> Refused("null")
       [] text[i] = "/" -> ParseCmdMessage(text, i + 1)
       [] OTHER -> Refused("chat")

===============================================================================
