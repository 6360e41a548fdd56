---------------------------------- MODULE Msg ----------------------------------
(***************************************************************************)
(* Msg (src/src/common/include/Msg.hpp, src/src/common/src/Msg.cpp): the   *)
(* buffer in which a message is written and from which it is read.         *)
(*                                                                         *)
(* A byte is a triple <<value, k, width>>, the k-th byte of a number of    *)
(* that width in network order; a character is a number of one byte.  What *)
(* a reader gets is a number only if it reads the very bytes of one.       *)
(***************************************************************************)
EXTENDS Integers, Sequences

CONSTANTS PageSize,     \* getpagesize()
          HEAD_LENGTH,  \* 8: the length, and four bytes nobody writes
          PointerSize   \* sizeof(char *), which Reverse allocates per byte

ASSUME MsgAssumption ==
  /\ PageSize \in Nat \ {0} /\ PointerSize \in Nat \ {0}
  /\ HEAD_LENGTH \in Nat /\ HEAD_LENGTH <= PageSize

Unset == -1

(* mData is the data behind the head and what is allocated for both; len   *)
(* is the number in the head.  mWriteOffset is the length of the data.     *)
NewMsg ==
  [mMallocSize |-> PageSize, allocated |-> PageSize, data |-> <<>>, len |-> Unset]

NewMsgOf(len) ==
  [mMallocSize |-> len + HEAD_LENGTH, allocated |-> len + HEAD_LENGTH, data |-> <<>>, len |-> Unset]

LeftSize(m) == m.mMallocSize - Len(m.data) - HEAD_LENGTH

(* The buffer may grow; mMallocSize stays what it was. *)
ReverseSize(m, size) ==
  LET wanted == IF size < 2 * m.mMallocSize THEN 2 * m.mMallocSize ELSE size
  IN IF size <= m.mMallocSize THEN m
     ELSE [m EXCEPT !.allocated = PointerSize * (wanted + (wanted % PageSize))]

(* LeftSize() < size is a comparison of size_t: a negative LeftSize is     *)
(* larger than any size.                                                   *)
Prepared(m, bytes) ==
  IF LeftSize(m) >= 0 /\ LeftSize(m) < Len(bytes) THEN ReverseSize(m, Len(bytes)) ELSE m

Holds(m, bytes) == HEAD_LENGTH + Len(m.data) + Len(bytes) <= Prepared(m, bytes).allocated

WriteByte(m, bytes) == [Prepared(m, bytes) EXCEPT !.data = @ \o bytes]

SetLen(m) == [m EXCEPT !.len = Len(m.data)]

Dup_Short(m) ==                     \* bug: the copy has no room for the head
  SetLen([NewMsgOf(Len(m.data) - HEAD_LENGTH) EXCEPT !.data = m.data])

Dup(m) == SetLen([NewMsgOf(Len(m.data)) EXCEPT !.data = m.data])

-----------------------------------------------------------------------------
(* operator<< : what is written, in as many pieces as the code writes.     *)

Number(v, width) == [k \in 1 .. width |-> <<v, k, width>>]
Width == [int |-> 4, u16 |-> 2, u32 |-> 4, u64 |-> 8]

Pieces(field) ==
  IF field[1] = "str"
  THEN <<Number(Len(field[2]), Width["u64"]), [k \in DOMAIN field[2] |-> <<field[2][k], 1, 1>>]>>
  ELSE <<Number(field[2], Width[field[1]])>>

(* operator>> : the number at an offset of the data, if there is one.      *)
NumberAt(data, at, width) ==
  IF at + width <= Len(data) /\ SubSeq(data, at + 1, at + width) = Number(data[at + 1][1], width)
  THEN data[at + 1][1] ELSE Unset

===============================================================================
