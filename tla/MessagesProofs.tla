---------------------------- MODULE MessagesProofs -----------------------------
(***************************************************************************)
(* Theorems about the messages of client and server, of every type and for *)
(* any strings, rooms and users in them: what is written fits a page, and  *)
(* what is read is what was written.                                       *)
(***************************************************************************)
EXTENDS Messages, QueueLemmas

-----------------------------------------------------------------------------
(* FlattenSeq, by the partial results from which the library defines it.   *)

Partials(g, s, n) == g = [i \in 1 .. n |-> IF i = 1 THEN s[i] ELSE g[i - 1] \o s[i]]

LEMMA PartialsStep ==
  ASSUME NEW g, NEW s, NEW n \in Nat, Partials(g, s, n)
  PROVE  \A i \in 1 .. n : g[i] = IF i = 1 THEN s[i] ELSE g[i - 1] \o s[i]
BY DEF Partials

LEMMA PartialsAgree ==
  ASSUME NEW s, NEW t, NEW g, NEW h, NEW n \in Nat, NEW m \in Nat,
         Partials(g, s, n), Partials(h, t, m),
         NEW k \in Nat, k <= n, k <= m, \A i \in 1 .. k : s[i] = t[i]
  PROVE  \A i \in 1 .. k : g[i] = h[i]
<1> DEFINE S == {j \in Nat : j \in 1 .. k => g[j] = h[j]}
<1>1. /\ \A i \in 1 .. n : g[i] = IF i = 1 THEN s[i] ELSE g[i - 1] \o s[i]
      /\ \A i \in 1 .. m : h[i] = IF i = 1 THEN t[i] ELSE h[i - 1] \o t[i]
  BY PartialsStep
<1>2. 0 \in S
  OBVIOUS
<1>3. ASSUME NEW j \in Nat, j \in S PROVE j + 1 \in S
  <2> SUFFICES ASSUME j + 1 \in 1 .. k PROVE g[j + 1] = h[j + 1]
    OBVIOUS
  <2>1. j + 1 \in 1 .. n /\ j + 1 \in 1 .. m /\ s[j + 1] = t[j + 1] /\ (j + 1) - 1 = j
    OBVIOUS
  <2>2. CASE j = 0
    BY <1>1, <2>1, <2>2
  <2>3. CASE j # 0
    <3>1. j \in 1 .. k /\ j + 1 # 1
      BY <2>3
    <3>2. g[j] = h[j]
      BY <1>3, <3>1
    <3> HIDE DEF S
    <3> QED BY <1>1, <2>1, <3>1, <3>2
  <2> QED BY <2>2, <2>3
<1>4. \A j \in Nat : j \in S
  <2> HIDE DEF S
  <2> QED BY <1>2, <1>3, EveryNumber
<1> QED BY <1>4

LEMMA PartialsExist ==
  ASSUME NEW s, NEW n \in Nat
  PROVE  \E g : Partials(g, s, n)
<1> DEFINE S == {j \in Nat : \E g : Partials(g, s, j)}
<1>1. 0 \in S
  <2> DEFINE g == [i \in 1 .. 0 |-> s[i]]
  <2>1. Partials(g, s, 0)
    BY DEF Partials
  <2> HIDE DEF g
  <2> QED BY <2>1
<1>2. ASSUME NEW j \in Nat, j \in S PROVE j + 1 \in S
  <2>1. PICK g : Partials(g, s, j)
    BY <1>2
  <2> DEFINE h == [i \in 1 .. j + 1 |-> IF i = 1 THEN s[i] ELSE g[i - 1] \o s[i]]
  <2>2. \A i \in 1 .. j : g[i] = IF i = 1 THEN s[i] ELSE g[i - 1] \o s[i]
    BY <2>1, PartialsStep
  <2>3. \A i \in 1 .. j : h[i] = g[i]
    <3>1. \A i \in 1 .. j : i \in 1 .. j + 1
      OBVIOUS
    <3> QED BY <2>2, <3>1
  <2>4. ASSUME NEW i \in 1 .. j + 1
        PROVE  (IF i = 1 THEN s[i] ELSE g[i - 1] \o s[i]) = (IF i = 1 THEN s[i] ELSE h[i - 1] \o s[i])
    <3>1. CASE i = 1
      BY <3>1
    <3>2. CASE i # 1
      <4>1. i - 1 \in 1 .. j
        BY <3>2
      <4> HIDE DEF h
      <4> QED BY <2>3, <3>2, <4>1
    <3> QED BY <3>1, <3>2
  <2>5. h = [i \in 1 .. j + 1 |-> IF i = 1 THEN s[i] ELSE h[i - 1] \o s[i]]
    <3> DEFINE e(i) == IF i = 1 THEN s[i] ELSE g[i - 1] \o s[i]
               f(i) == IF i = 1 THEN s[i] ELSE h[i - 1] \o s[i]
    <3>1. \A i \in 1 .. j + 1 : e(i) = f(i)
      BY <2>4
    <3>2. h = [i \in 1 .. j + 1 |-> e(i)]
      OBVIOUS
    <3> HIDE DEF e, f, h
    <3>3. h = [i \in 1 .. j + 1 |-> f(i)]
      BY <3>1, <3>2
    <3> QED BY <3>3 DEF f
  <2> HIDE DEF h
  <2>6. Partials(h, s, j + 1)
    BY <2>5 DEF Partials
  <2> QED BY <2>6
<1>3. \A j \in Nat : j \in S
  <2> HIDE DEF S
  <2> QED BY <1>1, <1>2, EveryNumber
<1> QED BY <1>3

LEMMA FlattenIs ==
  ASSUME NEW s, Len(s) \in Nat \ {0}
  PROVE  \E g : Partials(g, s, Len(s)) /\ FlattenSeq(s) = g[Len(s)]
<1> DEFINE g == CHOOSE g : Partials(g, s, Len(s))
<1>1. Partials(g, s, Len(s))
  BY PartialsExist
<1>2. FlattenSeq(s) = g[Len(s)]
  BY DEF FlattenSeq, Partials
<1> QED BY <1>1, <1>2

(* One more at the end of the sequence is one more at the end of the whole. *)
LEMMA FlattenAppend ==
  ASSUME NEW s, NEW x, IsQueue(s), IsQueue(x)
  PROVE  /\ FlattenSeq(<<>>) = <<>>
         /\ FlattenSeq(s \o <<x>>) = (IF s = <<>> THEN x ELSE FlattenSeq(s) \o x)
<1> DEFINE n == Len(s)
           t == s \o <<x>>
<1>1. FlattenSeq(<<>>) = <<>>
  <2>1. Len(<<>>) = 0
    BY EmptySeq
  <2> QED BY <2>1 DEF FlattenSeq
<1>2. n \in Nat /\ (n = 0 <=> s = <<>>) /\ (s # <<>> => Len(s) \in Nat \ {0})
  BY EmptySeq DEF IsQueue
<1>3. /\ IsQueue(t) /\ Len(t) = n + 1
      /\ \A i \in 1 .. n : t[i] = s[i]
      /\ t[n + 1] = x
  <2>1. IsQueue(<<x>>) /\ Len(<<x>>) = 1 /\ <<x>>[1] = x /\ 1 \in 1 .. 1
    BY SingleQueue
  <2>2. /\ IsQueue(t) /\ Len(t) = n + Len(<<x>>)
        /\ \A i \in 1 .. n : t[i] = s[i]
        /\ \A i \in 1 .. Len(<<x>>) : t[n + i] = <<x>>[i]
    BY <2>1, Chained
  <2> HIDE DEF t, n
  <2> QED BY <2>1, <2>2
<1> HIDE DEF t
<1>4. PICK h : Partials(h, t, Len(t)) /\ FlattenSeq(t) = h[Len(t)]
  <2>1. Len(t) \in Nat \ {0}
    BY <1>2, <1>3
  <2> QED BY <2>1, FlattenIs
<1>5. Partials(h, t, n + 1) /\ FlattenSeq(t) = h[n + 1]
  BY <1>3, <1>4
<1>6. h[n + 1] = IF n + 1 = 1 THEN t[n + 1] ELSE h[(n + 1) - 1] \o t[n + 1]
  <2>1. n + 1 \in Nat /\ n + 1 \in 1 .. n + 1
    BY <1>2
  <2> HIDE DEF n
  <2> QED BY <1>5, <2>1, PartialsStep
<1>7. CASE s = <<>>
  BY <1>2, <1>3, <1>5, <1>6, <1>7, <1>1 DEF t
<1>8. CASE s # <<>>
  <2>1. PICK g : Partials(g, s, n) /\ FlattenSeq(s) = g[n]
    BY <1>2, <1>8, FlattenIs
  <2>2. n + 1 \in Nat /\ n <= n /\ n <= n + 1 /\ n \in 1 .. n /\ n + 1 # 1 /\ (n + 1) - 1 = n
    BY <1>2, <1>8
  <2>3. \A i \in 1 .. n : s[i] = t[i]
    BY <1>3
  <2>4. \A i \in 1 .. n : g[i] = h[i]
    <3> HIDE DEF n
    <3> QED BY <1>2, <1>5, <2>1, <2>2, <2>3, PartialsAgree
  <2>5. h[n + 1] = h[n] \o x
    BY <1>3, <1>6, <2>2
  <2> QED BY <1>1, <1>5, <1>8, <2>1, <2>2, <2>4, <2>5 DEF t
<1> QED BY <1>7, <1>8

LEMMA FlattenOneMore ==
  ASSUME NEW s, NEW x, IsQueue(s), IsQueue(x)
  PROVE  FlattenSeq(s \o <<x>>) = FlattenSeq(s) \o x
<1>1. FlattenSeq(<<>>) = <<>> /\ <<>> \o x = x
  BY FlattenAppend, ChainedByThree
<1> QED BY <1>1, FlattenAppend

(* The first n values of a function, as a sequence.                        *)
First(f, n) == [i \in 1 .. n |-> f[i]]

LEMMA IsFirst ==
  ASSUME NEW f, NEW n \in Nat
  PROVE  /\ IsQueue(First(f, n)) /\ Len(First(f, n)) = n
         /\ \A i \in 1 .. n : First(f, n)[i] = f[i]
<1> DEFINE S == {f[i] : i \in 1 .. n}
<1>1. First(f, n) \in [1 .. n -> S]
  BY DEF First
<1>2. First(f, n) \in Seq(S)
  BY <1>1, SeqDef
<1>3. DOMAIN First(f, n) = 1 .. n /\ \A i \in 1 .. n : First(f, n)[i] = f[i]
  BY DEF First
<1>4. Len(First(f, n)) = n
  <2>1. Len(First(f, n)) \in Nat /\ DOMAIN First(f, n) = 1 .. Len(First(f, n))
    BY <1>2, LenProperties
  <2> QED BY <1>3, <2>1
<1> QED BY <1>2, <1>3, <1>4, AnySeqIsQueue

LEMMA FirstOneMore ==
  ASSUME NEW f, NEW n \in Nat
  PROVE  First(f, 0) = <<>> /\ First(f, n + 1) = First(f, n) \o <<f[n + 1]>>
<1> DEFINE p == First(f, n + 1)
           q == First(f, n) \o <<f[n + 1]>>
<1>1. /\ IsQueue(p) /\ Len(p) = n + 1
      /\ \A i \in 1 .. n + 1 : p[i] = f[i]
  BY IsFirst
<1>2. /\ IsQueue(q) /\ Len(q) = n + 1
      /\ \A i \in 1 .. n : q[i] = f[i]
      /\ q[n + 1] = f[n + 1]
  <2> DEFINE o == <<f[n + 1]>>
             r == First(f, n)
  <2>1. IsQueue(o) /\ Len(o) = 1 /\ o[1] = f[n + 1] /\ 1 \in 1 .. 1
    BY SingleQueue
  <2>2. IsQueue(r) /\ Len(r) = n /\ \A i \in 1 .. n : r[i] = f[i]
    BY IsFirst
  <2> HIDE DEF o, r
  <2>3. IsQueue(r) /\ IsQueue(o)
    BY <2>1, <2>2
  <2>4. /\ IsQueue(r \o o) /\ Len(r \o o) = Len(r) + Len(o)
        /\ \A i \in 1 .. Len(r) : (r \o o)[i] = r[i]
        /\ \A i \in 1 .. Len(o) : (r \o o)[Len(r) + i] = o[i]
    BY <2>3, Chained
  <2>5. /\ IsQueue(r \o o) /\ Len(r \o o) = n + 1
        /\ \A i \in 1 .. n : (r \o o)[i] = f[i]
        /\ (r \o o)[n + 1] = f[n + 1]
    BY <2>1, <2>2, <2>4
  <2> QED BY <2>5 DEF o, r
<1>3. p = q
  <2> HIDE DEF p, q
  <2>1. \A i \in 1 .. n + 1 : i \in 1 .. n \/ i = n + 1
    OBVIOUS
  <2>2. \A i \in 1 .. n + 1 : p[i] = q[i]
    BY <1>1, <1>2, <2>1
  <2> QED BY <1>1, <1>2, <2>2, SameQueue
<1>4. First(f, 0) = <<>>
  <2>1. IsQueue(First(f, 0)) /\ Len(First(f, 0)) = 0
    BY IsFirst
  <2> QED BY <2>1, EmptySeq DEF IsQueue
<1> QED BY <1>3, <1>4

LEMMA FlattenFirst ==
  ASSUME NEW f, NEW n \in Nat, \A i \in 1 .. n : IsQueue(f[i])
  PROVE  /\ FlattenSeq(First(f, 0)) = <<>>
         /\ \A k \in 0 .. n : IsQueue(FlattenSeq(First(f, k)))
         /\ \A k \in 0 .. n - 1 : FlattenSeq(First(f, k + 1)) = FlattenSeq(First(f, k)) \o f[k + 1]
<1>1. ASSUME NEW k \in 0 .. n - 1
      PROVE  FlattenSeq(First(f, k + 1)) = FlattenSeq(First(f, k)) \o f[k + 1]
  <2>1. k \in Nat /\ k + 1 \in 1 .. n
    OBVIOUS
  <2>2. First(f, k + 1) = First(f, k) \o <<f[k + 1]>> /\ IsQueue(First(f, k))
    BY <2>1, FirstOneMore, IsFirst
  <2> QED BY <2>1, <2>2, FlattenOneMore
<1>2. FlattenSeq(First(f, 0)) = <<>>
  <2>1. First(f, 0) = <<>>
    BY FirstOneMore
  <2> QED BY <2>1, EmptyQueue, FlattenAppend
<1> DEFINE S == {j \in Nat : j <= n => IsQueue(FlattenSeq(First(f, j)))}
<1>3. 0 \in S
  BY <1>2, EmptyQueue
<1>4. ASSUME NEW j \in Nat, j \in S PROVE j + 1 \in S
  <2> SUFFICES ASSUME j + 1 <= n PROVE IsQueue(FlattenSeq(First(f, j + 1)))
    OBVIOUS
  <2> DEFINE x == FlattenSeq(First(f, j))
             y == f[j + 1]
  <2>1. j \in 0 .. n - 1 /\ IsQueue(x) /\ IsQueue(y)
    BY <1>4
  <2>2. FlattenSeq(First(f, j + 1)) = x \o y
    BY <1>1, <2>1
  <2> HIDE DEF x, y
  <2>3. IsQueue(x) /\ IsQueue(y)
    BY <2>1
  <2>4. IsQueue(x \o y)
    BY <2>3, Chained
  <2> QED BY <2>2, <2>4
<1> HIDE DEF S
<1>5. \A k \in Nat : k \in S
  BY <1>3, <1>4, EveryNumber
<1>6. ASSUME NEW k \in 0 .. n PROVE IsQueue(FlattenSeq(First(f, k)))
  <2>1. k \in S /\ k <= n
    BY <1>5
  <2> QED BY <2>1 DEF S
<1> QED BY <1>1, <1>2, <1>6

(* What is made of sequences over T is a sequence over T.                  *)
LEMMA FlattenInto ==
  ASSUME NEW f, NEW n \in Nat, NEW T, \A i \in 1 .. n : f[i] \in Seq(T)
  PROVE  FlattenSeq(First(f, n)) \in Seq(T)
<1> DEFINE S == {j \in Nat : j <= n => FlattenSeq(First(f, j)) \in Seq(T)}
<1>1. \A i \in 1 .. n : IsQueue(f[i])
  BY AnySeqIsQueue
<1>2. /\ FlattenSeq(First(f, 0)) = <<>>
      /\ \A k \in 0 .. n - 1 : FlattenSeq(First(f, k + 1)) = FlattenSeq(First(f, k)) \o f[k + 1]
  BY <1>1, FlattenFirst
<1>3. 0 \in S
  BY <1>2, EmptySeq
<1>4. ASSUME NEW j \in Nat, j \in S PROVE j + 1 \in S
  <2> SUFFICES ASSUME j + 1 <= n PROVE FlattenSeq(First(f, j + 1)) \in Seq(T)
    OBVIOUS
  <2>1. j \in 0 .. n - 1 /\ j + 1 \in 1 .. n /\ FlattenSeq(First(f, j)) \in Seq(T)
    BY <1>4
  <2> QED BY <1>2, <2>1, ConcatProperties
<1> HIDE DEF S
<1>5. n \in S
  BY <1>3, <1>4, EveryNumber
<1> QED BY <1>5 DEF S

-----------------------------------------------------------------------------
(* Fields and their bytes.                                                 *)

Kinds == {"int", "u16", "u32", "u64"}
OfKind(kind, f) ==
  IF kind = "str" THEN \E s : IsQueue(s) /\ f = Str(s) ELSE \E v : f = <<kind, v>>
IsField(f) == \E kind \in Kinds \cup {"str"} : OfKind(kind, f)

Characters(s) == [k \in DOMAIN s |-> <<s[k], 1, 1>>]
Encoding(f) ==
  IF f[1] = "str" THEN Number(Len(f[2]), 8) \o Characters(f[2]) ELSE Number(f[2], Width[f[1]])

LEMMA Widths ==
  /\ Width["int"] = 4 /\ Width["u16"] = 2 /\ Width["u32"] = 4 /\ Width["u64"] = 8
  /\ \A kind \in Kinds : Width[kind] \in Nat \ {0}
BY DEF Width, Kinds

LEMMA NumberIs ==
  ASSUME NEW v, NEW w \in Nat
  PROVE  /\ IsQueue(Number(v, w)) /\ Len(Number(v, w)) = w
         /\ \A k \in 1 .. w : Number(v, w)[k] = <<v, k, w>>
<1> DEFINE f == [k \in 1 .. w |-> <<v, k, w>>]
<1>1. f = First(f, w)
  BY DEF First
<1>2. \A k \in 1 .. w : f[k] = <<v, k, w>>
  OBVIOUS
<1>3. Number(v, w) = f
  BY DEF Number
<1> HIDE DEF f
<1>4. IsQueue(f) /\ Len(f) = w
  BY <1>1, IsFirst
<1> QED BY <1>2, <1>3, <1>4

LEMMA CharactersAre ==
  ASSUME NEW s, IsQueue(s)
  PROVE  /\ IsQueue(Characters(s)) /\ Len(Characters(s)) = Len(s)
         /\ \A k \in 1 .. Len(s) : Characters(s)[k] = <<s[k], 1, 1>>
<1> DEFINE f == [k \in 1 .. Len(s) |-> <<s[k], 1, 1>>]
<1>1. f = First(f, Len(s))
  BY DEF First
<1>2. \A k \in 1 .. Len(s) : f[k] = <<s[k], 1, 1>>
  OBVIOUS
<1>3. Len(s) \in Nat /\ DOMAIN s = 1 .. Len(s)
  BY QueueDomain
<1>4. Characters(s) = f
  BY <1>3 DEF Characters
<1> HIDE DEF f
<1>5. IsQueue(f) /\ Len(f) = Len(s)
  BY <1>1, <1>3, IsFirst
<1> QED BY <1>2, <1>4, <1>5

LEMMA FieldIs ==
  ASSUME NEW f, IsField(f)
  PROVE  \/ \E kind \in Kinds : \E v : f = <<kind, v>> /\ f[1] = kind /\ f[2] = v /\ kind # "str"
         \/ \E s : IsQueue(s) /\ f = Str(s) /\ f[1] = "str" /\ f[2] = s
<1>1. PICK kind \in Kinds \cup {"str"} : OfKind(kind, f)
  BY DEF IsField
<1>2. CASE kind = "str"
  <2>1. PICK s : IsQueue(s) /\ f = Str(s)
    BY <1>1, <1>2 DEF OfKind
  <2>2. f[1] = "str" /\ f[2] = s
    BY <2>1 DEF Str
  <2> QED BY <2>1, <2>2
<1>3. CASE kind # "str"
  <2>1. PICK v : f = <<kind, v>>
    BY <1>1, <1>3 DEF OfKind
  <2>2. f[1] = kind /\ f[2] = v /\ kind \in Kinds
    BY <1>3, <2>1
  <2> QED BY <1>3, <2>1, <2>2
<1> QED BY <1>2, <1>3

LEMMA PairIs ==
  ASSUME NEW a, NEW b
  PROVE  <<a, b>> = <<a>> \o <<b>>
<1>1. <<a, b>> \in Seq({a, b}) /\ Len(<<a, b>>) = 2 /\ <<a, b>>[1] = a /\ <<a, b>>[2] = b
  OBVIOUS
<1>2. <<a>> \in Seq({a, b}) /\ <<b>> \in Seq({a, b}) /\ Len(<<a>>) = 1 /\ Len(<<b>>) = 1
  OBVIOUS
<1>3. /\ <<a>> \o <<b>> \in Seq({a, b}) /\ Len(<<a>> \o <<b>>) = 2
      /\ (<<a>> \o <<b>>)[1] = a /\ (<<a>> \o <<b>>)[2] = b
  BY <1>2, ConcatProperties
<1>4. \A i \in 1 .. 2 : i = 1 \/ i = 2
  OBVIOUS
<1> QED BY <1>1, <1>3, <1>4, SeqEqual

(* A field's pieces are queues, and together its encoding.                 *)
LEMMA PiecesAre ==
  ASSUME NEW f, IsField(f)
  PROVE  /\ IsQueue(Encoding(f)) /\ IsQueue(Pieces(f)) /\ \A x \in Range(Pieces(f)) : IsQueue(x)
         /\ \A p : IsQueue(p) /\ IsQueue(FlattenSeq(p)) =>
              FlattenSeq(p \o Pieces(f)) = FlattenSeq(p) \o Encoding(f)
<1>1. ASSUME NEW kind \in Kinds, NEW v, f[1] = kind, f[2] = v, kind # "str"
      PROVE  /\ IsQueue(Encoding(f)) /\ IsQueue(Pieces(f)) /\ \A x \in Range(Pieces(f)) : IsQueue(x)
             /\ \A p : IsQueue(p) /\ IsQueue(FlattenSeq(p)) =>
                  FlattenSeq(p \o Pieces(f)) = FlattenSeq(p) \o Encoding(f)
  <2> DEFINE a == Number(v, Width[kind])
  <2>1. Encoding(f) = a /\ Pieces(f) = <<a>>
    BY <1>1 DEF Encoding, Pieces
  <2>2. IsQueue(a)
    BY Widths, NumberIs
  <2> HIDE DEF a
  <2>3. IsQueue(<<a>>) /\ \A x \in Range(<<a>>) : IsQueue(x)
    BY <2>2, SingleQueue
  <2>4. ASSUME NEW p, IsQueue(p) PROVE FlattenSeq(p \o <<a>>) = FlattenSeq(p) \o a
    BY <2>2, <2>4, FlattenOneMore
  <2> QED BY <2>1, <2>2, <2>3, <2>4
<1>2. ASSUME NEW s, IsQueue(s), f[1] = "str", f[2] = s
      PROVE  /\ IsQueue(Encoding(f)) /\ IsQueue(Pieces(f)) /\ \A x \in Range(Pieces(f)) : IsQueue(x)
             /\ \A p : IsQueue(p) /\ IsQueue(FlattenSeq(p)) =>
                  FlattenSeq(p \o Pieces(f)) = FlattenSeq(p) \o Encoding(f)
  <2> DEFINE a == Number(Len(s), 8)
             b == Characters(s)
  <2>1. Encoding(f) = a \o b /\ Pieces(f) = <<a, b>>
    BY <1>2, Widths DEF Encoding, Pieces, Characters
  <2>2. IsQueue(a) /\ IsQueue(b)
    BY <1>2, NumberIs, CharactersAre
  <2> HIDE DEF a, b
  <2>3. IsQueue(<<a>>) /\ IsQueue(<<b>>) /\ <<a, b>> = <<a>> \o <<b>>
    <3>1. IsQueue(<<a>>) /\ IsQueue(<<b>>)
      BY SingleQueue
    <3>2. <<a, b>> = <<a>> \o <<b>>
      BY PairIs
    <3> QED BY <3>1, <3>2
  <2>4. /\ IsQueue(<<a>> \o <<b>>) /\ IsQueue(a \o b)
        /\ Range(<<a>> \o <<b>>) = {a} \cup {b}
    <3>1. Range(<<a>>) = {a} /\ Range(<<b>>) = {b}
      BY SingleQueue
    <3>2. IsQueue(a \o b)
      BY <2>2, Chained
    <3> QED BY <2>3, <3>1, <3>2, ConcatOfQueues
  <2>5. ASSUME NEW p, IsQueue(p), IsQueue(FlattenSeq(p))
        PROVE  FlattenSeq(p \o <<a, b>>) = FlattenSeq(p) \o (a \o b)
    <3>1. p \o <<a, b>> = (p \o <<a>>) \o <<b>> /\ IsQueue(p \o <<a>>)
      <4>1. (p \o <<a>>) \o <<b>> = p \o (<<a>> \o <<b>>)
        BY <2>3, <2>5, ChainedByThree
      <4>2. IsQueue(p \o <<a>>)
        BY <2>3, <2>5, Chained
      <4> QED BY <2>3, <4>1, <4>2
    <3>2. FlattenSeq((p \o <<a>>) \o <<b>>) = FlattenSeq(p \o <<a>>) \o b
      BY <2>2, <3>1, FlattenOneMore
    <3>3. FlattenSeq(p \o <<a>>) = FlattenSeq(p) \o a
      BY <2>2, <2>5, FlattenOneMore
    <3>4. (FlattenSeq(p) \o a) \o b = FlattenSeq(p) \o (a \o b)
      BY <2>2, <2>5, ChainedByThree
    <3>5. FlattenSeq(p \o <<a, b>>) = FlattenSeq(p \o <<a>>) \o b
      BY <3>1, <3>2
    <3>6. FlattenSeq(p \o <<a>>) \o b = FlattenSeq(p) \o (a \o b)
      BY <3>3, <3>4
    <3> QED BY <3>5, <3>6
  <2>6. IsQueue(Encoding(f)) /\ IsQueue(Pieces(f)) /\ \A x \in Range(Pieces(f)) : IsQueue(x)
    <3> DEFINE z == <<a>> \o <<b>>
    <3>1. IsQueue(z) /\ Range(z) = {a} \cup {b} /\ Pieces(f) = z
      BY <2>1, <2>3, <2>4
    <3> HIDE DEF z
    <3>2. \A x \in Range(z) : IsQueue(x)
      BY <2>2, <3>1
    <3>3. IsQueue(Encoding(f))
      BY <2>1, <2>4
    <3> QED BY <3>1, <3>2, <3>3
  <2>7. ASSUME NEW p, IsQueue(p), IsQueue(FlattenSeq(p))
        PROVE  FlattenSeq(p \o Pieces(f)) = FlattenSeq(p) \o Encoding(f)
    BY <2>1, <2>5, <2>7
  <2> QED BY <2>6, <2>7
<1> QED BY <1>1, <1>2, FieldIs

-----------------------------------------------------------------------------
(* A content is a sequence of fields.  What is written of it, piece by     *)
(* piece, are the encodings of its fields.                                 *)

Fields(c) == IsQueue(c) /\ \A i \in 1 .. Len(c) : IsField(c[i])

PiecesOf(c) == [i \in DOMAIN c |-> Pieces(c[i])]
AllPieces(c) == FlattenSeq(PiecesOf(c))

(* The bytes of the first n fields. *)
Written(c, n) == FlattenSeq(FlattenSeq(First(PiecesOf(c), n)))

LEMMA PiecesOfFields ==
  ASSUME NEW c, Fields(c)
  PROVE  /\ Len(c) \in Nat
         /\ \A i \in 1 .. Len(c) : PiecesOf(c)[i] = Pieces(c[i]) /\ IsQueue(PiecesOf(c)[i])
         /\ AllPieces(c) = FlattenSeq(First(PiecesOf(c), Len(c)))
         /\ IsQueue(AllPieces(c))
         /\ \A k \in 1 .. Len(AllPieces(c)) : IsQueue(AllPieces(c)[k])
<1> DEFINE f == PiecesOf(c)
           n == Len(c)
           T == UNION {Range(Pieces(c[i])) : i \in 1 .. n}
<1>1. n \in Nat /\ DOMAIN c = 1 .. n
  BY QueueDomain DEF Fields
<1>2. ASSUME NEW i \in 1 .. n
      PROVE  /\ f[i] = Pieces(c[i]) /\ IsQueue(Pieces(c[i])) /\ Pieces(c[i]) \in Seq(T)
             /\ \A x \in Range(Pieces(c[i])) : IsQueue(x)
  <2>1. f[i] = Pieces(c[i])
    BY <1>1 DEF PiecesOf
  <2>2. IsQueue(Pieces(c[i])) /\ \A x \in Range(Pieces(c[i])) : IsQueue(x)
    BY PiecesAre DEF Fields
  <2>3. Range(Pieces(c[i])) \subseteq T
    OBVIOUS
  <2> HIDE DEF T
  <2>4. Pieces(c[i]) \in Seq(T)
    BY <2>2, <2>3, SeqMonotonic DEF IsQueue
  <2> QED BY <2>1, <2>2, <2>4
<1>3. \A x \in T : IsQueue(x)
  <2> TAKE x \in T
  <2>1. PICK i \in 1 .. n : x \in Range(Pieces(c[i]))
    OBVIOUS
  <2> QED BY <1>2, <2>1
<1>4. f = First(f, n)
  BY <1>1 DEF First, PiecesOf
<1> HIDE DEF f, T
<1>5. FlattenSeq(First(f, n)) \in Seq(T)
  BY <1>1, <1>2, FlattenInto
<1>6. AllPieces(c) \in Seq(T) /\ AllPieces(c) = FlattenSeq(First(f, n))
  BY <1>4, <1>5 DEF AllPieces, f
<1>7. \A k \in 1 .. Len(AllPieces(c)) : IsQueue(AllPieces(c)[k])
  BY <1>3, <1>6, ElementOfSeq
<1> QED BY <1>1, <1>2, <1>6, <1>7, AnySeqIsQueue DEF f

LEMMA WrittenIs ==
  ASSUME NEW c, Fields(c)
  PROVE  /\ Written(c, 0) = <<>>
         /\ \A n \in 0 .. Len(c) : IsQueue(Written(c, n))
         /\ \A n \in 0 .. Len(c) - 1 :
              /\ Written(c, n + 1) = Written(c, n) \o Encoding(c[n + 1])
              /\ IsQueue(Encoding(c[n + 1]))
         /\ Written(c, Len(c)) = FlattenSeq(AllPieces(c))
<1> DEFINE f == PiecesOf(c)
           m == Len(c)
           S == {j \in Nat : j <= m => IsQueue(Written(c, j))}
<1>1. /\ m \in Nat /\ \A i \in 1 .. m : f[i] = Pieces(c[i]) /\ IsQueue(f[i])
      /\ AllPieces(c) = FlattenSeq(First(f, m))
  BY PiecesOfFields
<1>2. /\ FlattenSeq(First(f, 0)) = <<>>
      /\ \A k \in 0 .. m : IsQueue(FlattenSeq(First(f, k)))
      /\ \A k \in 0 .. m - 1 : FlattenSeq(First(f, k + 1)) = FlattenSeq(First(f, k)) \o f[k + 1]
  <2> HIDE DEF f, m
  <2> QED BY <1>1, FlattenFirst
<1>3. Written(c, 0) = <<>>
  BY <1>2, FlattenAppend, EmptyQueue DEF Written
<1>4. ASSUME NEW n \in 0 .. m - 1, IsQueue(Written(c, n))
      PROVE  /\ Written(c, n + 1) = Written(c, n) \o Encoding(c[n + 1])
             /\ IsQueue(Encoding(c[n + 1])) /\ IsQueue(Written(c, n + 1))
  <2> DEFINE p == FlattenSeq(First(f, n))
             e == Encoding(c[n + 1])
  <2>1. n + 1 \in 1 .. m
    BY <1>1
  <2>2. IsField(c[n + 1]) /\ f[n + 1] = Pieces(c[n + 1])
    BY <1>1, <2>1 DEF Fields
  <2>3. n \in 0 .. m /\ IsQueue(p) /\ IsQueue(FlattenSeq(p)) /\ FlattenSeq(p) = Written(c, n)
    BY <1>1, <1>2, <1>4 DEF Written
  <2>4. Written(c, n + 1) = FlattenSeq(p \o Pieces(c[n + 1]))
    BY <1>2, <2>2 DEF Written
  <2> HIDE DEF p
  <2>5. IsQueue(e) /\ Written(c, n + 1) = Written(c, n) \o e
    BY <2>2, <2>3, <2>4, PiecesAre
  <2> HIDE DEF e
  <2>6. IsQueue(Written(c, n) \o e)
    BY <1>4, <2>5, Chained
  <2> QED BY <2>5, <2>6 DEF e
<1>5. 0 \in S
  BY <1>3, EmptyQueue
<1>6. ASSUME NEW j \in Nat, j \in S PROVE j + 1 \in S
  <2> SUFFICES ASSUME j + 1 <= m PROVE IsQueue(Written(c, j + 1))
    OBVIOUS
  <2>1. j \in 0 .. m - 1 /\ IsQueue(Written(c, j))
    BY <1>1, <1>6
  <2> QED BY <1>4, <2>1
<1> HIDE DEF S
<1>7. \A j \in Nat : j \in S
  BY <1>5, <1>6, EveryNumber
<1>8. ASSUME NEW n \in 0 .. m PROVE IsQueue(Written(c, n))
  <2>1. n \in S /\ n <= m
    BY <1>1, <1>7
  <2> QED BY <2>1 DEF S
<1>9. ASSUME NEW n \in 0 .. m - 1
      PROVE  Written(c, n + 1) = Written(c, n) \o Encoding(c[n + 1]) /\ IsQueue(Encoding(c[n + 1]))
  <2>1. n \in 0 .. m
    BY <1>1
  <2> QED BY <1>4, <1>8, <2>1
<1>10. Written(c, m) = FlattenSeq(AllPieces(c))
  BY <1>1 DEF Written
<1> QED BY <1>3, <1>8, <1>9, <1>10

(* What is written first stays where it is.                                *)
LEMMA WrittenWithin ==
  ASSUME NEW c, Fields(c), NEW n \in 0 .. Len(c)
  PROVE  \E z : IsQueue(z) /\ Written(c, Len(c)) = Written(c, n) \o z
<1> DEFINE m == Len(c)
           S == {j \in Nat : n <= j /\ j <= m =>
                   \E z : IsQueue(z) /\ Written(c, j) = Written(c, n) \o z}
<1>1. m \in Nat /\ n \in 0 .. m
  BY PiecesOfFields
<1>2. /\ \A k \in 0 .. m : IsQueue(Written(c, k))
      /\ \A k \in 0 .. m - 1 :
              /\ Written(c, k + 1) = Written(c, k) \o Encoding(c[k + 1])
              /\ IsQueue(Encoding(c[k + 1]))
  BY WrittenIs
<1> HIDE DEF m
<1>3. Written(c, n) = Written(c, n) \o <<>> /\ IsQueue(<<>>)
  BY <1>1, <1>2, EmptyQueue, ChainedByThree
<1>4. 0 \in S
  <2> SUFFICES ASSUME n <= 0 PROVE \E z : IsQueue(z) /\ Written(c, 0) = Written(c, n) \o z
    BY <1>1
  <2>1. n = 0
    BY <1>1
  <2> QED BY <1>3, <2>1
<1>5. ASSUME NEW j \in Nat, j \in S PROVE j + 1 \in S
  <2> SUFFICES ASSUME n <= j + 1, j + 1 <= m
               PROVE  \E z : IsQueue(z) /\ Written(c, j + 1) = Written(c, n) \o z
    BY <1>1
  <2>1. CASE n = j + 1
    BY <1>3, <2>1
  <2>2. CASE n # j + 1
    <3>1. n <= j /\ j <= m /\ j \in 0 .. m - 1
      BY <1>1, <2>2
    <3>2. PICK z : IsQueue(z) /\ Written(c, j) = Written(c, n) \o z
      BY <1>5, <3>1
    <3> DEFINE e == Encoding(c[j + 1])
               w == Written(c, n)
    <3>3. Written(c, j + 1) = Written(c, j) \o e /\ IsQueue(e) /\ IsQueue(w) /\ Written(c, j) = w \o z
      BY <1>1, <1>2, <3>1, <3>2
    <3> HIDE DEF e
    <3>4. (w \o z) \o e = w \o (z \o e)
      <4> HIDE DEF w
      <4> QED BY <3>2, <3>3, ChainedByThree
    <3>5. IsQueue(z \o e)
      BY <3>2, <3>3, Chained
    <3>6. Written(c, j + 1) = Written(c, n) \o (z \o e)
      BY <3>3, <3>4
    <3> QED BY <3>5, <3>6
  <2> QED BY <2>1, <2>2
<1> HIDE DEF S
<1>6. m \in S
  BY <1>1, <1>4, <1>5, EveryNumber
<1>7. n <= m /\ m <= m
  BY <1>1
<1>8. \E z : IsQueue(z) /\ Written(c, m) = Written(c, n) \o z
  BY <1>6, <1>7 DEF S
<1> QED BY <1>8 DEF m

-----------------------------------------------------------------------------
(* Reading at the start of a field.                                        *)

LEMMA Found ==
  ASSUME NEW a, NEW b, NEW z, IsQueue(a), IsQueue(b), IsQueue(z)
  PROVE  LET data == (a \o b) \o z IN
         /\ Len(a) \in Nat /\ Len(b) \in Nat
         /\ Len(data) \in Nat /\ Len(a) + Len(b) <= Len(data)
         /\ IsQueue(data) /\ \A k \in 1 .. Len(b) : data[Len(a) + k] = b[k]
<1> DEFINE d == a \o b
           data == (a \o b) \o z
<1>1. IsQueue(d) /\ Len(d) = Len(a) + Len(b) /\ \A k \in 1 .. Len(b) : d[Len(a) + k] = b[k]
  BY Chained
<1>2. Len(a) \in Nat /\ Len(b) \in Nat /\ Len(z) \in Nat
  BY QueueDomain
<1>3. data = d \o z
  OBVIOUS
<1> HIDE DEF d, data
<1>4. /\ IsQueue(data) /\ Len(data) = Len(d) + Len(z)
      /\ \A k \in 1 .. Len(d) : data[k] = d[k]
  <2>1. IsQueue(d)
    BY <1>1
  <2>2. /\ IsQueue(d \o z) /\ Len(d \o z) = Len(d) + Len(z)
        /\ \A k \in 1 .. Len(d) : (d \o z)[k] = d[k]
    BY <2>1, Chained
  <2> QED BY <1>3, <2>2
<1>5. ASSUME NEW k \in 1 .. Len(b) PROVE data[Len(a) + k] = b[k]
  <2>1. Len(a) + k \in 1 .. Len(d)
    BY <1>1, <1>2
  <2> QED BY <1>1, <1>4, <2>1
<1> QED BY <1>1, <1>2, <1>4, <1>5 DEF data

LEMMA NumberRead ==
  ASSUME NEW data, IsQueue(data), NEW at \in Nat, NEW w \in Nat \ {0}, NEW v,
         at + w <= Len(data), \A k \in 1 .. w : data[at + k] = <<v, k, w>>
  PROVE  NumberAt(data, at, w) = v
<1> DEFINE p == SubSeq(data, at + 1, at + w)
           q == Number(v, w)
<1>1. Len(data) \in Nat
  BY QueueDomain
<1>2. /\ IsQueue(p) /\ Len(p) = w
      /\ \A k \in 1 .. w : p[k] = data[at + k]
  <2> DEFINE i == at + 1
             j == at + w
  <2>1. i \in 1 .. Len(data) + 1 /\ j \in Nat /\ i <= j + 1 /\ j <= Len(data)
    BY <1>1
  <2>2. j - i + 1 = w /\ \A k \in 1 .. w : i + k - 1 = at + k
    BY <1>1
  <2> HIDE DEF i, j, p
  <2>3. /\ IsQueue(SubSeq(data, i, j)) /\ Len(SubSeq(data, i, j)) = j - i + 1
        /\ \A k \in 1 .. j - i + 1 : SubSeq(data, i, j)[k] = data[i + k - 1]
    BY <2>1, PartOfText
  <2>4. p = SubSeq(data, i, j)
    BY DEF p, i, j
  <2> QED BY <2>2, <2>3, <2>4
<1>3. /\ IsQueue(q) /\ Len(q) = w
      /\ \A k \in 1 .. w : q[k] = <<v, k, w>>
  BY NumberIs
<1> HIDE DEF p, q
<1>4. p = q
  BY <1>2, <1>3, SameQueue
<1>5. data[at + 1][1] = v
  <2>1. 1 \in 1 .. w
    OBVIOUS
  <2>2. data[at + 1] = <<v, 1, w>>
    BY <2>1
  <2> QED BY <2>2
<1> QED BY <1>4, <1>5 DEF NumberAt, p, q

LEMMA ReadsANumber ==
  ASSUME NEW c, Fields(c), NEW n \in 0 .. Len(c) - 1,
         NEW kind \in Kinds, NEW v, c[n + 1] = <<kind, v>>
  PROVE  /\ NumberAt(Written(c, Len(c)), Len(Written(c, n)), Width[kind]) = v
         /\ Len(Written(c, n + 1)) = Len(Written(c, n)) + Width[kind]
<1> DEFINE a == Written(c, n)
           b == Number(v, Width[kind])
           w == Width[kind]
           data == Written(c, Len(c))
<1>1. Len(c) \in Nat /\ n \in 0 .. Len(c) /\ n + 1 \in 0 .. Len(c)
  BY PiecesOfFields
<1>2. Written(c, n + 1) = a \o b /\ IsQueue(a)
  <2>1. kind # "str"
    BY DEF Kinds
  <2>2. c[n + 1][1] = kind /\ c[n + 1][2] = v
    OBVIOUS
  <2>3. Encoding(c[n + 1]) = b
    BY <2>1, <2>2 DEF Encoding
  <2> HIDE DEF b
  <2> QED BY <1>1, <2>3, WrittenIs
<1>3. w \in Nat \ {0} /\ IsQueue(b) /\ Len(b) = w /\ \A k \in 1 .. w : b[k] = <<v, k, w>>
  <2>1. w \in Nat \ {0}
    BY Widths
  <2> QED BY <2>1, NumberIs
<1>4. PICK z : IsQueue(z) /\ data = Written(c, n + 1) \o z
  BY <1>1, WrittenWithin
<1> HIDE DEF a, b, w, data
<1>5. /\ Len(a) \in Nat /\ Len(a) + Len(b) <= Len(data) /\ IsQueue(data)
      /\ \A k \in 1 .. Len(b) : data[Len(a) + k] = b[k]
  <2>1. data = (a \o b) \o z
    BY <1>2, <1>4
  <2>2. IsQueue(a) /\ IsQueue(b) /\ IsQueue(z)
    BY <1>2, <1>3, <1>4
  <2> DEFINE d == (a \o b) \o z
  <2>3. /\ Len(a) \in Nat /\ Len(d) \in Nat /\ Len(a) + Len(b) <= Len(d) /\ IsQueue(d)
        /\ \A k \in 1 .. Len(b) : d[Len(a) + k] = b[k]
    BY <2>2, Found
  <2> HIDE DEF d
  <2>4. data = d
    BY <2>1 DEF d
  <2> QED BY <2>3, <2>4
<1>6. NumberAt(data, Len(a), w) = v
  <2>1. \A k \in 1 .. w : data[Len(a) + k] = <<v, k, w>>
    BY <1>3, <1>5
  <2> DEFINE at == Len(a)
  <2>2. at \in Nat /\ at + w <= Len(data) /\ \A k \in 1 .. w : data[at + k] = <<v, k, w>>
    BY <1>3, <1>5, <2>1
  <2> HIDE DEF at
  <2>3. NumberAt(data, at, w) = v
    BY <1>3, <1>5, <2>2, NumberRead
  <2> QED BY <2>3 DEF at
<1>7. Len(a \o b) = Len(a) + Len(b)
  BY <1>2, <1>3, Chained
<1> QED BY <1>2, <1>3, <1>6, <1>7 DEF a, w, data

LEMMA ReadsAString ==
  ASSUME NEW c, Fields(c), NEW n \in 0 .. Len(c) - 1,
         NEW s, IsQueue(s), c[n + 1] = Str(s)
  PROVE  LET data == Written(c, Len(c))
             at == Len(Written(c, n)) + 8 IN
         /\ NumberAt(data, Len(Written(c, n)), 8) = Len(s)
         /\ Len(s) \in 0 .. Len(data) - at
         /\ [i \in 1 .. Len(s) |-> NumberAt(data, at + i - 1, 1)] = s
         /\ Len(Written(c, n + 1)) = at + Len(s)
<1> DEFINE a == Written(c, n)
           h == Number(Len(s), 8)
           t == Characters(s)
           b == h \o t
           data == Written(c, Len(c))
           at == Len(a) + 8
           m == Len(s)
           read == [i \in 1 .. m |-> NumberAt(data, at + i - 1, 1)]
<1>1. Len(c) \in Nat /\ n \in 0 .. Len(c) /\ n + 1 \in 0 .. Len(c) /\ m \in Nat /\ DOMAIN s = 1 .. m
  BY PiecesOfFields, QueueDomain
<1>2. Written(c, n + 1) = a \o b /\ IsQueue(a) /\ IsQueue(b)
  <2>1. c[n + 1][1] = "str" /\ c[n + 1][2] = s
    BY DEF Str
  <2>2. Encoding(c[n + 1]) = b
    BY <2>1 DEF Encoding
  <2> HIDE DEF b
  <2> QED BY <1>1, <2>2, WrittenIs
<1>3. IsQueue(h) /\ Len(h) = 8 /\ \A k \in 1 .. 8 : h[k] = <<Len(s), k, 8>>
  BY NumberIs
<1>4. IsQueue(t) /\ Len(t) = m /\ \A k \in 1 .. m : t[k] = <<s[k], 1, 1>>
  BY CharactersAre
<1> HIDE DEF h, t
<1>5. /\ Len(b) = 8 + m
      /\ \A k \in 1 .. 8 : b[k] = h[k]
      /\ \A k \in 1 .. m : b[8 + k] = t[k]
  <2>1. /\ Len(b) = Len(h) + Len(t)
        /\ \A k \in 1 .. Len(h) : b[k] = h[k]
        /\ \A k \in 1 .. Len(t) : b[Len(h) + k] = t[k]
    <3>1. IsQueue(h) /\ IsQueue(t)
      BY <1>3, <1>4
    <3> QED BY <3>1, Chained
  <2> HIDE DEF b, m
  <2> QED BY <1>3, <1>4, <2>1
<1>6. PICK z : IsQueue(z) /\ data = Written(c, n + 1) \o z
  BY <1>1, WrittenWithin
<1> HIDE DEF a, b, data, m
<1>7. /\ Len(a) \in Nat /\ Len(data) \in Nat /\ Len(a) + Len(b) <= Len(data) /\ IsQueue(data)
      /\ \A k \in 1 .. Len(b) : data[Len(a) + k] = b[k]
  <2>1. data = (a \o b) \o z
    BY <1>2, <1>6
  <2>2. IsQueue(a) /\ IsQueue(b) /\ IsQueue(z)
    BY <1>2, <1>6
  <2> DEFINE d == (a \o b) \o z
  <2>3. /\ Len(a) \in Nat /\ Len(d) \in Nat /\ Len(a) + Len(b) <= Len(d) /\ IsQueue(d)
        /\ \A k \in 1 .. Len(b) : d[Len(a) + k] = b[k]
    BY <2>2, Found
  <2> HIDE DEF d
  <2>4. data = d
    BY <2>1 DEF d
  <2> QED BY <2>3, <2>4
<1>8. NumberAt(data, Len(a), 8) = m
  <2> DEFINE x == Len(a)
  <2>1. \A k \in 1 .. 8 : k \in 1 .. Len(b)
    BY <1>1, <1>5
  <2>2. \A k \in 1 .. 8 : data[x + k] = <<m, k, 8>>
    BY <1>3, <1>5, <1>7, <2>1 DEF m
  <2>3. x \in Nat /\ x + 8 <= Len(data) /\ 8 \in Nat \ {0}
    BY <1>1, <1>5, <1>7
  <2> HIDE DEF x
  <2>4. NumberAt(data, x, 8) = m
    BY <1>7, <2>2, <2>3, NumberRead
  <2> QED BY <2>4 DEF x
<1>9. m \in 0 .. Len(data) - at /\ at \in Nat /\ at + m <= Len(data)
  BY <1>1, <1>5, <1>7
<1>10. ASSUME NEW i \in 1 .. m PROVE NumberAt(data, at + i - 1, 1) = s[i]
  <2> DEFINE x == at + i - 1
  <2>1. x \in Nat /\ x + 1 <= Len(data) /\ 1 \in Nat \ {0} /\ x + 1 = Len(a) + (8 + i) /\ 8 + i \in 1 .. Len(b)
    <3>1. i \in Nat /\ 1 <= i /\ i <= m
      BY <1>1
    <3>2. x = Len(a) + 8 + i - 1
      OBVIOUS
    <3> HIDE DEF x
    <3>3. x \in Nat /\ x + 1 = Len(a) + (8 + i)
      BY <1>7, <3>1, <3>2
    <3>4. 8 + i \in 1 .. Len(b)
      BY <1>1, <1>5, <3>1
    <3>5. Len(a) + (8 + i) <= Len(data)
      BY <1>1, <1>5, <1>7, <3>1
    <3> QED BY <3>3, <3>4, <3>5
  <2>2. data[x + 1] = <<s[i], 1, 1>>
    <3> HIDE DEF x
    <3>1. data[x + 1] = data[Len(a) + (8 + i)]
      BY <2>1
    <3> DEFINE k == 8 + i
    <3>2. b[k] = t[i]
      BY <1>5
    <3>3. k \in 1 .. Len(b)
      BY <2>1
    <3> HIDE DEF k
    <3>4. data[Len(a) + k] = b[k]
      BY <1>7, <3>3
    <3> QED BY <1>4, <3>1, <3>2, <3>4 DEF k
  <2>3. \A k \in 1 .. 1 : k = 1
    OBVIOUS
  <2> HIDE DEF x
  <2>4. NumberAt(data, x, 1) = s[i]
    <3>1. \A k \in 1 .. 1 : data[x + k] = <<s[i], k, 1>>
      BY <2>2, <2>3
    <3> QED BY <1>7, <2>1, <3>1, NumberRead
  <2> QED BY <2>4 DEF x
<1>11. read = s
  <2>1. read = First(read, m)
    BY DEF First
  <2>2. \A i \in 1 .. m : read[i] = s[i]
    BY <1>10
  <2> HIDE DEF read
  <2>3. IsQueue(read) /\ Len(read) = m
    BY <1>1, <2>1, IsFirst
  <2> QED BY <2>2, <2>3, SameQueue DEF m
<1>12. Len(a \o b) = at + m
  <2>1. Len(a \o b) = Len(a) + Len(b)
    BY <1>2, Chained
  <2> QED BY <1>1, <1>5, <1>7, <2>1
<1> QED BY <1>2, <1>8, <1>9, <1>11, <1>12 DEF a, data, m

-----------------------------------------------------------------------------
(* A reader p takes just the fields c: p and c are in a set of pairs in    *)
(* which p may go on with the first field of c, and the pair of what is    *)
(* left of both is in the set again, until nothing is left of both.  r is  *)
(* the result that a reader looks at to decide whether more is to come.    *)

Repeat(q, n) == [i \in 1 .. n |-> q]
Chosen(r, q) == IF r = I32(0) THEN q ELSE <<>>

TakesField(p, c, S) ==
  /\ c # <<>>
  /\ \E kind \in Kinds \cup {"str"} :
       Head(p) = R(kind) /\ OfKind(kind, Head(c)) /\ <<Tail(p), Tail(c)>> \in S

TakesCount(p, c, S) ==
  /\ c # <<>>
  /\ \E q : \E n \in Nat :
       /\ Head(p) = <<"times", q>> /\ Head(c) = U32(n)
       /\ IsQueue(FlattenSeq(Repeat(q, n)))
       /\ <<FlattenSeq(Repeat(q, n)) \o Tail(p), Tail(c)>> \in S

Decides(r, p, c, S) ==
  \E q : /\ Head(p) = <<"okay", q>> /\ IsQueue(Chosen(r, q))
         /\ <<Chosen(r, q) \o Tail(p), c>> \in S

Continues(r, p, c, S) ==
  /\ IsQueue(p) /\ Fields(c)
  /\ p = <<>> => c = <<>>
  /\ p # <<>> => TakesField(p, c, S) \/ TakesCount(p, c, S) \/ Decides(r, p, c, S)

Good(r, S) == \A x \in S : x = <<x[1], x[2]>> /\ Continues(r, x[1], x[2], S)

Reads(r, p, c) == \E S : Good(r, S) /\ <<p, c>> \in S

LEMMA NoFields == Fields(<<>>)
<1>1. IsQueue(<<>>) /\ Len(<<>>) = 0
  BY EmptyQueue
<1> QED BY <1>1 DEF Fields

LEMMA OneField ==
  ASSUME NEW f, IsField(f)
  PROVE  Fields(<<f>>)
<1>1. IsQueue(<<f>>) /\ Len(<<f>>) = 1 /\ <<f>>[1] = f
  BY SingleQueue
<1>2. \A i \in 1 .. 1 : i = 1
  OBVIOUS
<1> QED BY <1>1, <1>2 DEF Fields

LEMMA FieldsChained ==
  ASSUME NEW c, NEW d, Fields(c), Fields(d)
  PROVE  Fields(c \o d)
<1> DEFINE e == c \o d
<1>1. IsQueue(c) /\ IsQueue(d)
  BY DEF Fields
<1>2. /\ IsQueue(e) /\ Len(e) = Len(c) + Len(d)
      /\ \A i \in 1 .. Len(c) : e[i] = c[i]
      /\ \A i \in 1 .. Len(d) : e[Len(c) + i] = d[i]
  BY <1>1, Chained
<1>3. Len(c) \in Nat /\ Len(d) \in Nat
  BY <1>1, QueueDomain
<1> HIDE DEF e
<1>4. ASSUME NEW i \in 1 .. Len(e) PROVE IsField(e[i])
  <2>1. CASE i <= Len(c)
    <3>1. i \in 1 .. Len(c)
      BY <1>2, <1>3, <2>1
    <3> QED BY <1>2, <3>1 DEF Fields
  <2>2. CASE ~(i <= Len(c))
    <3> DEFINE k == i - Len(c)
    <3>1. k \in 1 .. Len(d) /\ Len(c) + k = i
      BY <1>2, <1>3, <2>2
    <3> HIDE DEF k
    <3>2. e[i] = d[k]
      BY <1>2, <3>1
    <3> QED BY <3>1, <3>2 DEF Fields
  <2> QED BY <2>1, <2>2
<1> QED BY <1>2, <1>4 DEF Fields, e

LEMMA ContinuesInMore ==
  ASSUME NEW r, NEW p, NEW c, NEW S, NEW T, S \subseteq T, Continues(r, p, c, S)
  PROVE  Continues(r, p, c, T)
<1>1. TakesField(p, c, S) => TakesField(p, c, T)
  BY DEF TakesField
<1>2. TakesCount(p, c, S) => TakesCount(p, c, T)
  BY DEF TakesCount
<1>3. Decides(r, p, c, S) => Decides(r, p, c, T)
  BY DEF Decides
<1> QED BY <1>1, <1>2, <1>3 DEF Continues

LEMMA ReadsOn ==
  ASSUME NEW r, NEW p, NEW c, Reads(r, p, c)
  PROVE  \E S : Good(r, S) /\ Continues(r, p, c, S)
<1>1. PICK S : Good(r, S) /\ <<p, c>> \in S
  BY DEF Reads
<1>2. <<p, c>>[1] = p /\ <<p, c>>[2] = c
  OBVIOUS
<1>3. Continues(r, p, c, S)
  BY <1>1, <1>2 DEF Good
<1> QED BY <1>1, <1>3

LEMMA ReadsFrom ==
  ASSUME NEW r, NEW p, NEW c, NEW S, Good(r, S), Continues(r, p, c, S)
  PROVE  Reads(r, p, c)
<1> DEFINE T == S \cup {<<p, c>>}
<1>1. <<p, c>>[1] = p /\ <<p, c>>[2] = c
  OBVIOUS
<1>2. S \subseteq T /\ <<p, c>> \in T
  OBVIOUS
<1>3. Continues(r, p, c, T)
  <2> HIDE DEF T
  <2> QED BY <1>2, ContinuesInMore
<1>4. ASSUME NEW x \in S PROVE x = <<x[1], x[2]>> /\ Continues(r, x[1], x[2], T)
  <2>1. x = <<x[1], x[2]>> /\ Continues(r, x[1], x[2], S)
    BY DEF Good
  <2> HIDE DEF T
  <2> QED BY <1>2, <2>1, ContinuesInMore
<1>5. Good(r, T)
  BY <1>1, <1>3, <1>4 DEF Good
<1> HIDE DEF T
<1> QED BY <1>2, <1>5 DEF Reads

(* One reader after the other. *)
Both(x, y) == <<x[1] \o y[1], x[2] \o y[2]>>
Chain(S, T) == {Both(x, y) : x \in S, y \in T} \cup T

LEMMA BothIs ==
  ASSUME NEW x, NEW y
  PROVE  /\ Both(x, y)[1] = x[1] \o y[1] /\ Both(x, y)[2] = x[2] \o y[2]
         /\ Both(x, y) = <<Both(x, y)[1], Both(x, y)[2]>>
<1>1. \A v, w : <<v, w>>[1] = v /\ <<v, w>>[2] = w
  OBVIOUS
<1> QED BY <1>1 DEF Both

LEMMA ChainIs ==
  ASSUME NEW S, NEW T
  PROVE  /\ T \subseteq Chain(S, T)
         /\ \A x \in S, y \in T : Both(x, y) \in Chain(S, T)
         /\ \A z \in Chain(S, T) : z \in T \/ \E x \in S, y \in T : z = Both(x, y)
BY DEF Chain

LEMMA ReadsChained ==
  ASSUME NEW r, NEW p, NEW c, NEW q, NEW d, Reads(r, p, c), Reads(r, q, d)
  PROVE  Reads(r, p \o q, c \o d)
<1>1. PICK S : Good(r, S) /\ <<p, c>> \in S
  BY DEF Reads
<1>2. PICK T : Good(r, T) /\ <<q, d>> \in T
  BY DEF Reads
<1> DEFINE U == Chain(S, T)
<1>3. /\ T \subseteq U
      /\ \A x \in S, y \in T : Both(x, y) \in U
      /\ \A z \in U : z \in T \/ \E x \in S, y \in T : z = Both(x, y)
  BY ChainIs
<1> HIDE DEF U
<1>4. ASSUME NEW v, NEW w, <<v, w>> \in S, NEW y \in T
      PROVE  <<v \o y[1], w \o y[2]>> \in U
  <2>1. Both(<<v, w>>, y) \in U
    BY <1>3, <1>4
  <2>2. <<v, w>>[1] = v /\ <<v, w>>[2] = w
    OBVIOUS
  <2>3. Both(<<v, w>>, y) = <<v \o y[1], w \o y[2]>>
    BY <2>2 DEF Both
  <2> QED BY <2>1, <2>3
<1>5. T \subseteq U
  BY <1>3
<1>6. ASSUME NEW x \in S, NEW y \in T
      PROVE  Continues(r, x[1] \o y[1], x[2] \o y[2], U)
  <2>1. Continues(r, x[1], x[2], S) /\ x = <<x[1], x[2]>>
    BY <1>1 DEF Good
  <2>2. Continues(r, y[1], y[2], T) /\ y = <<y[1], y[2]>>
    BY <1>2 DEF Good
  <2> DEFINE a == x[1]
             b == x[2]
             s == y[1]
             t == y[2]
  <2>3. /\ IsQueue(a) /\ IsQueue(b) /\ IsQueue(s) /\ IsQueue(t)
        /\ Fields(b) /\ Fields(t)
    BY <2>1, <2>2 DEF Continues, Fields
  <2>4. ASSUME NEW v, NEW w, <<v, w>> \in S PROVE <<v \o s, w \o t>> \in U
    BY <1>4, <2>4
  <2> HIDE DEF a, b, s, t
  <2>5. IsQueue(a \o s) /\ Fields(b \o t)
    <3>1. IsQueue(a \o s)
      BY <2>3, Chained
    <3>2. Fields(b \o t)
      BY <2>3, FieldsChained
    <3> QED BY <3>1, <3>2
  <2>6. CASE a = <<>>
    <3>1. b = <<>>
      BY <2>1, <2>6 DEF Continues, a, b
    <3>2. a \o s = s /\ b \o t = t
      BY <2>3, <2>6, <3>1, ChainedByThree
    <3>3. Continues(r, s, t, T)
      BY <2>2 DEF s, t
    <3>4. Continues(r, s, t, U)
      BY <1>5, <3>3, ContinuesInMore
    <3> QED BY <3>2, <3>4 DEF a, b, s, t
  <2>7. CASE a # <<>>
    <3>1. TakesField(a, b, S) \/ TakesCount(a, b, S) \/ Decides(r, a, b, S)
      BY <2>1, <2>7 DEF Continues, a, b
    <3>2. a \o s # <<>> /\ Head(a \o s) = Head(a) /\ Tail(a \o s) = Tail(a) \o s /\ IsQueue(Tail(a))
      BY <2>3, <2>7, TailOfChained, HeadAndTail
    <3>3. b # <<>> => b \o t # <<>> /\ Head(b \o t) = Head(b) /\ Tail(b \o t) = Tail(b) \o t
      BY <2>3, TailOfChained
    <3>4. ASSUME TakesField(a, b, S) PROVE TakesField(a \o s, b \o t, U)
      <4>1. PICK kind \in Kinds \cup {"str"} :
                   Head(a) = R(kind) /\ OfKind(kind, Head(b)) /\ <<Tail(a), Tail(b)>> \in S
        BY <3>4 DEF TakesField
      <4>2. b # <<>>
        BY <3>4 DEF TakesField
      <4>3. <<Tail(a) \o s, Tail(b) \o t>> \in U
        BY <2>4, <4>1
      <4> QED BY <3>2, <3>3, <4>1, <4>2, <4>3 DEF TakesField
    <3>5. ASSUME TakesCount(a, b, S) PROVE TakesCount(a \o s, b \o t, U)
      <4>1. PICK e : \E n \in Nat :
                   /\ Head(a) = <<"times", e>> /\ Head(b) = U32(n)
                   /\ IsQueue(FlattenSeq(Repeat(e, n)))
                   /\ <<FlattenSeq(Repeat(e, n)) \o Tail(a), Tail(b)>> \in S
        BY <3>5 DEF TakesCount
      <4>2. PICK n \in Nat :
                   /\ Head(a) = <<"times", e>> /\ Head(b) = U32(n)
                   /\ IsQueue(FlattenSeq(Repeat(e, n)))
                   /\ <<FlattenSeq(Repeat(e, n)) \o Tail(a), Tail(b)>> \in S
        BY <4>1
      <4>3. b # <<>>
        BY <3>5 DEF TakesCount
      <4> DEFINE g == FlattenSeq(Repeat(e, n))
                 h == Tail(a)
      <4>4. <<(g \o h) \o s, Tail(b) \o t>> \in U
        BY <2>4, <4>2
      <4>5. IsQueue(g) /\ IsQueue(h) /\ IsQueue(s)
        BY <2>3, <3>2, <4>2
      <4>6. (g \o h) \o s = g \o (h \o s)
        <5> HIDE DEF g, h
        <5> QED BY <4>5, ChainedByThree
      <4>7. <<g \o Tail(a \o s), Tail(b \o t)>> \in U
        BY <3>2, <3>3, <4>3, <4>4, <4>6
      <4> QED BY <3>2, <3>3, <4>2, <4>3, <4>7 DEF TakesCount
    <3>6. ASSUME Decides(r, a, b, S) PROVE Decides(r, a \o s, b \o t, U)
      <4>1. PICK e : /\ Head(a) = <<"okay", e>> /\ IsQueue(Chosen(r, e))
                     /\ <<Chosen(r, e) \o Tail(a), b>> \in S
        BY <3>6 DEF Decides
      <4> DEFINE g == Chosen(r, e)
                 h == Tail(a)
      <4>2. <<(g \o h) \o s, b \o t>> \in U
        BY <2>4, <4>1
      <4>3. IsQueue(g) /\ IsQueue(h) /\ IsQueue(s)
        BY <2>3, <3>2, <4>1
      <4>4. (g \o h) \o s = g \o (h \o s)
        <5> HIDE DEF g, h
        <5> QED BY <4>3, ChainedByThree
      <4>5. <<g \o Tail(a \o s), b \o t>> \in U
        BY <3>2, <4>2, <4>4
      <4> QED BY <3>2, <4>1, <4>5 DEF Decides
    <3>7. Continues(r, a \o s, b \o t, U)
      BY <2>5, <3>1, <3>2, <3>4, <3>5, <3>6 DEF Continues
    <3> QED BY <3>7 DEF a, b, s, t
  <2> QED BY <2>6, <2>7
<1>7. ASSUME NEW z \in U PROVE z = <<z[1], z[2]>> /\ Continues(r, z[1], z[2], U)
  <2>1. CASE z \in T
    <3>1. z = <<z[1], z[2]>> /\ Continues(r, z[1], z[2], T)
      BY <1>2, <2>1 DEF Good
    <3> QED BY <1>5, <3>1, ContinuesInMore
  <2>2. CASE z \notin T
    <3>1. PICK x \in S, y \in T : z = Both(x, y)
      BY <1>3, <2>2
    <3>2. z[1] = x[1] \o y[1] /\ z[2] = x[2] \o y[2] /\ z = <<z[1], z[2]>>
      BY <3>1, BothIs
    <3> QED BY <1>6, <3>2
  <2> QED BY <2>1, <2>2
<1>8. Good(r, U)
  BY <1>7 DEF Good
<1>9. <<p \o q, c \o d>> \in U
  <2>1. \A y \in T : <<p \o y[1], c \o y[2]>> \in U
    BY <1>1, <1>4
  <2>2. <<q, d>>[1] = q /\ <<q, d>>[2] = d
    OBVIOUS
  <2> QED BY <1>2, <2>1, <2>2
<1> QED BY <1>8, <1>9 DEF Reads

LEMMA ReadsNothing == ASSUME NEW r PROVE Reads(r, <<>>, <<>>)
<1>1. Good(r, {})
  BY DEF Good
<1>2. Continues(r, <<>>, <<>>, {})
  BY EmptyQueue, NoFields DEF Continues
<1> QED BY <1>1, <1>2, ReadsFrom

(* A reader of as many fields, each of the kind it reads. *)
Matches(p, c) ==
  /\ Len(p) = Len(c)
  /\ \A i \in 1 .. Len(p) :
       \E kind \in Kinds \cup {"str"} : p[i] = R(kind) /\ OfKind(kind, c[i])

LEMMA ReadsFields ==
  ASSUME NEW r, NEW p, NEW c, IsQueue(p), IsQueue(c), Matches(p, c)
  PROVE  Reads(r, p, c)
<1> DEFINE X == Seq(Range(p)) \X Seq(Range(c))
           S == {x \in X : Matches(x[1], x[2])}
<1>1. ASSUME NEW x \in S
      PROVE  x = <<x[1], x[2]>> /\ Continues(r, x[1], x[2], S)
  <2> DEFINE a == x[1]
             b == x[2]
  <2>1. x = <<a, b>> /\ a \in Seq(Range(p)) /\ b \in Seq(Range(c)) /\ Matches(a, b)
    OBVIOUS
  <2>2. \A v \in Seq(Range(p)), w \in Seq(Range(c)) : Matches(v, w) => <<v, w>> \in S
    OBVIOUS
  <2> HIDE DEF a, b, S
  <2>3. IsQueue(a) /\ Fields(b)
    <3>1. IsQueue(a) /\ IsQueue(b)
      BY <2>1, AnySeqIsQueue
    <3>2. \A i \in 1 .. Len(b) : IsField(b[i])
      BY <2>1 DEF Matches, IsField
    <3> QED BY <3>1, <3>2 DEF Fields
  <2>4. CASE a = <<>>
    <3>1. Len(b) = 0
      BY <2>1, <2>4, EmptySeq DEF Matches
    <3>2. b = <<>>
      BY <2>1, <3>1, EmptySeq
    <3> QED BY <2>1, <2>3, <2>4, <3>2 DEF Continues, a, b
  <2>5. CASE a # <<>>
    <3>1. /\ Head(a) = a[1] /\ Tail(a) \in Seq(Range(p)) /\ Len(Tail(a)) = Len(a) - 1
          /\ \A i \in 1 .. Len(Tail(a)) : Tail(a)[i] = a[i + 1]
          /\ Len(a) \in Nat \ {0}
      BY <2>1, <2>5, HeadTailProperties, EmptySeq
    <3>2. b # <<>> /\ Len(b) = Len(a)
      BY <2>1, <3>1, EmptySeq DEF Matches
    <3>3. /\ Head(b) = b[1] /\ Tail(b) \in Seq(Range(c)) /\ Len(Tail(b)) = Len(b) - 1
          /\ \A i \in 1 .. Len(Tail(b)) : Tail(b)[i] = b[i + 1]
      BY <2>1, <3>2, HeadTailProperties
    <3>4. PICK kind \in Kinds \cup {"str"} : a[1] = R(kind) /\ OfKind(kind, b[1])
      <4>1. 1 \in 1 .. Len(a)
        BY <3>1
      <4> QED BY <2>1, <4>1 DEF Matches
    <3>5. Matches(Tail(a), Tail(b))
      <4>1. Len(Tail(a)) = Len(Tail(b))
        BY <3>1, <3>2, <3>3
      <4>2. ASSUME NEW i \in 1 .. Len(Tail(a))
            PROVE  \E k \in Kinds \cup {"str"} : Tail(a)[i] = R(k) /\ OfKind(k, Tail(b)[i])
        <5>1. i + 1 \in 1 .. Len(a) /\ Tail(a)[i] = a[i + 1] /\ Tail(b)[i] = b[i + 1]
          BY <3>1, <3>3, <4>1
        <5> QED BY <2>1, <5>1 DEF Matches
      <4> QED BY <4>1, <4>2 DEF Matches
    <3>6. <<Tail(a), Tail(b)>> \in S
      BY <2>2, <3>1, <3>3, <3>5
    <3>7. TakesField(a, b, S)
      BY <3>1, <3>2, <3>3, <3>4, <3>6 DEF TakesField
    <3>8. Continues(r, a, b, S)
      BY <2>3, <2>5, <3>7 DEF Continues
    <3> QED BY <2>1, <3>8 DEF a, b
  <2> QED BY <2>4, <2>5
<1>2. <<p, c>> \in S
  BY DEF IsQueue
<1> HIDE DEF S
<1>3. Good(r, S)
  BY <1>1 DEF Good
<1> QED BY <1>2, <1>3 DEF Reads

LEMMA ReadsQueues ==
  ASSUME NEW r, NEW p, NEW c, Reads(r, p, c)
  PROVE  IsQueue(p) /\ Fields(c) /\ IsQueue(c)
BY ReadsOn DEF Continues, Fields

LEMMA SingleIs ==
  ASSUME NEW x
  PROVE  IsQueue(<<x>>) /\ <<x>> # <<>> /\ Head(<<x>>) = x /\ Tail(<<x>>) = <<>>
<1>1. IsQueue(<<x>>) /\ Len(<<x>>) = 1 /\ <<x>>[1] = x
  BY SingleQueue
<1>2. <<x>> # <<>>
  BY <1>1, EmptySeq
<1>3. Head(<<x>>) = x /\ IsQueue(Tail(<<x>>)) /\ Len(Tail(<<x>>)) = 0
  <2> DEFINE q == <<x>>
  <2>1. IsQueue(q) /\ q # <<>> /\ Len(q) = 1 /\ q[1] = x
    BY <1>1, <1>2
  <2> HIDE DEF q
  <2>2. IsQueue(Tail(q)) /\ Len(Tail(q)) = Len(q) - 1 /\ Head(q) = q[1]
    BY <2>1, HeadAndTail
  <2>3. Head(q) = x /\ IsQueue(Tail(q)) /\ Len(Tail(q)) = 0
    BY <2>1, <2>2
  <2> QED BY <2>3 DEF q
<1> QED BY <1>1, <1>2, <1>3, EmptySeq DEF IsQueue

LEMMA ReadsIfChosen ==
  ASSUME NEW r, NEW q, NEW c, Reads(r, Chosen(r, q), c)
  PROVE  Reads(r, <<<<"okay", q>>>>, c)
<1> DEFINE p == <<<<"okay", q>>>>
           g == Chosen(r, q)
<1>1. PICK S : Good(r, S) /\ <<g, c>> \in S
  BY DEF Reads
<1>2. IsQueue(g) /\ IsQueue(c) /\ Fields(c)
  <2> HIDE DEF g
  <2> QED BY ReadsQueues DEF g
<1>3. IsQueue(p) /\ p # <<>> /\ Head(p) = <<"okay", q>> /\ Tail(p) = <<>>
  BY SingleIs
<1>4. g \o <<>> = g
  <2> HIDE DEF g
  <2> QED BY <1>2, ChainedByThree
<1> HIDE DEF p
<1>5. Decides(r, p, c, S)
  BY <1>1, <1>2, <1>3, <1>4 DEF Decides
<1>6. Continues(r, p, c, S)
  BY <1>2, <1>3, <1>5 DEF Continues
<1> QED BY <1>1, <1>6, ReadsFrom DEF p

LEMMA ReadsTimesOver ==
  ASSUME NEW r, NEW q, NEW n \in Nat, NEW c, Reads(r, FlattenSeq(Repeat(q, n)), c)
  PROVE  Reads(r, <<<<"times", q>>>>, <<U32(n)>> \o c)
<1> DEFINE p == <<<<"times", q>>>>
           g == FlattenSeq(Repeat(q, n))
           u == <<U32(n)>>
           d == u \o c
<1>1. PICK S : Good(r, S) /\ <<g, c>> \in S
  BY DEF Reads
<1>2. IsQueue(g) /\ IsQueue(c) /\ Fields(c)
  <2> HIDE DEF g
  <2> QED BY ReadsQueues DEF g
<1>3. IsQueue(p) /\ p # <<>> /\ Head(p) = <<"times", q>> /\ Tail(p) = <<>>
  BY SingleIs
<1>4. g \o <<>> = g
  <2> HIDE DEF g
  <2> QED BY <1>2, ChainedByThree
<1>5. Fields(u) /\ IsQueue(u) /\ u # <<>> /\ Head(u) = U32(n) /\ Tail(u) = <<>>
  <2>1. IsField(U32(n))
    BY DEF IsField, OfKind, U32, Kinds
  <2> QED BY <2>1, OneField, SingleIs
<1> HIDE DEF p, u
<1>6. Fields(d) /\ d # <<>> /\ Head(d) = U32(n) /\ Tail(d) = c
  <2>1. Fields(u \o c)
    BY <1>2, <1>5, FieldsChained
  <2>2. d # <<>> /\ Head(d) = Head(u) /\ Tail(d) = Tail(u) \o c
    BY <1>2, <1>5, TailOfChained
  <2>3. <<>> \o c = c
    BY <1>2, ChainedByThree
  <2> QED BY <1>5, <2>1, <2>2, <2>3
<1> HIDE DEF d
<1>7. TakesCount(p, d, S)
  BY <1>1, <1>2, <1>3, <1>4, <1>6 DEF TakesCount
<1>8. Continues(r, p, d, S)
  BY <1>2, <1>3, <1>6, <1>7 DEF Continues
<1> QED BY <1>1, <1>8, ReadsFrom DEF p, d, u

LEMMA ReadsRepeated ==
  ASSUME NEW r, NEW q, NEW n \in Nat, NEW f, \A i \in 1 .. n : Reads(r, q, f[i])
  PROVE  Reads(r, FlattenSeq(Repeat(q, n)), FlattenSeq(First(f, n)))
<1> DEFINE g == Repeat(q, n)
           S == {j \in Nat : j <= n => Reads(r, FlattenSeq(First(g, j)), FlattenSeq(First(f, j)))}
<1>1. \A i \in 1 .. n : g[i] = q /\ IsQueue(q) /\ IsQueue(f[i])
  BY ReadsQueues DEF Repeat
<1>2. g = First(g, n)
  BY DEF First, Repeat
<1> HIDE DEF g
<1>3. /\ FlattenSeq(First(g, 0)) = <<>>
      /\ \A k \in 0 .. n - 1 : FlattenSeq(First(g, k + 1)) = FlattenSeq(First(g, k)) \o g[k + 1]
  BY <1>1, FlattenFirst
<1>4. /\ FlattenSeq(First(f, 0)) = <<>>
      /\ \A k \in 0 .. n - 1 : FlattenSeq(First(f, k + 1)) = FlattenSeq(First(f, k)) \o f[k + 1]
  BY <1>1, FlattenFirst
<1>5. 0 \in S
  BY <1>3, <1>4, ReadsNothing
<1>6. ASSUME NEW j \in Nat, j \in S PROVE j + 1 \in S
  <2> SUFFICES ASSUME j + 1 <= n
               PROVE  Reads(r, FlattenSeq(First(g, j + 1)), FlattenSeq(First(f, j + 1)))
    OBVIOUS
  <2>1. j \in 0 .. n - 1 /\ j + 1 \in 1 .. n /\ Reads(r, FlattenSeq(First(g, j)), FlattenSeq(First(f, j)))
    BY <1>6
  <2>2. FlattenSeq(First(g, j + 1)) = FlattenSeq(First(g, j)) \o q
    BY <1>1, <1>3, <2>1
  <2>3. FlattenSeq(First(f, j + 1)) = FlattenSeq(First(f, j)) \o f[j + 1]
    BY <1>4, <2>1
  <2>4. Reads(r, q, f[j + 1])
    BY <2>1
  <2> QED BY <2>1, <2>2, <2>3, <2>4, ReadsChained
<1> HIDE DEF S
<1>7. n \in S
  BY <1>5, <1>6, EveryNumber
<1>8. Reads(r, FlattenSeq(First(g, n)), FlattenSeq(First(f, n)))
  BY <1>7 DEF S
<1> QED BY <1>2, <1>8 DEF g

LEMMA FlattenSingles ==
  ASSUME NEW f, NEW n \in Nat
  PROVE  FlattenSeq([i \in 1 .. n |-> <<f[i]>>]) = First(f, n)
<1> DEFINE g == [i \in 1 .. n |-> <<f[i]>>]
           S == {j \in Nat : j <= n => FlattenSeq(First(g, j)) = First(f, j)}
<1>1. g = First(g, n) /\ \A i \in 1 .. n : g[i] = <<f[i]>>
  BY DEF First
<1> HIDE DEF g
<1>2. \A i \in 1 .. n : IsQueue(g[i])
  BY <1>1, SingleQueue
<1>3. /\ FlattenSeq(First(g, 0)) = <<>>
      /\ \A k \in 0 .. n - 1 : FlattenSeq(First(g, k + 1)) = FlattenSeq(First(g, k)) \o g[k + 1]
  BY <1>2, FlattenFirst
<1>4. 0 \in S
  BY <1>3, FirstOneMore
<1>5. ASSUME NEW j \in Nat, j \in S PROVE j + 1 \in S
  <2> SUFFICES ASSUME j + 1 <= n
               PROVE  FlattenSeq(First(g, j + 1)) = First(f, j + 1)
    OBVIOUS
  <2>1. j \in 0 .. n - 1 /\ j + 1 \in 1 .. n /\ FlattenSeq(First(g, j)) = First(f, j)
    BY <1>5
  <2>2. FlattenSeq(First(g, j + 1)) = First(f, j) \o <<f[j + 1]>>
    BY <1>1, <1>3, <2>1
  <2> QED BY <2>2, FirstOneMore
<1> HIDE DEF S
<1>6. n \in S
  BY <1>4, <1>5, EveryNumber
<1>7. FlattenSeq(First(g, n)) = First(f, n)
  BY <1>6 DEF S
<1> QED BY <1>1, <1>7 DEF g

-----------------------------------------------------------------------------
(* What the writers compose, their readers take.                           *)

LEMMA SameThree ==
  ASSUME NEW a, NEW b, NEW c
  PROVE  <<a, b, c>> = <<a>> \o <<b, c>> /\ <<a, b, c>> = <<a, b>> \o <<c>>
<1> DEFINE S == {a, b, c}
<1>1. /\ <<a, b, c>> \in Seq(S) /\ Len(<<a, b, c>>) = 3
      /\ <<a, b, c>>[1] = a /\ <<a, b, c>>[2] = b /\ <<a, b, c>>[3] = c
  OBVIOUS
<1>2. /\ <<a>> \in Seq(S) /\ Len(<<a>>) = 1 /\ <<a>>[1] = a
      /\ <<c>> \in Seq(S) /\ Len(<<c>>) = 1 /\ <<c>>[1] = c
  OBVIOUS
<1>3. /\ <<b, c>> \in Seq(S) /\ Len(<<b, c>>) = 2 /\ <<b, c>>[1] = b /\ <<b, c>>[2] = c
      /\ <<a, b>> \in Seq(S) /\ Len(<<a, b>>) = 2 /\ <<a, b>>[1] = a /\ <<a, b>>[2] = b
  OBVIOUS
<1> HIDE DEF S
<1>4. /\ <<a>> \o <<b, c>> \in Seq(S) /\ Len(<<a>> \o <<b, c>>) = 3
      /\ \A i \in 1 .. 3 : (<<a>> \o <<b, c>>)[i] = IF i <= 1 THEN <<a>>[i] ELSE <<b, c>>[i - 1]
  BY <1>2, <1>3, ConcatProperties
<1>5. /\ <<a, b>> \o <<c>> \in Seq(S) /\ Len(<<a, b>> \o <<c>>) = 3
      /\ \A i \in 1 .. 3 : (<<a, b>> \o <<c>>)[i] = IF i <= 2 THEN <<a, b>>[i] ELSE <<c>>[i - 2]
  BY <1>2, <1>3, ConcatProperties
<1>6. \A i \in 1 .. 3 : i = 1 \/ i = 2 \/ i = 3
  OBVIOUS
<1>7. \A i \in 1 .. 3 : <<a, b, c>>[i] = (<<a>> \o <<b, c>>)[i]
  BY <1>1, <1>2, <1>3, <1>4, <1>6
<1>8. \A i \in 1 .. 3 : <<a, b, c>>[i] = (<<a, b>> \o <<c>>)[i]
  BY <1>1, <1>2, <1>3, <1>5, <1>6
<1> QED BY <1>1, <1>4, <1>5, <1>7, <1>8, SeqEqual

LEMMA SameFour ==
  ASSUME NEW a, NEW b, NEW c, NEW d
  PROVE  <<a, b, c, d>> = <<a>> \o <<b, c, d>>
<1> DEFINE S == {a, b, c, d}
<1>1. /\ <<a, b, c, d>> \in Seq(S) /\ Len(<<a, b, c, d>>) = 4
      /\ <<a, b, c, d>>[1] = a /\ <<a, b, c, d>>[2] = b /\ <<a, b, c, d>>[3] = c /\ <<a, b, c, d>>[4] = d
  OBVIOUS
<1>2. /\ <<a>> \in Seq(S) /\ Len(<<a>>) = 1 /\ <<a>>[1] = a
      /\ <<b, c, d>> \in Seq(S) /\ Len(<<b, c, d>>) = 3
      /\ <<b, c, d>>[1] = b /\ <<b, c, d>>[2] = c /\ <<b, c, d>>[3] = d
  OBVIOUS
<1> HIDE DEF S
<1>3. /\ <<a>> \o <<b, c, d>> \in Seq(S) /\ Len(<<a>> \o <<b, c, d>>) = 4
      /\ \A i \in 1 .. 4 : (<<a>> \o <<b, c, d>>)[i] = IF i <= 1 THEN <<a>>[i] ELSE <<b, c, d>>[i - 1]
  BY <1>2, ConcatProperties
<1>4. \A i \in 1 .. 4 : i = 1 \/ i = 2 \/ i = 3 \/ i = 4
  OBVIOUS
<1>5. \A i \in 1 .. 4 : <<a, b, c, d>>[i] = (<<a>> \o <<b, c, d>>)[i]
  BY <1>1, <1>2, <1>3, <1>4
<1> QED BY <1>1, <1>3, <1>5, SeqEqual

(* Readers of a few fields. *)
Of(kind, f) == kind \in Kinds \cup {"str"} /\ OfKind(kind, f)

LEMMA ReadsOne ==
  ASSUME NEW r, NEW k, NEW f, Of(k, f)
  PROVE  Reads(r, <<R(k)>>, <<f>>)
<1>1. /\ IsQueue(<<R(k)>>) /\ Len(<<R(k)>>) = 1 /\ <<R(k)>>[1] = R(k)
      /\ IsQueue(<<f>>) /\ Len(<<f>>) = 1 /\ <<f>>[1] = f
  BY SingleQueue
<1>2. \A i \in 1 .. 1 : i = 1
  OBVIOUS
<1>3. Matches(<<R(k)>>, <<f>>)
  BY <1>1, <1>2 DEF Matches, Of
<1> QED BY <1>1, <1>3, ReadsFields

LEMMA ReadsTwo ==
  ASSUME NEW r, NEW k, NEW f, NEW l, NEW g, Of(k, f), Of(l, g)
  PROVE  Reads(r, <<R(k), R(l)>>, <<f, g>>)
<1>1. Reads(r, <<R(k)>>, <<f>>) /\ Reads(r, <<R(l)>>, <<g>>)
  BY ReadsOne
<1>2. <<R(k), R(l)>> = <<R(k)>> \o <<R(l)>> /\ <<f, g>> = <<f>> \o <<g>>
  BY PairIs
<1>3. Reads(r, <<R(k)>> \o <<R(l)>>, <<f>> \o <<g>>)
  BY <1>1, ReadsChained
<1> QED BY <1>2, <1>3

LEMMA ReadsThree ==
  ASSUME NEW r, NEW k, NEW f, NEW l, NEW g, NEW m, NEW h, Of(k, f), Of(l, g), Of(m, h)
  PROVE  Reads(r, <<R(k), R(l), R(m)>>, <<f, g, h>>)
<1>1. Reads(r, <<R(k)>>, <<f>>) /\ Reads(r, <<R(l), R(m)>>, <<g, h>>)
  BY ReadsOne, ReadsTwo
<1>2. <<R(k), R(l), R(m)>> = <<R(k)>> \o <<R(l), R(m)>> /\ <<f, g, h>> = <<f>> \o <<g, h>>
  BY SameThree
<1>3. Reads(r, <<R(k)>> \o <<R(l), R(m)>>, <<f>> \o <<g, h>>)
  BY <1>1, ReadsChained
<1> QED BY <1>2, <1>3

LEMMA KindsOfFields ==
  /\ \A v : Of("int", I32(v)) /\ Of("u16", U16(v)) /\ Of("u32", U32(v)) /\ Of("u64", U64(v))
  /\ \A s \in Strings : Of("str", Str(s))
  /\ Of("str", Str(<<>>))
<1>1. \A s : IsQueue(s) => Of("str", Str(s))
  BY DEF Of, OfKind
<1>2. \A s \in Strings : IsQueue(s)
  BY MessagesAssumption, AnySeqIsQueue
<1>3. \A v : Of("int", I32(v)) /\ Of("u16", U16(v)) /\ Of("u32", U32(v)) /\ Of("u64", U64(v))
  BY DEF Of, OfKind, Kinds, I32, U16, U32, U64
<1> QED BY <1>1, <1>2, <1>3, EmptyQueue

LEMMA ReadsUser ==
  ASSUME NEW r, NEW name \in Strings, NEW id, NEW room
  PROVE  Reads(r, DecodeUser, EncodeUser(name, id, room))
<1> DEFINE a == R("str")
           b == R("u16")
           c == R("u64")
           d == R("u32")
           p == <<a, a, b, c, d>>
           s == Str(name)
           t == Str(<<>>)
           v == U16(id)
           w == U64(id)
           x == U32(room)
           e == <<s, t, v, w, x>>
<1>1. Of("str", s) /\ Of("str", t) /\ Of("u16", v) /\ Of("u64", w) /\ Of("u32", x)
  BY KindsOfFields
<1> HIDE DEF a, b, c, d, s, t, v, w, x
<1>2. /\ p \in Seq({a, b, c, d}) /\ Len(p) = 5
      /\ p[1] = a /\ p[2] = a /\ p[3] = b /\ p[4] = c /\ p[5] = d
  OBVIOUS
<1>3. /\ e \in Seq({s, t, v, w, x}) /\ Len(e) = 5
      /\ e[1] = s /\ e[2] = t /\ e[3] = v /\ e[4] = w /\ e[5] = x
  OBVIOUS
<1>4. \A i \in 1 .. 5 : i = 1 \/ i = 2 \/ i = 3 \/ i = 4 \/ i = 5
  OBVIOUS
<1>5. IsQueue(p) /\ IsQueue(e)
  BY <1>2, <1>3, AnySeqIsQueue
<1> HIDE DEF p, e
<1>6. ASSUME NEW i \in 1 .. 5
      PROVE  \E kind \in Kinds \cup {"str"} : p[i] = R(kind) /\ OfKind(kind, e[i])
  BY <1>1, <1>2, <1>3, <1>4 DEF Of, a, b, c, d
<1>7. Matches(p, e)
  BY <1>2, <1>3, <1>6 DEF Matches
<1>8. Reads(r, p, e)
  BY <1>5, <1>7, ReadsFields
<1>9. p = DecodeUser /\ e = EncodeUser(name, id, room)
  BY DEF p, e, a, b, c, d, s, t, v, w, x, DecodeUser, EncodeUser
<1> QED BY <1>8, <1>9

LEMMA ReadsRoom ==
  ASSUME NEW r, NEW id, NEW name \in Strings, NEW users,
         NEW n \in Nat, NEW S, users \in [1 .. n -> S]
  PROVE  Reads(r, DecodeRoom, EncodeRoom(id, name, users))
<1> DEFINE ids == [i \in DOMAIN users |-> U64(users[i])]
           singles == [i \in 1 .. n |-> <<ids[i]>>]
           q == <<R("u64")>>
           times == <<<<"times", q>>>>
           count == <<U32(n)>>
           a == <<R("u32"), R("str")>>
           b == <<U32(id), Str(name)>>
<1>1. DOMAIN users = 1 .. n /\ Len(users) = n
  <2>1. users \in Seq(S)
    BY SeqDef
  <2>2. Len(users) \in Nat /\ DOMAIN users = 1 .. Len(users) /\ DOMAIN users = 1 .. n
    BY <2>1, LenProperties
  <2> QED BY <2>2
<1>2. ids = First(ids, n) /\ \A i \in 1 .. n : ids[i] = U64(users[i])
  BY <1>1 DEF First
<1> HIDE DEF ids
<1>3. \A i \in 1 .. n : Reads(r, q, singles[i])
  BY <1>2, KindsOfFields, ReadsOne
<1>4. FlattenSeq(First(singles, n)) = ids
  <2>1. First(singles, n) = singles
    BY DEF First
  <2> QED BY <1>2, <2>1, FlattenSingles
<1>5. Reads(r, FlattenSeq(Repeat(q, n)), FlattenSeq(First(singles, n)))
  <2> HIDE DEF q, singles
  <2> QED BY <1>3, ReadsRepeated
<1>6. Reads(r, FlattenSeq(Repeat(q, n)), ids)
  BY <1>4, <1>5
<1>7. Reads(r, times, count \o ids)
  <2> HIDE DEF q
  <2> QED BY <1>6, ReadsTimesOver
<1>8. Reads(r, a, b)
  BY KindsOfFields, ReadsTwo
<1>9. DecodeRoom = a \o times
  <2> HIDE DEF q
  <2> QED BY SameThree DEF DecodeRoom, q
<1>10. EncodeRoom(id, name, users) = (b \o count) \o ids
  <2>1. EncodeRoom(id, name, users) = <<U32(id), Str(name), U32(n)>> \o ids
    BY <1>1 DEF EncodeRoom, ids
  <2> QED BY <2>1, SameThree
<1>11. IsQueue(b) /\ IsQueue(count) /\ IsQueue(ids)
  <2>1. IsQueue(b)
    BY <1>8, ReadsQueues
  <2>2. IsQueue(count)
    BY SingleQueue
  <2>3. IsQueue(ids)
    BY <1>6, ReadsQueues
  <2> QED BY <2>1, <2>2, <2>3
<1> HIDE DEF a, b, count, times
<1>12. (b \o count) \o ids = b \o (count \o ids)
  BY <1>11, ChainedByThree
<1>13. Reads(r, a \o times, b \o (count \o ids))
  BY <1>7, <1>8, ReadsChained
<1> QED BY <1>9, <1>10, <1>12, <1>13

WellMade(c) ==
  /\ Fields(c)
  /\ \E t, d : c = <<I32(t)>> \o d /\ Reads(c[2], Reader(t), d)

LEMMA MadeOf ==
  ASSUME NEW t, NEW d, NEW c, c = <<I32(t)>> \o d, Reads(c[2], Reader(t), d)
  PROVE  WellMade(c)
<1> DEFINE a == <<I32(t)>>
<1>1. Fields(d)
  BY ReadsQueues
<1>2. Fields(a)
  <2>1. IsField(I32(t))
    BY KindsOfFields DEF IsField, Of
  <2> QED BY <2>1, OneField
<1> HIDE DEF a
<1>3. Fields(a \o d)
  BY <1>1, <1>2, FieldsChained
<1>4. Fields(c)
  BY <1>3 DEF a
<1> QED BY <1>4 DEF WellMade

LEMMA Readers ==
  /\ Reader(c2s_logon) = <<R("str")>>
  /\ Reader(s2c_logon_res) = <<R("int"), R("str"), <<"okay", DecodeUser>>>>
  /\ Reader(s2c_room_info) = DecodeRoom \o <<<<"times", DecodeUser>>>>
  /\ Reader(s2c_room_list) = <<<<"times", DecodeRoom>>>>
  /\ Reader(c2s_publish_chat_msg) = <<R("u32"), R("str")>>
  /\ \A t \in {s2c_room_chat_msg, c2s_create_room, c2s_join_room, c2s_whisper_msg,
               s2c_whisper_msg, s2c_whisper_msg_failed, local_whisper_msg} :
       Reader(t) = <<R("str"), R("str")>>
  /\ \A t \in {s2c_create_room_res, s2c_join_room_res} : Reader(t) = <<R("int"), R("str"), R("str")>>
  /\ Reader(local_list_room) = <<>> /\ Reader(local_leave_room) = <<>>
<1> USE DEF c2s_logon, s2c_logon_res, s2c_room_info, c2s_publish_chat_msg, s2c_room_chat_msg,
            c2s_create_room, s2c_create_room_res, s2c_room_list, c2s_join_room, s2c_join_room_res,
            c2s_whisper_msg, s2c_whisper_msg, s2c_whisper_msg_failed, local_list_room,
            local_leave_room, local_whisper_msg
<1>1. Reader(c2s_logon) = <<R("str")>>
  BY DEF Reader
<1>2. Reader(s2c_logon_res) = <<R("int"), R("str"), <<"okay", DecodeUser>>>>
  BY DEF Reader
<1>3. Reader(s2c_room_info) = DecodeRoom \o <<<<"times", DecodeUser>>>>
  BY DEF Reader
<1>4. Reader(s2c_room_list) = <<<<"times", DecodeRoom>>>>
  BY DEF Reader
<1>5. Reader(c2s_publish_chat_msg) = <<R("u32"), R("str")>>
  BY DEF Reader
<1>6. \A t \in {5, 6, 9, 11, 12, 13, 18} : Reader(t) = <<R("str"), R("str")>>
  BY DEF Reader
<1>7. \A t \in {7, 10} : Reader(t) = <<R("int"), R("str"), R("str")>>
  BY DEF Reader
<1>8. Reader(local_list_room) = <<>> /\ Reader(local_leave_room) = <<>>
  BY DEF Reader
<1> QED BY <1>1, <1>2, <1>3, <1>4, <1>5, <1>6, <1>7, <1>8

LEMMA TextsMade ==
  ASSUME NEW t, Reader(t) = <<R("str"), R("str")>>, NEW c \in Texts(t)
  PROVE  WellMade(c)
<1>1. PICK v \in Strings, w \in Strings : c = <<I32(t), Str(v), Str(w)>>
  BY DEF Texts
<1>2. c = <<I32(t)>> \o <<Str(v), Str(w)>>
  BY <1>1, SameThree
<1>3. Reads(c[2], <<R("str"), R("str")>>, <<Str(v), Str(w)>>)
  BY KindsOfFields, ReadsTwo
<1>4. Reads(c[2], Reader(t), <<Str(v), Str(w)>>)
  BY <1>3
<1> HIDE DEF Reader
<1> QED BY <1>2, <1>4, MadeOf

LEMMA ResultsMade ==
  ASSUME NEW t, Reader(t) = <<R("int"), R("str"), R("str")>>, NEW c \in Results(t)
  PROVE  WellMade(c)
<1>1. PICK err \in Errs, v \in Strings, w \in Strings : c = <<I32(t), I32(err), Str(v), Str(w)>>
  BY DEF Results
<1>2. c = <<I32(t)>> \o <<I32(err), Str(v), Str(w)>>
  BY <1>1, SameFour
<1>3. Reads(c[2], <<R("int"), R("str"), R("str")>>, <<I32(err), Str(v), Str(w)>>)
  BY KindsOfFields, ReadsThree
<1>4. Reads(c[2], Reader(t), <<I32(err), Str(v), Str(w)>>)
  BY <1>3
<1> QED BY <1>2, <1>4, MadeOf

LEMMA LogonsMade ==
  ASSUME NEW c \in Logons PROVE WellMade(c)
<1>1. PICK name \in Strings : c = <<I32(c2s_logon), Str(name)>>
  BY DEF Logons
<1>2. c = <<I32(c2s_logon)>> \o <<Str(name)>>
  BY <1>1, PairIs
<1>3. Reads(c[2], <<R("str")>>, <<Str(name)>>)
  BY KindsOfFields, ReadsOne
<1>4. Reads(c[2], Reader(c2s_logon), <<Str(name)>>)
  BY <1>3, Readers
<1> QED BY <1>2, <1>4, MadeOf

LEMMA PublishesMade ==
  ASSUME NEW c \in Publishes PROVE WellMade(c)
<1>1. PICK room \in Rooms, words \in Strings : c = <<I32(c2s_publish_chat_msg), U32(room), Str(words)>>
  BY DEF Publishes
<1>2. c = <<I32(c2s_publish_chat_msg)>> \o <<U32(room), Str(words)>>
  BY <1>1, SameThree
<1>3. Reads(c[2], <<R("u32"), R("str")>>, <<U32(room), Str(words)>>)
  BY KindsOfFields, ReadsTwo
<1>4. Reads(c[2], Reader(c2s_publish_chat_msg), <<U32(room), Str(words)>>)
  BY <1>3, Readers
<1> QED BY <1>2, <1>4, MadeOf

LEMMA LocalCommandsMade ==
  ASSUME NEW c \in LocalCommands PROVE WellMade(c)
<1>1. PICK t \in {local_list_room, local_leave_room} : c = <<I32(t)>>
  BY DEF LocalCommands
<1>2. c = <<I32(t)>> \o <<>>
  BY <1>1, SingleQueue, ChainedByThree
<1>3. Reads(c[2], Reader(t), <<>>)
  BY Readers, ReadsNothing
<1> QED BY <1>2, <1>3, MadeOf

LEMMA LogonResultsMade ==
  ASSUME NEW c \in LogonResults PROVE WellMade(c)
<1> DEFINE a == <<R("int"), R("str")>>
           okay == <<<<"okay", DecodeUser>>>>
           head == <<I32(s2c_logon_res)>>
<1>1. Reader(s2c_logon_res) = a \o okay
  <2>1. \A x : <<R("int"), R("str"), x>> = a \o <<x>>
    BY SameThree
  <2> QED BY <2>1, Readers
<1>2. ASSUME NEW name \in Strings, NEW id \in Users, NEW room \in Rooms,
             c = <<I32(s2c_logon_res), I32(0), Str(<<>>)>> \o EncodeUser(name, id, room)
      PROVE  WellMade(c)
  <2> DEFINE b == <<I32(0), Str(<<>>)>>
             user == EncodeUser(name, id, room)
             d == b \o user
             r == c[2]
  <2>1. Reads(r, a, b) /\ Reads(r, DecodeUser, user)
    BY KindsOfFields, ReadsTwo, ReadsUser
  <2>2. IsQueue(head) /\ IsQueue(b) /\ IsQueue(user)
    <3>1. IsQueue(head)
      BY SingleQueue
    <3> HIDE DEF a, b, user, r, head
    <3> QED BY <2>1, <3>1, ReadsQueues
  <2>3. <<I32(s2c_logon_res), I32(0), Str(<<>>)>> = head \o b
    BY SameThree
  <2>4. c = head \o d
    <3>1. c = (head \o b) \o user
      BY <1>2, <2>3
    <3> HIDE DEF head, b, user
    <3> QED BY <2>2, <3>1, ChainedByThree
  <2>5. r = I32(0)
    <3>1. b[1] = I32(0) /\ Len(b) = 2
      OBVIOUS
    <3>2. Len(head) = 1
      BY SingleQueue
    <3> HIDE DEF head, b, user
    <3>3. d[1] = I32(0) /\ IsQueue(d) /\ Len(d) = Len(b) + Len(user) /\ Len(user) \in Nat
      <4>1. 1 \in 1 .. Len(b)
        BY <3>1
      <4> QED BY <2>2, <3>1, <4>1, Chained, QueueDomain
    <3>4. 1 \in 1 .. Len(d)
      BY <3>1, <3>3
    <3> HIDE DEF d
    <3>5. (head \o d)[Len(head) + 1] = d[1]
      BY <2>2, <3>3, <3>4, Chained
    <3>6. Len(head) + 1 = 2
      BY <3>2
    <3>7. c[Len(head) + 1] = I32(0)
      BY <2>4, <3>3, <3>5, Zenon
    <3> QED BY <3>6, <3>7
  <2>6. Reads(r, okay, user)
    <3>1. Chosen(r, DecodeUser) = DecodeUser
      BY <2>5 DEF Chosen
    <3> HIDE DEF r, user
    <3> QED BY <2>1, <3>1, ReadsIfChosen
  <2>7. Reads(r, a \o okay, d)
    <3> HIDE DEF a, b, okay, user, r
    <3> QED BY <2>1, <2>6, ReadsChained
  <2> HIDE DEF d
  <2>8. Reads(c[2], Reader(s2c_logon_res), d)
    BY <1>1, <2>7
  <2> QED BY <2>4, <2>8, MadeOf
<1>3. ASSUME NEW errstr \in Strings, c = <<I32(s2c_logon_res), I32(1), Str(errstr)>>
      PROVE  WellMade(c)
  <2> DEFINE d == <<I32(1), Str(errstr)>>
             r == c[2]
  <2>1. Reads(r, a, d)
    BY KindsOfFields, ReadsTwo
  <2>2. c = head \o d /\ r = I32(1)
    BY <1>3, SameThree
  <2>3. Chosen(r, DecodeUser) = <<>>
    BY <2>2 DEF Chosen, I32
  <2>4. Reads(r, okay, <<>>)
    <3> HIDE DEF r
    <3> QED BY <2>3, ReadsNothing, ReadsIfChosen
  <2>5. d \o <<>> = d
    <3> HIDE DEF a, d, r
    <3> QED BY <2>1, ReadsQueues, ChainedByThree
  <2>6. Reads(r, a \o okay, d)
    <3>1. Reads(r, a \o okay, d \o <<>>)
      <4> HIDE DEF a, okay, d, r
      <4> QED BY <2>1, <2>4, ReadsChained
    <3> QED BY <2>5, <3>1
  <2> HIDE DEF d
  <2>7. Reads(c[2], Reader(s2c_logon_res), d)
    BY <1>1, <2>6
  <2> QED BY <2>2, <2>7, MadeOf
<1>4. \/ \E name \in Strings, id \in Users, room \in Rooms :
           c = <<I32(s2c_logon_res), I32(0), Str(<<>>)>> \o EncodeUser(name, id, room)
      \/ \E errstr \in Strings : c = <<I32(s2c_logon_res), I32(1), Str(errstr)>>
  <2> HIDE DEF a, okay, head
  <2> DEFINE F(name, id, room) == <<I32(s2c_logon_res), I32(0), Str(<<>>)>> \o EncodeUser(name, id, room)
             G(errstr) == <<I32(s2c_logon_res), I32(1), Str(errstr)>>
  <2>1. LogonResults = {F(name, id, room) : name \in Strings, id \in Users, room \in Rooms}
                       \cup {G(errstr) : errstr \in Strings}
    BY DEF LogonResults
  <2> HIDE DEF F, G
  <2>2. \/ \E name \in Strings, id \in Users, room \in Rooms : c = F(name, id, room)
        \/ \E errstr \in Strings : c = G(errstr)
    BY <2>1
  <2> QED BY <2>2 DEF F, G
<1> QED BY <1>2, <1>3, <1>4

LEMMA ListsAre ==
  ASSUME NEW S, NEW l \in Lists(S)
  PROVE  \E n \in Nat : l \in [1 .. n -> S] /\ Len(l) = n /\ DOMAIN l = 1 .. n
<1>1. PICK n \in 0 .. MaxListed : l \in [1 .. n -> S]
  BY DEF Lists
<1>2. n \in Nat
  BY <1>1, MessagesAssumption
<1>3. l \in Seq(S) /\ DOMAIN l = 1 .. n
  BY <1>1, <1>2, SeqDef
<1>4. Len(l) = n
  BY <1>2, <1>3, LenProperties
<1> QED BY <1>1, <1>2, <1>3, <1>4

LEMMA RoomInfosMade ==
  ASSUME NEW c \in RoomInfos PROVE WellMade(c)
<1> DEFINE users(name, l, room) == [i \in DOMAIN l |-> EncodeUser(name, l[i], room)]
           F(room, name, l) == <<I32(s2c_room_info)>> \o EncodeRoom(room, name, l) \o <<U32(Len(l))>>
                                  \o FlattenSeq(users(name, l, room))
<1>1. RoomInfos = {F(room, name, l) : room \in Rooms, name \in Strings, l \in Lists(Users)}
  BY DEF RoomInfos
<1> HIDE DEF F
<1>2. PICK room \in Rooms, name \in Strings, l \in Lists(Users) : c = F(room, name, l)
  BY <1>1
<1>3. PICK n \in Nat : l \in [1 .. n -> Users] /\ Len(l) = n /\ DOMAIN l = 1 .. n
  BY ListsAre
<1> DEFINE r == c[2]
           h == <<I32(s2c_room_info)>>
           e == EncodeRoom(room, name, l)
           u == <<U32(n)>>
           f == users(name, l, room)
           g == FlattenSeq(f)
           times == <<<<"times", DecodeUser>>>>
<1>4. c = ((h \o e) \o u) \o g
  BY <1>2, <1>3 DEF F
<1>5. Reads(r, DecodeRoom, e)
  <2> HIDE DEF r, users
  <2> QED BY <1>3, ReadsRoom
<1>6. f = First(f, n) /\ \A i \in 1 .. n : f[i] = EncodeUser(name, l[i], room)
  BY <1>3 DEF First
<1> HIDE DEF users, f
<1>7. Reads(r, times, u \o g)
  <2> HIDE DEF r
  <2>1. \A i \in 1 .. n : Reads(r, DecodeUser, f[i])
    BY <1>6, ReadsUser
  <2>2. Reads(r, FlattenSeq(Repeat(DecodeUser, n)), FlattenSeq(First(f, n)))
    BY <2>1, ReadsRepeated
  <2>3. Reads(r, FlattenSeq(Repeat(DecodeUser, n)), g)
    BY <1>6, <2>2
  <2> HIDE DEF g
  <2> QED BY <2>3, ReadsTimesOver
<1>8. Reads(r, DecodeRoom \o times, e \o (u \o g))
  <2> HIDE DEF r, e, u, g, times
  <2> QED BY <1>5, <1>7, ReadsChained
<1>9. IsQueue(h) /\ IsQueue(e) /\ IsQueue(u) /\ IsQueue(g)
  <2>1. IsQueue(h) /\ IsQueue(u)
    BY SingleQueue
  <2>2. IsQueue(e)
    <3> HIDE DEF r, e
    <3> QED BY <1>5, ReadsQueues
  <2>3. IsQueue(g)
    <3>1. \A i \in 1 .. n : IsQueue(f[i])
      BY <1>6, ReadsUser, ReadsQueues
    <3>2. n \in 0 .. n
      OBVIOUS
    <3>3. IsQueue(FlattenSeq(First(f, n)))
      BY <3>1, <3>2, FlattenFirst
    <3> QED BY <1>6, <3>3
  <2> QED BY <2>1, <2>2, <2>3
<1> HIDE DEF r, h, e, u, g, times
<1>10. ((h \o e) \o u) \o g = h \o (e \o (u \o g))
  <2>1. IsQueue(h \o e)
    BY <1>9, Chained
  <2>2. IsQueue(u \o g)
    BY <1>9, Chained
  <2> DEFINE v == h \o e
             w == u \o g
  <2>3. (v \o u) \o g = v \o w
    <3>1. IsQueue(v) /\ IsQueue(u) /\ IsQueue(g)
      BY <1>9, <2>1
    <3> HIDE DEF v
    <3> QED BY <3>1, ChainedByThree
  <2>4. (h \o e) \o w = h \o (e \o w)
    <3>1. IsQueue(h) /\ IsQueue(e) /\ IsQueue(w)
      BY <1>9, <2>2
    <3> HIDE DEF w
    <3> QED BY <3>1, ChainedByThree
  <2> QED BY <2>3, <2>4
<1> DEFINE d == e \o (u \o g)
<1>11. c = h \o d
  BY <1>4, <1>10
<1>12. Reads(r, Reader(s2c_room_info), d)
  BY <1>8, Readers DEF times
<1> HIDE DEF d
<1> QED BY <1>11, <1>12, MadeOf DEF h, r

LEMMA RoomListsMade ==
  ASSUME NEW c \in RoomLists PROVE WellMade(c)
<1> DEFINE one == <<CHOOSE u \in Users : TRUE>>
           rooms(name, l) == [i \in DOMAIN l |-> EncodeRoom(l[i], name, one)]
           F(name, l) == <<I32(s2c_room_list), U32(Len(l))>> \o FlattenSeq(rooms(name, l))
<1>1. RoomLists = {F(name, l) : name \in Strings, l \in Lists(Rooms)}
  BY DEF RoomLists
<1> HIDE DEF F
<1>2. PICK name \in Strings, l \in Lists(Rooms) : c = F(name, l)
  BY <1>1
<1>3. PICK n \in Nat : l \in [1 .. n -> Rooms] /\ Len(l) = n /\ DOMAIN l = 1 .. n
  BY ListsAre
<1> DEFINE r == c[2]
           h == <<I32(s2c_room_list)>>
           count == <<U32(n)>>
           f == rooms(name, l)
           g == FlattenSeq(f)
           times == <<<<"times", DecodeRoom>>>>
<1>4. c = (h \o count) \o g
  <2>1. <<I32(s2c_room_list), U32(n)>> = h \o count
    BY PairIs
  <2> QED BY <1>2, <1>3, <2>1 DEF F
<1>5. f = First(f, n) /\ \A i \in 1 .. n : f[i] = EncodeRoom(l[i], name, one)
  BY <1>3 DEF First
<1> HIDE DEF rooms, f
<1>6. \A i \in 1 .. n : \A x : Reads(x, DecodeRoom, f[i])
  <2>1. one \in [1 .. 1 -> {CHOOSE u \in Users : TRUE}] /\ 1 \in Nat
    OBVIOUS
  <2> HIDE DEF one
  <2> SUFFICES ASSUME NEW i \in 1 .. n, NEW x PROVE Reads(x, DecodeRoom, f[i])
    OBVIOUS
  <2>2. Reads(x, DecodeRoom, EncodeRoom(l[i], name, one))
    BY <2>1, ReadsRoom
  <2>3. f[i] = EncodeRoom(l[i], name, one)
    BY <1>5
  <2> QED BY <2>2, <2>3
<1>7. Reads(r, times, count \o g)
  <2> HIDE DEF r
  <2>1. Reads(r, FlattenSeq(Repeat(DecodeRoom, n)), FlattenSeq(First(f, n)))
    BY <1>6, ReadsRepeated
  <2>2. Reads(r, FlattenSeq(Repeat(DecodeRoom, n)), g)
    BY <1>5, <2>1
  <2> HIDE DEF g
  <2> QED BY <2>2, ReadsTimesOver
<1>8. IsQueue(h) /\ IsQueue(count) /\ IsQueue(g)
  <2>1. IsQueue(h) /\ IsQueue(count)
    BY SingleQueue
  <2>2. \A i \in 1 .. n : IsQueue(f[i])
    BY <1>6, ReadsQueues
  <2>3. n \in 0 .. n
    OBVIOUS
  <2>4. IsQueue(FlattenSeq(First(f, n)))
    BY <2>2, <2>3, FlattenFirst
  <2> QED BY <1>5, <2>1, <2>4
<1> HIDE DEF r, h, count, g, times
<1> DEFINE d == count \o g
<1>9. c = h \o d
  BY <1>4, <1>8, ChainedByThree
<1>10. Reads(r, Reader(s2c_room_list), d)
  BY <1>7, Readers DEF times
<1> HIDE DEF d
<1> QED BY <1>9, <1>10, MadeOf DEF h, r

LEMMA ContentsMade ==
  ASSUME NEW c \in Contents PROVE WellMade(c)
<1>1. \A t \in {s2c_room_chat_msg, c2s_create_room, c2s_join_room, c2s_whisper_msg,
                s2c_whisper_msg, s2c_whisper_msg_failed, local_whisper_msg} :
        c \in Texts(t) => WellMade(c)
  BY Readers, TextsMade
<1>2. \A t \in {s2c_create_room_res, s2c_join_room_res} : c \in Results(t) => WellMade(c)
  BY Readers, ResultsMade
<1>3. /\ c \in RoomChats => c \in Texts(s2c_room_chat_msg)
      /\ c \in CreateRooms => c \in Texts(c2s_create_room)
      /\ c \in JoinRooms => c \in Texts(c2s_join_room)
      /\ c \in LocalWhispers => c \in Texts(local_whisper_msg)
      /\ c \in SentWhispers => c \in Texts(c2s_whisper_msg)
      /\ c \in PassedWhispers => c \in Texts(s2c_whisper_msg)
      /\ c \in FailedWhispers => c \in Texts(s2c_whisper_msg_failed)
      /\ c \in CreateResults => c \in Results(s2c_create_room_res)
      /\ c \in JoinResults => c \in Results(s2c_join_room_res)
  BY DEF RoomChats, CreateRooms, JoinRooms, LocalWhispers, SentWhispers, PassedWhispers,
         FailedWhispers, CreateResults, JoinResults
<1>4. \/ c \in Logons \/ c \in LogonResults \/ c \in RoomInfos \/ c \in RoomLists
      \/ c \in Publishes \/ c \in RoomChats \/ c \in CreateRooms \/ c \in JoinRooms
      \/ c \in CreateResults \/ c \in JoinResults \/ c \in LocalWhispers \/ c \in SentWhispers
      \/ c \in PassedWhispers \/ c \in FailedWhispers \/ c \in LocalCommands
  BY DEF Contents
<1> QED BY <1>1, <1>2, <1>3, <1>4, LogonsMade, LogonResultsMade, RoomInfosMade, RoomListsMade,
           PublishesMade, LocalCommandsMade

-----------------------------------------------------------------------------
(* A sequence of two parts.                                                *)

LEMMA PrefixOfChained ==
  ASSUME NEW q, NEW s, IsQueue(q), IsQueue(s)
  PROVE  IsPrefix(q, q \o s)
<1> DEFINE c == q \o s
           m == Len(q)
<1>1. /\ IsQueue(c) /\ Len(c) = m + Len(s)
      /\ \A i \in 1 .. m : c[i] = q[i]
  BY Chained
<1>2. m \in Nat /\ Len(s) \in Nat
  BY QueueDomain
<1> HIDE DEF c, m
<1>3. 1 \in 1 .. Len(c) + 1 /\ 1 \in 1 .. m + 1 /\ 1 <= m + 1 /\ m <= Len(c) /\ m <= m /\ m - 1 + 1 = m
  BY <1>1, <1>2
<1>4. /\ IsQueue(SubSeq(c, 1, m)) /\ Len(SubSeq(c, 1, m)) = m - 1 + 1
      /\ \A k \in 1 .. m - 1 + 1 : SubSeq(c, 1, m)[k] = c[1 + k - 1]
  BY <1>1, <1>2, <1>3, PartOfText
<1>5. /\ IsQueue(SubSeq(q, 1, m)) /\ Len(SubSeq(q, 1, m)) = m - 1 + 1
      /\ \A k \in 1 .. m - 1 + 1 : SubSeq(q, 1, m)[k] = q[1 + k - 1]
  BY <1>2, <1>3, PartOfText DEF m
<1>6. \A k \in 1 .. m : 1 + k - 1 = k
  BY <1>2
<1> DEFINE a == SubSeq(c, 1, m)
           b == SubSeq(q, 1, m)
<1>7. IsQueue(a) /\ Len(a) = m /\ \A k \in 1 .. m : a[k] = q[k]
  BY <1>1, <1>3, <1>4, <1>6
<1>8. IsQueue(b) /\ Len(b) = m /\ \A k \in 1 .. m : b[k] = q[k]
  BY <1>3, <1>5, <1>6
<1> HIDE DEF a, b
<1>9. a = b
  BY <1>7, <1>8, SameQueue
<1> QED BY <1>3, <1>9 DEF IsPrefix, a, b, c, m

LEMMA WholeText ==
  ASSUME NEW q, IsQueue(q)
  PROVE  SubSeq(q, 1, Len(q)) = q
<1> DEFINE m == Len(q)
<1>1. m \in Nat
  BY QueueDomain
<1>2. 1 \in 1 .. m + 1 /\ 1 <= m + 1 /\ m <= m /\ m - 1 + 1 = m
  BY <1>1
<1> HIDE DEF m
<1>3. /\ IsQueue(SubSeq(q, 1, m)) /\ Len(SubSeq(q, 1, m)) = m - 1 + 1
      /\ \A k \in 1 .. m - 1 + 1 : SubSeq(q, 1, m)[k] = q[1 + k - 1]
  BY <1>1, <1>2, PartOfText DEF m
<1>4. \A k \in 1 .. m : 1 + k - 1 = k
  BY <1>1
<1>5. SubSeq(q, 1, m) = q
  BY <1>2, <1>3, <1>4, SameQueue DEF m
<1> QED BY <1>5 DEF m

(* The first of what is left goes over to what is done.                    *)
LEMMA OneMoreDone ==
  ASSUME NEW q, NEW s, IsQueue(q), IsQueue(s), s # <<>>
  PROVE  /\ IsQueue(Append(q, Head(s))) /\ Append(q, Head(s)) = q \o <<Head(s)>>
         /\ Append(q, Head(s)) # <<>> /\ Len(Append(q, Head(s))) = Len(q) + 1
         /\ IsQueue(Tail(s)) /\ Append(q, Head(s)) \o Tail(s) = q \o s
         /\ Len(q) \in 0 .. Len(q \o s) - 1 /\ (q \o s)[Len(q) + 1] = Head(s)
<1> DEFINE x == Head(s)
           o == <<x>>
           t == Tail(s)
           c == q \o s
<1>1. /\ IsQueue(t) /\ Len(s) \in Nat \ {0} /\ Len(t) = Len(s) - 1 /\ x = s[1]
      /\ \A i \in 1 .. Len(s) - 1 : t[i] = s[i + 1]
  BY HeadAndTail
<1>2. IsQueue(o) /\ Len(o) = 1 /\ o[1] = x /\ o # <<>>
  BY SingleQueue, SingleIs
<1>3. Append(q, x) = q \o o
  <2>1. q \in Seq(Range(q) \cup {x}) /\ x \in Range(q) \cup {x}
    BY SeqMonotonic DEF IsQueue
  <2> HIDE DEF x
  <2> QED BY <2>1, AppendIsConcat
<1>4. IsQueue(Append(q, x)) /\ Append(q, x) # <<>>
  BY AppendToQueue
<1>5. /\ IsQueue(c) /\ Len(c) = Len(q) + Len(s)
      /\ \A i \in 1 .. Len(s) : c[Len(q) + i] = s[i]
  BY Chained
<1>6. Len(q) \in Nat
  BY QueueDomain
<1> HIDE DEF x, o, t, c
<1>7. s = o \o t
  <2>1. IsQueue(o) /\ IsQueue(t)
    BY <1>1, <1>2
  <2>2. /\ IsQueue(o \o t) /\ Len(o \o t) = Len(o) + Len(t)
        /\ \A i \in 1 .. Len(o) : (o \o t)[i] = o[i]
        /\ \A i \in 1 .. Len(t) : (o \o t)[Len(o) + i] = t[i]
    BY <2>1, Chained
  <2> DEFINE u == o \o t
  <2> HIDE DEF u
  <2>3. IsQueue(u) /\ Len(u) = Len(s)
    BY <1>1, <1>2, <2>2 DEF u
  <2>4. ASSUME NEW i \in 1 .. Len(s) PROVE s[i] = u[i]
    <3>1. CASE i = 1
      <4>1. 1 \in 1 .. Len(o)
        BY <1>2
      <4>2. u[1] = o[1]
        BY <2>2, <4>1 DEF u
      <4> QED BY <1>1, <1>2, <3>1, <4>2
    <3>2. CASE i # 1
      <4> DEFINE k == i - 1
      <4>1. k \in 1 .. Len(s) - 1 /\ k + 1 = i /\ Len(o) + k = i
        BY <1>1, <1>2, <3>2
      <4> HIDE DEF k
      <4>2. t[k] = s[i] /\ u[i] = t[k]
        BY <1>1, <2>2, <4>1 DEF u
      <4> QED BY <4>2
    <3> QED BY <3>1, <3>2
  <2> QED BY <2>3, <2>4, SameQueue DEF u
<1>8. (q \o o) \o t = c
  <2>1. IsQueue(q) /\ IsQueue(o) /\ IsQueue(t)
    BY <1>1, <1>2
  <2>2. (q \o o) \o t = q \o (o \o t)
    BY <2>1, ChainedByThree
  <2> QED BY <1>7, <2>2 DEF c
<1>9. Len(q \o o) = Len(q) + 1
  <2>1. IsQueue(q) /\ IsQueue(o)
    BY <1>2
  <2>2. Len(q \o o) = Len(q) + Len(o)
    BY <2>1, Chained
  <2> QED BY <1>2, <2>2
<1>10. Len(q) \in 0 .. Len(c) - 1 /\ c[Len(q) + 1] = x
  <2>1. 1 \in 1 .. Len(s)
    BY <1>1
  <2>2. c[Len(q) + 1] = s[1]
    BY <1>5, <2>1
  <2> QED BY <1>1, <1>5, <1>6, <2>2
<1> QED BY <1>1, <1>3, <1>4, <1>8, <1>9, <1>10 DEF x, o, t, c

-----------------------------------------------------------------------------
(* The operations of a Msg.                                                *)

IsMsg(m) ==
  /\ DOMAIN m = {"mMallocSize", "allocated", "data", "len"}
  /\ IsQueue(m.data)
  /\ m.allocated \in Nat /\ HEAD_LENGTH + Len(m.data) <= m.allocated

(* As it is while it is written. *)
IsGrowing(m) == IsMsg(m) /\ m.mMallocSize = PageSize /\ PageSize <= m.allocated

LEMMA NewMsgIs == IsGrowing(NewMsg) /\ NewMsg.data = <<>>
<1>1. IsQueue(<<>>) /\ Len(<<>>) = 0
  BY EmptyQueue
<1>2. PageSize \in Nat /\ HEAD_LENGTH \in Nat /\ HEAD_LENGTH <= PageSize
  BY MsgAssumption
<1> QED BY <1>1, <1>2 DEF NewMsg, IsGrowing, IsMsg

LEMMA NewMsgOfIs ==
  ASSUME NEW len
  PROVE  /\ DOMAIN NewMsgOf(len) = {"mMallocSize", "allocated", "data", "len"}
         /\ NewMsgOf(len).allocated = len + HEAD_LENGTH
BY DEF NewMsgOf

LEMMA Multiplied ==
  ASSUME NEW k \in Nat \ {0}, NEW x \in Nat
  PROVE  k * x \in Nat /\ x <= k * x
<1> DEFINE S == {j \in Nat : (j + 1) * x \in Nat /\ x <= (j + 1) * x}
<1>1. 0 \in S
  OBVIOUS
<1>2. \A j \in Nat : j \in S => j + 1 \in S
  OBVIOUS
<1> HIDE DEF S
<1>3. k - 1 \in S
  BY <1>1, <1>2, EveryNumber
<1>4. (k - 1) + 1 = k
  OBVIOUS
<1> QED BY <1>3, <1>4 DEF S

LEMMA PreparedIs ==
  ASSUME NEW m, IsGrowing(m), NEW b, IsQueue(b)
  PROVE  /\ IsGrowing(Prepared(m, b))
         /\ Prepared(m, b).data = m.data
<1>1. ASSUME NEW size \in Nat, size > m.mMallocSize, LeftSize(m) >= 0
      PROVE  IsGrowing(ReverseSize(m, size)) /\ ReverseSize(m, size).data = m.data
  <2> DEFINE wanted == IF size < 2 * m.mMallocSize THEN 2 * m.mMallocSize ELSE size
             x == wanted + (wanted % PageSize)
             a == PointerSize * x
  <2>1. PageSize \in Nat \ {0} /\ PointerSize \in Nat \ {0} /\ m.mMallocSize = PageSize /\ HEAD_LENGTH \in Nat
    BY MsgAssumption DEF IsGrowing
  <2>2. wanted \in Nat /\ 2 * PageSize <= wanted
    BY <2>1
  <2>3. wanted % PageSize \in Nat
    <3> HIDE DEF wanted
    <3> QED BY <2>1, <2>2
  <2>4. x \in Nat /\ 2 * PageSize <= x
    <3> DEFINE z == wanted % PageSize
    <3>1. z \in Nat /\ x = wanted + z
      BY <2>3
    <3> HIDE DEF z, x, wanted
    <3> QED BY <2>1, <2>2, <3>1
  <2>5. ReverseSize(m, size) = [m EXCEPT !.allocated = a]
    BY <1>1, <2>1 DEF ReverseSize
  <2>6. a \in Nat /\ x <= a
    <3> HIDE DEF x
    <3> QED BY <2>1, <2>4, Multiplied
  <2> HIDE DEF a, x, wanted
  <2>7. PageSize <= a
    BY <2>1, <2>4, <2>6
  <2> DEFINE n == [m EXCEPT !.allocated = a]
  <2>8. IsMsg(m) /\ m.mMallocSize = PageSize /\ DOMAIN m = {"mMallocSize", "allocated", "data", "len"}
    BY DEF IsGrowing, IsMsg
  <2>9. /\ DOMAIN n = {"mMallocSize", "allocated", "data", "len"}
        /\ n.allocated = a /\ n.data = m.data /\ n.mMallocSize = m.mMallocSize
    BY <2>8
  <2>10. HEAD_LENGTH + Len(m.data) <= a
    <3>1. IsQueue(m.data)
      BY <2>8 DEF IsMsg
    <3>2. Len(m.data) \in Nat
      BY <3>1, QueueDomain
    <3>3. PageSize - Len(m.data) - HEAD_LENGTH >= 0
      BY <1>1, <2>8 DEF LeftSize
    <3> QED BY <2>1, <2>6, <2>7, <3>2, <3>3
  <2> HIDE DEF n
  <2>11. IsMsg(n)
    BY <2>6, <2>8, <2>9, <2>10 DEF IsMsg
  <2>12. IsGrowing(n)
    BY <2>7, <2>8, <2>9, <2>11 DEF IsGrowing
  <2>13. ReverseSize(m, size) = n
    BY <2>5 DEF n
  <2> QED BY <2>9, <2>12, <2>13
<1>2. Len(b) \in Nat
  BY QueueDomain
<1>3. PageSize \in Nat /\ m.mMallocSize = PageSize
  BY MsgAssumption DEF IsGrowing
<1>4. CASE Len(b) <= m.mMallocSize
  <2>1. ReverseSize(m, Len(b)) = m
    BY <1>4 DEF ReverseSize
  <2> QED BY <2>1 DEF Prepared
<1>5. CASE ~(Len(b) <= m.mMallocSize)
  <2>1. Len(b) > m.mMallocSize
    BY <1>2, <1>3, <1>5
  <2>2. CASE LeftSize(m) >= 0
    <3>1. IsGrowing(ReverseSize(m, Len(b))) /\ ReverseSize(m, Len(b)).data = m.data
      BY <1>1, <1>2, <2>1, <2>2
    <3> QED BY <3>1 DEF Prepared
  <2>3. CASE ~(LeftSize(m) >= 0)
    BY <2>3 DEF Prepared
  <2> QED BY <2>2, <2>3
<1> QED BY <1>4, <1>5

LEMMA WriteByteIs ==
  ASSUME NEW m, IsGrowing(m), NEW b, IsQueue(b)
  PROVE  /\ Holds(m, b) => IsGrowing(WriteByte(m, b)) /\ WriteByte(m, b).data = m.data \o b
         /\ ~Holds(m, b) => HEAD_LENGTH + Len(m.data) + Len(b) > PageSize
<1> DEFINE p == Prepared(m, b)
           n == [p EXCEPT !.data = @ \o b]
<1>1. IsGrowing(p) /\ p.data = m.data
  BY PreparedIs
<1>2. Holds(m, b) <=> HEAD_LENGTH + Len(m.data) + Len(b) <= p.allocated
  BY DEF Holds
<1>3. WriteByte(m, b) = n
  BY DEF WriteByte
<1>4. PageSize \in Nat /\ HEAD_LENGTH \in Nat
  BY MsgAssumption
<1>5. IsQueue(m.data) /\ IsQueue(b)
  BY DEF IsGrowing, IsMsg
<1>6. Len(m.data) \in Nat /\ Len(b) \in Nat
  BY <1>5, QueueDomain
<1>7. IsQueue(m.data \o b) /\ Len(m.data \o b) = Len(m.data) + Len(b)
  BY <1>5, Chained
<1> HIDE DEF p
<1>8. p.allocated \in Nat /\ PageSize <= p.allocated
  BY <1>1 DEF IsGrowing, IsMsg
<1>9. ~Holds(m, b) => HEAD_LENGTH + Len(m.data) + Len(b) > PageSize
  BY <1>2, <1>4, <1>6, <1>8
<1>10. ASSUME Holds(m, b)
       PROVE  IsGrowing(n) /\ n.data = m.data \o b
  <2>1. /\ DOMAIN p = {"mMallocSize", "allocated", "data", "len"}
        /\ p.mMallocSize = PageSize
    BY <1>1 DEF IsGrowing, IsMsg
  <2>2. /\ DOMAIN n = {"mMallocSize", "allocated", "data", "len"}
        /\ n.mMallocSize = PageSize /\ n.allocated = p.allocated /\ n.data = m.data \o b
    BY <1>1, <2>1
  <2> HIDE DEF n
  <2>3. HEAD_LENGTH + Len(n.data) <= n.allocated
    BY <1>2, <1>4, <1>6, <1>7, <1>8, <1>10, <2>2
  <2>4. IsMsg(n)
    BY <1>7, <1>8, <2>2, <2>3 DEF IsMsg
  <2> QED BY <1>8, <2>2, <2>4 DEF IsGrowing
<1> HIDE DEF n
<1> QED BY <1>3, <1>9, <1>10

LEMMA SetLenIs ==
  ASSUME NEW m, IsMsg(m)
  PROVE  /\ IsMsg(SetLen(m)) /\ SetLen(m).data = m.data /\ SetLen(m).len = Len(m.data)
<1> DEFINE n == [m EXCEPT !.len = Len(m.data)]
<1>1. DOMAIN m = {"mMallocSize", "allocated", "data", "len"}
  BY DEF IsMsg
<1>2. /\ DOMAIN n = {"mMallocSize", "allocated", "data", "len"}
      /\ n.allocated = m.allocated /\ n.data = m.data /\ n.len = Len(m.data)
  BY <1>1
<1>3. SetLen(m) = n
  BY DEF SetLen
<1> HIDE DEF n
<1>4. IsMsg(n)
  BY <1>2 DEF IsMsg
<1> QED BY <1>2, <1>3, <1>4

(* A buffer for data of some length, filled with the data. *)
LEMMA FilledIs ==
  ASSUME NEW d, IsQueue(d)
  PROVE  LET m == [NewMsgOf(Len(d)) EXCEPT !.data = d] IN IsMsg(m) /\ m.data = d
<1> DEFINE o == NewMsgOf(Len(d))
           m == [o EXCEPT !.data = d]
<1>1. DOMAIN o = {"mMallocSize", "allocated", "data", "len"} /\ o.allocated = Len(d) + HEAD_LENGTH
  BY NewMsgOfIs
<1> HIDE DEF o
<1>2. /\ DOMAIN m = {"mMallocSize", "allocated", "data", "len"}
      /\ m.allocated = Len(d) + HEAD_LENGTH /\ m.data = d
  BY <1>1
<1>3. Len(d) \in Nat /\ HEAD_LENGTH \in Nat
  BY QueueDomain, MsgAssumption
<1> HIDE DEF m
<1>4. IsMsg(m)
  BY <1>2, <1>3 DEF IsMsg
<1> QED BY <1>2, <1>4 DEF m, o

LEMMA DupIs ==
  ASSUME NEW m, IsMsg(m)
  PROVE  IsMsg(Dup(m)) /\ Dup(m).data = m.data /\ Dup(m).len = Len(m.data)
<1> DEFINE d == m.data
           n == [NewMsgOf(Len(d)) EXCEPT !.data = d]
<1>1. IsQueue(d)
  BY DEF IsMsg
<1>2. IsMsg(n) /\ n.data = d
  <2> HIDE DEF d
  <2> QED BY <1>1, FilledIs
<1>3. Dup(m) = SetLen(n)
  BY DEF Dup
<1> HIDE DEF n
<1> QED BY <1>2, <1>3, SetLenIs

(* What is received of a message that is as long as its head says. *)
LEMMA ArrivedIs ==
  ASSUME NEW m, IsMsg(m), m.len = Len(m.data)
  PROVE  LET n == [NewMsgOf(m.len) EXCEPT !.data = SubSeq(m.data, 1, m.len), !.len = m.len]
         IN  IsMsg(n) /\ n.data = m.data /\ n.len = Len(n.data)
<1> DEFINE d == m.data
           k == Len(d)
           o == NewMsgOf(k)
           n == [o EXCEPT !.data = d, !.len = k]
<1>1. IsQueue(d)
  BY DEF IsMsg
<1>2. SubSeq(d, 1, k) = d
  BY <1>1, WholeText
<1>3. DOMAIN o = {"mMallocSize", "allocated", "data", "len"} /\ o.allocated = k + HEAD_LENGTH
  BY NewMsgOfIs
<1>4. k \in Nat /\ HEAD_LENGTH \in Nat
  BY <1>1, QueueDomain, MsgAssumption
<1>5. [NewMsgOf(m.len) EXCEPT !.data = SubSeq(m.data, 1, m.len), !.len = m.len] = n
  BY <1>2
<1> HIDE DEF o
<1>6. /\ DOMAIN n = {"mMallocSize", "allocated", "data", "len"}
      /\ n.allocated = k + HEAD_LENGTH /\ n.data = d /\ n.len = k
  BY <1>3
<1> HIDE DEF n
<1>7. IsMsg(n)
  BY <1>1, <1>4, <1>6 DEF IsMsg
<1>8. IsMsg(n) /\ n.data = m.data /\ n.len = Len(n.data)
  BY <1>6, <1>7
<1> QED BY <1>5, <1>8

-----------------------------------------------------------------------------
(* Reading, one action of the reader after the other: g has been read of   *)
(* the fields c, up to the offset at, and p is to be read yet.             *)

ReadSoFar(c, g, at, p) ==
  \E d : /\ IsQueue(g) /\ Fields(d) /\ c = g \o d
         /\ at = Len(Written(c, Len(g)))
         /\ g = <<>> => p = <<R("int")>>
         /\ g # <<>> => Reads(c[2], p, d)
         /\ Len(g) = 1 => p = Reader(c[1][2])

(* What a reader can do next, and what it is then. *)
LEMMA HeadOfReader ==
  ASSUME NEW r, NEW p, NEW d, Reads(r, p, d)
  PROVE  /\ Fields(d) /\ IsQueue(p)
         /\ p = <<>> => d = <<>>
         /\ p # <<>> =>
              \/ /\ d # <<>>
                 /\ \E kind \in Kinds \cup {"str"} :
                      Head(p) = R(kind) /\ OfKind(kind, Head(d)) /\ Reads(r, Tail(p), Tail(d))
              \/ /\ d # <<>>
                 /\ \E q : \E n \in Nat :
                      /\ Head(p) = <<"times", q>> /\ Head(d) = U32(n)
                      /\ Reads(r, FlattenSeq(Repeat(q, n)) \o Tail(p), Tail(d))
              \/ \E q : Head(p) = <<"okay", q>> /\ Reads(r, Chosen(r, q) \o Tail(p), d)
<1>1. PICK S : Good(r, S) /\ Continues(r, p, d, S)
  BY ReadsOn
<1>2. \A y, z : <<y, z>> \in S => Reads(r, y, z)
  BY <1>1 DEF Reads
<1>3. ASSUME p # <<>>, TakesField(p, d, S)
      PROVE  d # <<>> /\ \E kind \in Kinds \cup {"str"} :
                Head(p) = R(kind) /\ OfKind(kind, Head(d)) /\ Reads(r, Tail(p), Tail(d))
  BY <1>2, <1>3 DEF TakesField
<1>4. ASSUME p # <<>>, TakesCount(p, d, S)
      PROVE  d # <<>> /\ \E q : \E n \in Nat :
                /\ Head(p) = <<"times", q>> /\ Head(d) = U32(n)
                /\ Reads(r, FlattenSeq(Repeat(q, n)) \o Tail(p), Tail(d))
  BY <1>2, <1>4 DEF TakesCount
<1>5. ASSUME p # <<>>, Decides(r, p, d, S)
      PROVE  \E q : Head(p) = <<"okay", q>> /\ Reads(r, Chosen(r, q) \o Tail(p), d)
  BY <1>2, <1>5 DEF Decides
<1> QED BY <1>1, <1>3, <1>4, <1>5 DEF Continues

LEMMA Tags ==
  /\ \A kind : R(kind)[1] = "read" /\ R(kind)[2] = kind
  /\ \A q : <<"times", q>>[1] = "times" /\ <<"times", q>>[2] = q
  /\ \A q : <<"okay", q>>[1] = "okay" /\ <<"okay", q>>[2] = q
  /\ \A v : I32(v)[2] = v
BY DEF R, I32

LEMMA FieldToRead ==
  ASSUME NEW r, NEW p, NEW d, Reads(r, p, d), p # <<>>, Head(p)[1] = "read"
  PROVE  /\ d # <<>>
         /\ \E kind \in Kinds \cup {"str"} :
              Head(p) = R(kind) /\ OfKind(kind, Head(d)) /\ Reads(r, Tail(p), Tail(d))
<1> DEFINE Takes == /\ d # <<>>
                    /\ \E kind \in Kinds \cup {"str"} :
                         Head(p) = R(kind) /\ OfKind(kind, Head(d)) /\ Reads(r, Tail(p), Tail(d))
           G(q, n) == /\ Head(p) = <<"times", q>> /\ Head(d) = U32(n)
                      /\ Reads(r, FlattenSeq(Repeat(q, n)) \o Tail(p), Tail(d))
           H(q) == Head(p) = <<"okay", q>> /\ Reads(r, Chosen(r, q) \o Tail(p), d)
<1>1. Takes \/ (d # <<>> /\ \E q : \E n \in Nat : G(q, n)) \/ \E q : H(q)
  BY HeadOfReader
<1>2. \A q : \A n : ~G(q, n) /\ ~H(q)
  BY Tags
<1> HIDE DEF Takes, G, H
<1>3. Takes
  BY <1>1, <1>2
<1> QED BY <1>3 DEF Takes

LEMMA CountToRead ==
  ASSUME NEW r, NEW p, NEW d, Reads(r, p, d), p # <<>>, Head(p)[1] = "times"
  PROVE  /\ d # <<>>
         /\ \E n \in Nat : /\ Head(d) = U32(n)
                          /\ Reads(r, FlattenSeq(Repeat(Head(p)[2], n)) \o Tail(p), Tail(d))
<1> DEFINE F(q, n) == /\ Head(p) = <<"times", q>> /\ Head(d) = U32(n)
                      /\ Reads(r, FlattenSeq(Repeat(q, n)) \o Tail(p), Tail(d))
           Counts == d # <<>> /\ \E q : \E n \in Nat : F(q, n)
<1>1. \/ \E kind \in Kinds \cup {"str"} : Head(p) = R(kind)
      \/ Counts
      \/ \E q : Head(p) = <<"okay", q>>
  BY HeadOfReader
<1>2. (\A k : Head(p) # R(k)) /\ \A q : Head(p) # <<"okay", q>>
  BY Tags
<1>3. Counts
  <2> HIDE DEF Counts
  <2> QED BY <1>1, <1>2
<1> HIDE DEF F
<1>4. PICK q : \E n \in Nat : F(q, n)
  BY <1>3
<1>5. PICK n \in Nat : F(q, n)
  BY <1>4
<1>6. /\ Head(p) = <<"times", q>> /\ Head(d) = U32(n)
      /\ Reads(r, FlattenSeq(Repeat(q, n)) \o Tail(p), Tail(d))
  BY <1>5 DEF F
<1>7. Head(p)[2] = q
  BY <1>6, Tags
<1> QED BY <1>3, <1>6, <1>7

LEMMA ChoiceToRead ==
  ASSUME NEW r, NEW p, NEW d, Reads(r, p, d), p # <<>>, Head(p)[1] = "okay"
  PROVE  Reads(r, Chosen(r, Head(p)[2]) \o Tail(p), d)
<1> DEFINE F(q) == Head(p) = <<"okay", q>> /\ Reads(r, Chosen(r, q) \o Tail(p), d)
           Chooses == \E q : F(q)
<1>1. \/ \E kind \in Kinds \cup {"str"} : Head(p) = R(kind)
      \/ \E q : \E n \in Nat : Head(p) = <<"times", q>>
      \/ Chooses
  BY HeadOfReader
<1>2. (\A k : Head(p) # R(k)) /\ \A q : Head(p) # <<"times", q>>
  BY Tags
<1>3. Chooses
  <2> HIDE DEF Chooses
  <2> QED BY <1>1, <1>2
<1> HIDE DEF F
<1>4. PICK q : F(q)
  BY <1>3
<1>5. Head(p) = <<"okay", q>> /\ Reads(r, Chosen(r, q) \o Tail(p), d)
  BY <1>4 DEF F
<1>6. Head(p)[2] = q
  BY <1>5, Tags
<1> QED BY <1>5, <1>6

(* No reader of a message starts by asking for the result. *)
LEMMA ReaderStarts ==
  ASSUME NEW t, Reader(t) # <<>>
  PROVE  Head(Reader(t))[1] # "okay"
<1> DEFINE times == <<<<"times", DecodeRoom>>>>
           users == <<<<"times", DecodeUser>>>>
<1>1. \/ Reader(t) = <<R("str")>>
      \/ Reader(t) = <<R("int"), R("str"), <<"okay", DecodeUser>>>>
      \/ Reader(t) = DecodeRoom \o users
      \/ Reader(t) = times
      \/ Reader(t) = <<R("u32"), R("str")>>
      \/ Reader(t) = <<R("str"), R("str")>>
      \/ Reader(t) = <<R("int"), R("str"), R("str")>>
      \/ Reader(t) = <<>>
  BY DEF Reader
<1>2. Head(DecodeRoom \o users) = R("u32")
  <2>1. DecodeRoom \in Seq({R("u32"), R("str"), <<"times", <<R("u64")>>>>})
        /\ DecodeRoom # <<>> /\ Head(DecodeRoom) = R("u32")
    BY DEF DecodeRoom
  <2>2. IsQueue(DecodeRoom) /\ IsQueue(users)
    BY <2>1, AnySeqIsQueue, SingleQueue
  <2> HIDE DEF users
  <2> QED BY <2>1, <2>2, TailOfChained
<1>3. Head(times)[1] = "times"
  BY Tags
<1>4. /\ Head(<<R("str")>>) = R("str")
      /\ Head(<<R("int"), R("str"), <<"okay", DecodeUser>>>>) = R("int")
      /\ Head(<<R("u32"), R("str")>>) = R("u32")
      /\ Head(<<R("str"), R("str")>>) = R("str")
      /\ Head(<<R("int"), R("str"), R("str")>>) = R("int")
  OBVIOUS
<1> HIDE DEF times, users
<1> QED BY <1>1, <1>2, <1>3, <1>4, Tags

(* A content starts with its type, and the rest is for the type's reader. *)
LEMMA StartOfContent ==
  ASSUME NEW c, WellMade(c)
  PROVE  /\ Fields(c) /\ c # <<>>
         /\ Head(c) = I32(c[1][2])
         /\ Reads(c[2], Reader(c[1][2]), Tail(c))
<1>1. PICK t, d : c = <<I32(t)>> \o d /\ Reads(c[2], Reader(t), d)
  BY DEF WellMade
<1> DEFINE a == <<I32(t)>>
<1>2. IsQueue(a) /\ a # <<>> /\ Head(a) = I32(t) /\ Tail(a) = <<>>
  BY SingleIs
<1>3. IsQueue(d)
  BY <1>1, ReadsQueues DEF Fields
<1> HIDE DEF a
<1>4. a \o d # <<>> /\ Head(a \o d) = I32(t) /\ Tail(a \o d) = <<>> \o d
  BY <1>2, <1>3, TailOfChained
<1>5. <<>> \o d = d
  BY <1>3, EmptyQueue, ChainedByThree
<1>6. Fields(c) /\ IsQueue(c)
  BY DEF WellMade, Fields
<1>7. c # <<>> /\ Head(c) = I32(t) /\ Tail(c) = d
  BY <1>1, <1>4, <1>5 DEF a
<1>8. Head(c) = c[1]
  BY <1>6, <1>7, HeadAndTail
<1>9. c[1][2] = t
  BY <1>7, <1>8, Tags
<1> QED BY <1>1, <1>6, <1>7, <1>9

LEMMA TailOfFields ==
  ASSUME NEW d, Fields(d), d # <<>>
  PROVE  IsField(Head(d)) /\ Fields(Tail(d))
<1>1. /\ IsQueue(Tail(d)) /\ Len(d) \in Nat \ {0} /\ Len(Tail(d)) = Len(d) - 1
      /\ Head(d) = d[1]
      /\ \A i \in 1 .. Len(d) - 1 : Tail(d)[i] = d[i + 1]
  BY HeadAndTail DEF Fields
<1>2. 1 \in 1 .. Len(d) /\ \A i \in 1 .. Len(d) - 1 : i + 1 \in 1 .. Len(d)
  BY <1>1
<1>3. IsField(Head(d))
  BY <1>1, <1>2 DEF Fields
<1>4. \A i \in 1 .. Len(d) - 1 : IsField(Tail(d)[i])
  BY <1>1, <1>2 DEF Fields
<1> QED BY <1>1, <1>3, <1>4 DEF Fields

LEMMA NowRead ==
  ASSUME NEW c, WellMade(c), NEW g, NEW d, IsQueue(g), Fields(d), c = g \o d, d # <<>>,
         NEW p, g = <<>> => p = Reader(c[1][2]), g # <<>> => Reads(c[2], p, Tail(d))
  PROVE  ReadSoFar(c, Append(g, Head(d)), Len(Written(c, Len(g) + 1)), p)
<1> DEFINE h == Append(g, Head(d))
<1>1. IsQueue(d)
  BY DEF Fields
<1>2. IsQueue(h) /\ h # <<>> /\ Len(h) = Len(g) + 1 /\ h \o Tail(d) = g \o d
  BY <1>1, OneMoreDone
<1>3. Fields(Tail(d))
  BY TailOfFields
<1>4. Len(g) \in Nat
  BY QueueDomain
<1>5. g = <<>> => Reads(c[2], p, Tail(d))
  <2> SUFFICES ASSUME g = <<>> PROVE Reads(c[2], p, Tail(d))
    OBVIOUS
  <2>1. <<>> \o d = d
    BY <1>1, EmptyQueue, ChainedByThree
  <2>2. c = d
    BY <2>1
  <2> QED BY <2>2, StartOfContent
<1>6. Len(h) = 1 => p = Reader(c[1][2])
  <2> SUFFICES ASSUME Len(h) = 1 PROVE g = <<>>
    OBVIOUS
  <2>1. Len(g) = 0
    BY <1>2, <1>4
  <2> QED BY <2>1, EmptySeq DEF IsQueue
<1> HIDE DEF h
<1>7. ReadSoFar(c, h, Len(Written(c, Len(g) + 1)), p)
  <2> DEFINE t == Tail(d)
             at == Len(Written(c, Len(g) + 1))
  <2>1. IsQueue(h) /\ Fields(t) /\ c = h \o t
    BY <1>2, <1>3
  <2>2. at = Len(Written(c, Len(h)))
    BY <1>2
  <2>3. h # <<>> /\ Reads(c[2], p, t)
    BY <1>2, <1>5
  <2> HIDE DEF t, at
  <2>4. ReadSoFar(c, h, at, p)
    BY <1>6, <2>1, <2>2, <2>3 DEF ReadSoFar
  <2> QED BY <2>4 DEF at
<1> QED BY <1>7 DEF h

(* What is read next, and where. *)
LEMMA NextToRead ==
  ASSUME NEW c, WellMade(c), NEW g, NEW d, IsQueue(g), Fields(d), c = g \o d, d # <<>>
  PROVE  Len(g) \in 0 .. Len(c) - 1 /\ c[Len(g) + 1] = Head(d)
BY OneMoreDone DEF Fields

LEMMA NumberStep ==
  ASSUME NEW c, WellMade(c), NEW g, NEW at, NEW p, ReadSoFar(c, g, at, p),
         p # <<>>, Head(p)[1] = "read", Head(p)[2] # "str"
  PROVE  LET kind == Head(p)[2]    v == NumberAt(Written(c, Len(c)), at, Width[kind])
         IN  ReadSoFar(c, Append(g, <<kind, v>>), at + Width[kind],
                       IF g = <<>> THEN Reader(v) ELSE Tail(p))
<1> DEFINE kind == Head(p)[2]
           num == NumberAt(Written(c, Len(c)), at, Width[kind])
           next == IF g = <<>> THEN Reader(num) ELSE Tail(p)
<1>1. PICK d : /\ IsQueue(g) /\ Fields(d) /\ c = g \o d
               /\ at = Len(Written(c, Len(g)))
               /\ g = <<>> => p = <<R("int")>>
               /\ g # <<>> => Reads(c[2], p, d)
  BY DEF ReadSoFar
<1>2. CASE g = <<>>
  <2>1. IsQueue(d)
    BY <1>1 DEF Fields
  <2>2. c = d
    BY <1>1, <1>2, <2>1, EmptyQueue, ChainedByThree
  <2>3. kind = "int" /\ d # <<>> /\ Head(d) = <<"int", c[1][2]>>
    <3>1. Head(p) = R("int")
      BY <1>1, <1>2
    <3> QED BY <2>2, <3>1, Tags, StartOfContent DEF I32
  <2>4. Len(g) \in 0 .. Len(c) - 1 /\ c[Len(g) + 1] = <<"int", c[1][2]>>
    BY <1>1, <2>3, NextToRead
  <2>5. /\ NumberAt(Written(c, Len(c)), at, Width["int"]) = c[1][2]
        /\ Len(Written(c, Len(g) + 1)) = at + Width["int"]
    <3>1. "int" \in Kinds /\ Fields(c)
      BY StartOfContent DEF Kinds
    <3> DEFINE n == Len(g)
               v == c[1][2]
    <3>2. n \in 0 .. Len(c) - 1 /\ c[n + 1] = <<"int", v>> /\ at = Len(Written(c, n))
      BY <1>1, <2>4
    <3> HIDE DEF n, v
    <3>3. /\ NumberAt(Written(c, Len(c)), Len(Written(c, n)), Width["int"]) = v
          /\ Len(Written(c, n + 1)) = Len(Written(c, n)) + Width["int"]
      BY <3>1, <3>2, ReadsANumber
    <3> QED BY <3>2, <3>3 DEF n, v
  <2>6. num = c[1][2] /\ next = Reader(c[1][2])
    BY <1>2, <2>3, <2>5
  <2>7. ReadSoFar(c, Append(g, Head(d)), Len(Written(c, Len(g) + 1)), next)
    <3> HIDE DEF num, next
    <3> QED BY <1>1, <1>2, <2>3, <2>6, NowRead
  <2>8. Head(d) = <<kind, num>> /\ Len(Written(c, Len(g) + 1)) = at + Width[kind]
    BY <2>3, <2>5, <2>6
  <2> HIDE DEF kind, num, next
  <2>9. ReadSoFar(c, Append(g, <<kind, num>>), at + Width[kind], next)
    BY <2>7, <2>8
  <2> QED BY <2>9 DEF kind, num, next
<1>3. CASE g # <<>>
  <2>1. /\ d # <<>>
        /\ \E k \in Kinds \cup {"str"} :
             Head(p) = R(k) /\ OfKind(k, Head(d)) /\ Reads(c[2], Tail(p), Tail(d))
    BY <1>1, <1>3, FieldToRead
  <2>2. PICK k \in Kinds \cup {"str"} :
             Head(p) = R(k) /\ OfKind(k, Head(d)) /\ Reads(c[2], Tail(p), Tail(d))
    BY <2>1
  <2>3. k = kind /\ k # "str" /\ k \in Kinds
    BY <2>2, Tags
  <2>4. PICK v : Head(d) = <<k, v>>
    BY <2>2, <2>3 DEF OfKind
  <2>5. Len(g) \in 0 .. Len(c) - 1 /\ c[Len(g) + 1] = <<k, v>>
    BY <1>1, <2>1, <2>4, NextToRead
  <2>6. /\ NumberAt(Written(c, Len(c)), at, Width[k]) = v
        /\ Len(Written(c, Len(g) + 1)) = at + Width[k]
    <3>1. Fields(c)
      BY StartOfContent
    <3> DEFINE n == Len(g)
    <3>2. n \in 0 .. Len(c) - 1 /\ c[n + 1] = <<k, v>> /\ at = Len(Written(c, n)) /\ k \in Kinds
      BY <1>1, <2>3, <2>5
    <3> HIDE DEF n
    <3>3. /\ NumberAt(Written(c, Len(c)), Len(Written(c, n)), Width[k]) = v
          /\ Len(Written(c, n + 1)) = Len(Written(c, n)) + Width[k]
      BY <3>1, <3>2, ReadsANumber
    <3> QED BY <3>2, <3>3 DEF n
  <2>7. ReadSoFar(c, Append(g, Head(d)), Len(Written(c, Len(g) + 1)), Tail(p))
    BY <1>1, <1>3, <2>1, <2>2, NowRead
  <2>8. Head(d) = <<kind, num>> /\ Len(Written(c, Len(g) + 1)) = at + Width[kind] /\ next = Tail(p)
    BY <1>3, <2>3, <2>4, <2>6
  <2> HIDE DEF kind, num, next
  <2>9. ReadSoFar(c, Append(g, <<kind, num>>), at + Width[kind], next)
    BY <2>7, <2>8
  <2> QED BY <2>9 DEF kind, num, next
<1> QED BY <1>2, <1>3

LEMMA StringStep ==
  ASSUME NEW c, WellMade(c), NEW g, NEW at, NEW p, ReadSoFar(c, g, at, p),
         p # <<>>, Head(p) = R("str")
  PROVE  LET data == Written(c, Len(c))
             len == NumberAt(data, at, Width["u64"])
             from == at + Width["u64"]
         IN  ReadSoFar(c,
                       Append(g, Str(IF len \in 0 .. Len(data) - from
                                     THEN [i \in 1 .. len |-> NumberAt(data, from + i - 1, 1)]
                                     ELSE Unset)),
                       from + len, Tail(p))
<1> DEFINE data == Written(c, Len(c))
           len == NumberAt(data, at, Width["u64"])
           from == at + Width["u64"]
           str == IF len \in 0 .. Len(data) - from
                  THEN [i \in 1 .. len |-> NumberAt(data, from + i - 1, 1)] ELSE Unset
<1>1. PICK d : /\ IsQueue(g) /\ Fields(d) /\ c = g \o d
               /\ at = Len(Written(c, Len(g)))
               /\ g = <<>> => p = <<R("int")>>
               /\ g # <<>> => Reads(c[2], p, d)
  BY DEF ReadSoFar
<1>2. g # <<>>
  <2>1. Head(<<R("int")>>) = R("int") /\ "int" # "str"
    OBVIOUS
  <2> QED BY <1>1, <2>1, Tags
<1>3. /\ d # <<>>
      /\ \E k \in Kinds \cup {"str"} :
           Head(p) = R(k) /\ OfKind(k, Head(d)) /\ Reads(c[2], Tail(p), Tail(d))
  <2>1. Head(p)[1] = "read"
    BY Tags
  <2> QED BY <1>1, <1>2, <2>1, FieldToRead
<1>4. OfKind("str", Head(d)) /\ Reads(c[2], Tail(p), Tail(d))
  BY <1>3, Tags
<1>5. PICK s : IsQueue(s) /\ Head(d) = Str(s)
  BY <1>4 DEF OfKind
<1>6. Len(g) \in 0 .. Len(c) - 1 /\ c[Len(g) + 1] = Str(s)
  BY <1>1, <1>3, <1>5, NextToRead
<1>7. Width["u64"] = 8
  BY Widths
<1>8. Fields(c)
  BY StartOfContent
<1>9. /\ len = Len(s)
      /\ Len(s) \in 0 .. Len(data) - from
      /\ [i \in 1 .. Len(s) |-> NumberAt(data, from + i - 1, 1)] = s
      /\ Len(Written(c, Len(g) + 1)) = from + Len(s)
  <2>1. LET n == Len(g)
            text == Written(c, Len(c))
            start == Len(Written(c, n)) + 8
        IN  /\ NumberAt(text, Len(Written(c, n)), 8) = Len(s)
            /\ Len(s) \in 0 .. Len(text) - start
            /\ [i \in 1 .. Len(s) |-> NumberAt(text, start + i - 1, 1)] = s
            /\ Len(Written(c, n + 1)) = start + Len(s)
    BY <1>5, <1>6, <1>8, ReadsAString
  <2> QED BY <1>1, <1>7, <2>1
<1>10. str = s
  <2> HIDE DEF data, len, from
  <2> QED BY <1>9
<1>11. ReadSoFar(c, Append(g, Head(d)), Len(Written(c, Len(g) + 1)), Tail(p))
  BY <1>1, <1>2, <1>3, <1>4, NowRead
<1>12. Head(d) = Str(str) /\ Len(Written(c, Len(g) + 1)) = from + len
  BY <1>5, <1>9, <1>10
<1> HIDE DEF data, len, from, str
<1>13. ReadSoFar(c, Append(g, Str(str)), from + len, Tail(p))
  BY <1>11, <1>12
<1> QED BY <1>13 DEF data, len, from, str

LEMMA CountStep ==
  ASSUME NEW c, WellMade(c), NEW g, NEW at, NEW p, ReadSoFar(c, g, at, p),
         p # <<>>, Head(p)[1] = "times"
  PROVE  LET count == NumberAt(Written(c, Len(c)), at, Width["u32"])
         IN  ReadSoFar(c, Append(g, U32(count)), at + Width["u32"],
                       FlattenSeq([i \in 1 .. count |-> Head(p)[2]]) \o Tail(p))
<1> DEFINE count == NumberAt(Written(c, Len(c)), at, Width["u32"])
           next == FlattenSeq([i \in 1 .. count |-> Head(p)[2]]) \o Tail(p)
<1>1. PICK d : /\ IsQueue(g) /\ Fields(d) /\ c = g \o d
               /\ at = Len(Written(c, Len(g)))
               /\ g = <<>> => p = <<R("int")>>
               /\ g # <<>> => Reads(c[2], p, d)
  BY DEF ReadSoFar
<1>2. g # <<>>
  <2>1. Head(<<R("int")>>) = R("int") /\ "read" # "times"
    OBVIOUS
  <2> QED BY <1>1, <2>1, Tags
<1>3. /\ d # <<>>
      /\ \E k \in Nat : /\ Head(d) = U32(k)
                        /\ Reads(c[2], FlattenSeq(Repeat(Head(p)[2], k)) \o Tail(p), Tail(d))
  BY <1>1, <1>2, CountToRead
<1>4. PICK n \in Nat : /\ Head(d) = U32(n)
                       /\ Reads(c[2], FlattenSeq(Repeat(Head(p)[2], n)) \o Tail(p), Tail(d))
  BY <1>3
<1>5. Len(g) \in 0 .. Len(c) - 1 /\ c[Len(g) + 1] = U32(n)
  BY <1>1, <1>3, <1>4, NextToRead
<1>6. /\ NumberAt(Written(c, Len(c)), at, Width["u32"]) = n
      /\ Len(Written(c, Len(g) + 1)) = at + Width["u32"]
  <2> DEFINE k == Len(g)
  <2>1. k \in 0 .. Len(c) - 1 /\ c[k + 1] = <<"u32", n>> /\ at = Len(Written(c, k))
    BY <1>1, <1>5 DEF U32
  <2>2. "u32" \in Kinds /\ Fields(c)
    BY StartOfContent DEF Kinds
  <2> HIDE DEF k
  <2>3. /\ NumberAt(Written(c, Len(c)), Len(Written(c, k)), Width["u32"]) = n
        /\ Len(Written(c, k + 1)) = Len(Written(c, k)) + Width["u32"]
    BY <2>1, <2>2, ReadsANumber
  <2> QED BY <2>1, <2>3 DEF k
<1>7. next = FlattenSeq(Repeat(Head(p)[2], n)) \o Tail(p)
  BY <1>6 DEF Repeat
<1> HIDE DEF next
<1>8. ReadSoFar(c, Append(g, Head(d)), Len(Written(c, Len(g) + 1)), next)
  <2>1. Reads(c[2], next, Tail(d))
    BY <1>4, <1>7
  <2> QED BY <1>1, <1>2, <1>3, <2>1, NowRead
<1>9. count = n
  BY <1>6
<1> HIDE DEF count
<1>10. ReadSoFar(c, Append(g, U32(count)), at + Width["u32"], next)
  BY <1>4, <1>6, <1>8, <1>9
<1> QED BY <1>10 DEF count, next

LEMMA ChoiceStep ==
  ASSUME NEW c, WellMade(c), NEW g, NEW at, NEW p, ReadSoFar(c, g, at, p),
         p # <<>>, Head(p)[1] = "okay"
  PROVE  ReadSoFar(c, g, at, (IF g[2] = I32(0) THEN Head(p)[2] ELSE <<>>) \o Tail(p))
<1> DEFINE next == (IF g[2] = I32(0) THEN Head(p)[2] ELSE <<>>) \o Tail(p)
<1>1. PICK d : /\ IsQueue(g) /\ Fields(d) /\ c = g \o d
               /\ at = Len(Written(c, Len(g)))
               /\ g = <<>> => p = <<R("int")>>
               /\ g # <<>> => Reads(c[2], p, d)
               /\ Len(g) = 1 => p = Reader(c[1][2])
  BY DEF ReadSoFar
<1>2. g # <<>>
  <2>1. Head(<<R("int")>>) = R("int") /\ "read" # "okay"
    OBVIOUS
  <2> QED BY <1>1, <2>1, Tags
<1>3. Len(g) \in Nat /\ Len(g) # 0 /\ Len(g) # 1
  <2>1. Len(g) \in Nat
    BY <1>1, QueueDomain
  <2>2. Len(g) # 0
    BY <1>1, <1>2, EmptySeq DEF IsQueue
  <2>3. Len(g) # 1
    BY <1>1, ReaderStarts
  <2> QED BY <2>1, <2>2, <2>3
<1>4. g[2] = c[2]
  <2>1. 2 \in 1 .. Len(g)
    <3> DEFINE n == Len(g)
    <3>1. n \in Nat /\ n # 0 /\ n # 1
      BY <1>3
    <3> HIDE DEF n
    <3>2. 2 \in 1 .. n
      BY <3>1
    <3> QED BY <3>2 DEF n
  <2>2. \A i \in 1 .. Len(g) : (g \o d)[i] = g[i]
    <3>1. IsQueue(g) /\ IsQueue(d)
      BY <1>1 DEF Fields
    <3> QED BY <3>1, Chained
  <2> QED BY <1>1, <2>1, <2>2
<1>5. Reads(c[2], Chosen(c[2], Head(p)[2]) \o Tail(p), d)
  BY <1>1, <1>2, ChoiceToRead
<1>6. next = Chosen(c[2], Head(p)[2]) \o Tail(p)
  BY <1>4 DEF Chosen
<1> HIDE DEF next
<1>7. Reads(c[2], next, d)
  BY <1>5, <1>6
<1>8. ReadSoFar(c, g, at, next)
  BY <1>1, <1>2, <1>3, <1>7 DEF ReadSoFar
<1> QED BY <1>8 DEF next

(* Where a reader ends. *)
LEMMA EndOfReading ==
  ASSUME NEW c, WellMade(c), NEW g, NEW at, ReadSoFar(c, g, at, <<>>)
  PROVE  g = c /\ at = Len(Written(c, Len(c)))
<1>1. PICK d : /\ IsQueue(g) /\ Fields(d) /\ c = g \o d
               /\ at = Len(Written(c, Len(g)))
               /\ g = <<>> => <<>> = <<R("int")>>
               /\ g # <<>> => Reads(c[2], <<>>, d)
  BY DEF ReadSoFar
<1>2. g # <<>>
  BY <1>1
<1>3. d = <<>>
  BY <1>1, <1>2, HeadOfReader
<1>4. g \o <<>> = g
  BY <1>1, EmptyQueue, ChainedByThree
<1> QED BY <1>1, <1>3, <1>4

LEMMA ReadIsPrefix ==
  ASSUME NEW c, NEW g, NEW at, NEW p, ReadSoFar(c, g, at, p)
  PROVE  IsPrefix(g, c)
BY PrefixOfChained DEF ReadSoFar, Fields

LEMMA StartOfReading ==
  ASSUME NEW c, WellMade(c)
  PROVE  ReadSoFar(c, <<>>, 0, <<R("int")>>) /\ IsPrefix(<<>>, c)
<1>1. Fields(c) /\ IsQueue(c)
  BY StartOfContent DEF Fields
<1>2. <<>> \o c = c /\ IsQueue(<<>>) /\ Len(<<>>) = 0
  BY <1>1, EmptyQueue, ChainedByThree
<1>3. Len(Written(c, 0)) = 0
  BY <1>1, WrittenIs
<1>4. ReadSoFar(c, <<>>, 0, <<R("int")>>)
  BY <1>1, <1>2, <1>3 DEF ReadSoFar
<1> QED BY <1>4, ReadIsPrefix

-----------------------------------------------------------------------------
(* Writing, one piece after the other: rest is still to be written of the  *)
(* fields c, and data is what has been.                                    *)

WrittenSoFar(c, rest, data) ==
  \E w : IsQueue(w) /\ IsQueue(rest) /\ AllPieces(c) = w \o rest /\ data = FlattenSeq(w)

LEMMA StartOfWriting ==
  ASSUME NEW c, WellMade(c)
  PROVE  WrittenSoFar(c, AllPieces(c), <<>>)
<1>1. IsQueue(AllPieces(c))
  BY PiecesOfFields DEF WellMade
<1>2. IsQueue(<<>>) /\ FlattenSeq(<<>>) = <<>>
  BY EmptyQueue, FlattenAppend
<1>3. <<>> \o AllPieces(c) = AllPieces(c)
  <2> DEFINE q == AllPieces(c)
  <2>1. IsQueue(q)
    BY <1>1
  <2> HIDE DEF q
  <2>2. <<>> \o q = q
    BY <1>2, <2>1, ChainedByThree
  <2> QED BY <2>2 DEF q
<1> QED BY <1>1, <1>2, <1>3 DEF WrittenSoFar

LEMMA WriteStep ==
  ASSUME NEW c, WellMade(c), NEW rest, NEW data, IsQueue(data),
         WrittenSoFar(c, rest, data), rest # <<>>
  PROVE  IsQueue(Head(rest)) /\ WrittenSoFar(c, Tail(rest), data \o Head(rest))
<1>1. PICK w : IsQueue(w) /\ IsQueue(rest) /\ AllPieces(c) = w \o rest /\ data = FlattenSeq(w)
  BY DEF WrittenSoFar
<1> DEFINE x == Head(rest)
           v == Append(w, x)
           P == AllPieces(c)
<1>2. /\ IsQueue(v) /\ v = w \o <<x>> /\ IsQueue(Tail(rest)) /\ v \o Tail(rest) = w \o rest
      /\ Len(w) \in 0 .. Len(w \o rest) - 1 /\ (w \o rest)[Len(w) + 1] = x
  BY <1>1, OneMoreDone
<1>3. /\ IsQueue(P) /\ \A k \in 1 .. Len(P) : IsQueue(P[k])
  BY PiecesOfFields DEF WellMade
<1>4. Len(P) \in Nat
  BY <1>3, QueueDomain
<1> HIDE DEF x, v, P
<1>5. IsQueue(x)
  <2>1. Len(w) + 1 \in 1 .. Len(P) /\ P[Len(w) + 1] = x
    BY <1>1, <1>2, <1>4 DEF P
  <2> QED BY <1>3, <2>1
<1>6. FlattenSeq(v) = data \o x
  BY <1>1, <1>2, <1>5, FlattenOneMore
<1>7. P = v \o Tail(rest)
  BY <1>1, <1>2 DEF P
<1> QED BY <1>2, <1>5, <1>6, <1>7 DEF WrittenSoFar, x, P

LEMMA EndOfWriting ==
  ASSUME NEW c, WellMade(c), NEW data, WrittenSoFar(c, <<>>, data)
  PROVE  data = Written(c, Len(c))
<1>1. PICK w : IsQueue(w) /\ AllPieces(c) = w \o <<>> /\ data = FlattenSeq(w)
  BY DEF WrittenSoFar
<1>2. w \o <<>> = w
  BY <1>1, EmptyQueue, ChainedByThree
<1>3. Written(c, Len(c)) = FlattenSeq(AllPieces(c))
  BY WrittenIs DEF WellMade
<1> QED BY <1>1, <1>2, <1>3

-----------------------------------------------------------------------------
(* The invariant: what is done with a message, and how far it is.          *)

MessagesInv ==
  /\ pc \in {"idle", "write", "overrun", "ready", "sent", "read"}
  /\ IsMsg(msg)
  /\ pc = "idle" => content = <<>>
  /\ pc # "idle" => WellMade(content)
  /\ pc \in {"write", "overrun"} => IsGrowing(msg) /\ WrittenSoFar(content, toWrite, msg.data)
  /\ pc = "overrun" => HEAD_LENGTH + Len(msg.data) + Len(Head(toWrite)) > PageSize
  /\ pc \in {"ready", "sent", "read"} =>
       msg.data = Written(content, Len(content)) /\ msg.len = Len(msg.data)
  /\ pc # "read" => got = <<>> /\ mReadOffset = 0
  /\ pc = "read" => ReadSoFar(content, got, mReadOffset, toRead)

LEMMA InitMessages == Init => MessagesInv
BY NewMsgIs DEF Init, MessagesInv, IsGrowing

LEMMA MessagesStep == MessagesInv /\ [Next]_vars => MessagesInv'
<1> SUFFICES ASSUME MessagesInv, [Next]_vars PROVE MessagesInv'
  OBVIOUS
<1>1. CASE Composes
  <2>1. PICK c \in Contents : content' = c /\ toWrite' = AllPieces(c)
    BY <1>1 DEF Composes, AllPieces, PiecesOf
  <2>2. WellMade(c)
    BY ContentsMade
  <2>3. WrittenSoFar(c, AllPieces(c), <<>>)
    BY <2>2, StartOfWriting
  <2>4. IsGrowing(NewMsg) /\ NewMsg.data = <<>> /\ IsMsg(NewMsg)
    BY NewMsgIs DEF IsGrowing
  <2>5. pc = "idle" /\ pc' = "write" /\ msg' = NewMsg /\ got' = got /\ mReadOffset' = mReadOffset
    BY <1>1 DEF Composes, reading
  <2> QED BY <2>1, <2>2, <2>3, <2>4, <2>5 DEF MessagesInv
<1>2. CASE Writes
  <2>1. /\ pc = "write" /\ toWrite # <<>> /\ Holds(msg, Head(toWrite))
        /\ msg' = WriteByte(msg, Head(toWrite)) /\ toWrite' = Tail(toWrite)
        /\ pc' = pc /\ content' = content /\ got' = got /\ mReadOffset' = mReadOffset
    BY <1>2 DEF Writes, reading
  <2>2. /\ IsMsg(msg) /\ IsGrowing(msg) /\ IsQueue(msg.data) /\ WellMade(content)
        /\ WrittenSoFar(content, toWrite, msg.data)
        /\ got = <<>> /\ mReadOffset = 0
    BY <2>1 DEF MessagesInv, IsMsg
  <2>3. IsQueue(Head(toWrite)) /\ WrittenSoFar(content, Tail(toWrite), msg.data \o Head(toWrite))
    BY <2>1, <2>2, WriteStep
  <2>4. IsGrowing(msg') /\ msg'.data = msg.data \o Head(toWrite)
    BY <2>1, <2>2, <2>3, WriteByteIs
  <2>5. IsMsg(msg')
    BY <2>4 DEF IsGrowing
  <2> QED BY <2>1, <2>2, <2>3, <2>4, <2>5 DEF MessagesInv
<1>3. CASE Overruns
  <2>1. /\ pc = "write" /\ toWrite # <<>> /\ ~Holds(msg, Head(toWrite)) /\ pc' = "overrun"
        /\ msg' = msg /\ toWrite' = toWrite /\ content' = content
        /\ got' = got /\ mReadOffset' = mReadOffset
    BY <1>3 DEF Overruns, reading
  <2>2. /\ IsMsg(msg) /\ IsGrowing(msg) /\ IsQueue(msg.data) /\ WellMade(content)
        /\ WrittenSoFar(content, toWrite, msg.data)
        /\ got = <<>> /\ mReadOffset = 0
    BY <2>1 DEF MessagesInv, IsMsg
  <2>3. IsQueue(Head(toWrite))
    BY <2>1, <2>2, WriteStep
  <2>4. HEAD_LENGTH + Len(msg.data) + Len(Head(toWrite)) > PageSize
    BY <2>1, <2>2, <2>3, WriteByteIs
  <2> QED BY <2>1, <2>2, <2>4 DEF MessagesInv
<1>4. CASE SetsLen
  <2>1. /\ pc = "write" /\ toWrite = <<>> /\ pc' = "ready" /\ msg' = SetLen(msg)
        /\ content' = content /\ got' = got /\ mReadOffset' = mReadOffset
    BY <1>4 DEF SetsLen, reading
  <2>2. /\ IsMsg(msg) /\ WellMade(content) /\ WrittenSoFar(content, <<>>, msg.data)
        /\ got = <<>> /\ mReadOffset = 0
    BY <2>1 DEF MessagesInv
  <2>3. msg.data = Written(content, Len(content))
    BY <2>2, EndOfWriting
  <2>4. IsMsg(msg') /\ msg'.data = msg.data /\ msg'.len = Len(msg.data)
    BY <2>1, <2>2, SetLenIs
  <2> QED BY <2>1, <2>2, <2>3, <2>4 DEF MessagesInv
<1>5. CASE Dups
  <2>1. /\ pc = "ready" /\ pc' = "sent" /\ msg' = Dup(msg)
        /\ content' = content /\ got' = got /\ mReadOffset' = mReadOffset
    BY <1>5 DEF Dups, reading
  <2>2. /\ IsMsg(msg) /\ WellMade(content) /\ msg.data = Written(content, Len(content))
        /\ got = <<>> /\ mReadOffset = 0
    BY <2>1 DEF MessagesInv
  <2>3. IsMsg(msg') /\ msg'.data = msg.data /\ msg'.len = Len(msg.data)
    BY <2>1, <2>2, DupIs
  <2> QED BY <2>1, <2>2, <2>3 DEF MessagesInv
<1>6. CASE Sends
  <2>1. /\ pc = "ready" /\ pc' = "sent" /\ msg' = msg
        /\ content' = content /\ got' = got /\ mReadOffset' = mReadOffset
    BY <1>6 DEF Sends, reading
  <2> QED BY <2>1 DEF MessagesInv
<1>7. CASE Arrives
  <2>1. /\ pc = "sent" /\ pc' = "read" /\ toRead' = <<R("int")>>
        /\ msg' = [NewMsgOf(msg.len) EXCEPT !.data = SubSeq(msg.data, 1, msg.len), !.len = msg.len]
        /\ content' = content /\ got' = got /\ mReadOffset' = mReadOffset
    BY <1>7 DEF Arrives
  <2>2. /\ IsMsg(msg) /\ WellMade(content) /\ msg.data = Written(content, Len(content))
        /\ msg.len = Len(msg.data) /\ got = <<>> /\ mReadOffset = 0
    BY <2>1 DEF MessagesInv
  <2>3. IsMsg(msg') /\ msg'.data = msg.data /\ msg'.len = Len(msg'.data)
    BY <2>1, <2>2, ArrivedIs
  <2>4. ReadSoFar(content, <<>>, 0, <<R("int")>>)
    BY <2>2, StartOfReading
  <2> QED BY <2>1, <2>2, <2>3, <2>4 DEF MessagesInv
<1>8. CASE HandsOver
  <2>1. /\ pc = "ready" /\ pc' = "read" /\ toRead' = <<R("int")>> /\ msg' = msg
        /\ content' = content /\ got' = got /\ mReadOffset' = mReadOffset
    BY <1>8 DEF HandsOver
  <2>2. WellMade(content) /\ got = <<>> /\ mReadOffset = 0
    BY <2>1 DEF MessagesInv
  <2>3. ReadSoFar(content, <<>>, 0, <<R("int")>>)
    BY <2>2, StartOfReading
  <2> QED BY <2>1, <2>2, <2>3 DEF MessagesInv
<1>9. ASSUME pc = "read", pc' = pc, content' = content, msg' = msg,
             ReadSoFar(content, got', mReadOffset', toRead')
      PROVE  MessagesInv'
  BY <1>9 DEF MessagesInv
<1>10. pc = "read" => /\ WellMade(content) /\ msg.data = Written(content, Len(content))
                      /\ ReadSoFar(content, got, mReadOffset, toRead)
  BY DEF MessagesInv
<1>11. CASE ReadsNumber
  <2> DEFINE kind == Head(toRead)[2]
             v == NumberAt(Written(content, Len(content)), mReadOffset, Width[kind])
             next == IF got = <<>> THEN Reader(v) ELSE Tail(toRead)
  <2>1. /\ pc = "read" /\ pc' = pc /\ content' = content /\ msg' = msg
        /\ toRead # <<>> /\ Head(toRead)[1] = "read" /\ Head(toRead)[2] # "str"
    BY <1>11 DEF ReadsNumber
  <2>2. Read(kind) = v
    BY <1>10, <2>1 DEF Read
  <2>3. /\ got' = Append(got, <<kind, v>>) /\ mReadOffset' = mReadOffset + Width[kind]
        /\ toRead' = next
    BY <1>11, <2>2 DEF ReadsNumber
  <2>4. ReadSoFar(content, Append(got, <<kind, v>>), mReadOffset + Width[kind], next)
    BY <1>10, <2>1, NumberStep
  <2> HIDE DEF kind, v, next
  <2> QED BY <1>9, <2>1, <2>3, <2>4
<1>12. CASE ReadsString
  <2> DEFINE data == Written(content, Len(content))
             len == NumberAt(data, mReadOffset, Width["u64"])
             from == mReadOffset + Width["u64"]
             str == Str(IF len \in 0 .. Len(data) - from
                        THEN [i \in 1 .. len |-> NumberAt(data, from + i - 1, 1)] ELSE Unset)
  <2>1. /\ pc = "read" /\ pc' = pc /\ content' = content /\ msg' = msg
        /\ toRead # <<>> /\ Head(toRead) = R("str") /\ toRead' = Tail(toRead)
    BY <1>12 DEF ReadsString
  <2>2. msg.data = data
    BY <1>10, <2>1
  <2>3. got' = Append(got, str) /\ mReadOffset' = from + len
    BY <1>12, <2>2 DEF ReadsString, Read
  <2>4. ReadSoFar(content, Append(got, str), from + len, Tail(toRead))
    BY <1>10, <2>1, StringStep
  <2> HIDE DEF data, len, from, str
  <2> QED BY <1>9, <2>1, <2>3, <2>4
<1>13. CASE ReadsTimes
  <2> DEFINE count == NumberAt(Written(content, Len(content)), mReadOffset, Width["u32"])
             next == FlattenSeq([i \in 1 .. count |-> Head(toRead)[2]]) \o Tail(toRead)
  <2>1. /\ pc = "read" /\ pc' = pc /\ content' = content /\ msg' = msg
        /\ toRead # <<>> /\ Head(toRead)[1] = "times"
        /\ mReadOffset' = mReadOffset + Width["u32"]
    BY <1>13 DEF ReadsTimes
  <2>2. Read("u32") = count
    BY <1>10, <2>1 DEF Read
  <2>3. got' = Append(got, U32(count)) /\ toRead' = next
    BY <1>13, <2>2 DEF ReadsTimes
  <2>4. ReadSoFar(content, Append(got, U32(count)), mReadOffset + Width["u32"], next)
    BY <1>10, <2>1, CountStep
  <2> HIDE DEF count, next
  <2> QED BY <1>9, <2>1, <2>3, <2>4
<1>14. CASE ReadsIfOkay
  <2>1. /\ pc = "read" /\ pc' = pc /\ content' = content /\ msg' = msg
        /\ toRead # <<>> /\ Head(toRead)[1] = "okay"
        /\ got' = got /\ mReadOffset' = mReadOffset
        /\ toRead' = (IF got[2] = I32(0) THEN Head(toRead)[2] ELSE <<>>) \o Tail(toRead)
    BY <1>14 DEF ReadsIfOkay
  <2>2. ReadSoFar(content, got', mReadOffset', toRead')
    BY <1>10, <2>1, ChoiceStep
  <2> QED BY <1>9, <2>1, <2>2
<1>15. CASE Deletes
  <2>1. /\ pc' = "idle" /\ content' = <<>> /\ msg' = NewMsg /\ got' = <<>> /\ mReadOffset' = 0
    BY <1>15 DEF Deletes
  <2>2. IsMsg(NewMsg)
    BY NewMsgIs DEF IsGrowing
  <2> QED BY <2>1, <2>2 DEF MessagesInv
<1>16. CASE UNCHANGED vars
  BY <1>16 DEF vars, MessagesInv
<1> QED BY <1>1, <1>2, <1>3, <1>4, <1>5, <1>6, <1>7, <1>8, <1>11, <1>12, <1>13, <1>14, <1>15,
           <1>16 DEF Next

(* What is done with a message follows MessagesInv, whatever is written.   *)
THEOREM MessagesInvariant == Spec => []MessagesInv
BY InitMessages, MessagesStep, PTL DEF Spec

(* A message that fits a page is written without an overrun, whichever     *)
(* fields it is made of and whether ReverseSize enlarges the buffer or     *)
(* not, and a duplicate and a received message have room for what they     *)
(* hold: Msg.cpp, for every page, string, room and list of users.          *)
THEOREM MessagesFit == Spec => []FitsUpToAPage
<1>1. MessagesInv => FitsUpToAPage
  BY DEF MessagesInv, FitsUpToAPage, IsMsg
<1> QED BY <1>1, MessagesInvariant, PTL

(* Each reader of MsgType.hpp takes, field by field, what a writer of its  *)
(* type of message has written, for all strings, ids and lists, and stops  *)
(* where the data and the length in the head end.                          *)
THEOREM MessagesAreRead == Spec => []ReadsWhatWasWritten
<1>1. ASSUME MessagesInv PROVE ReadsWhatWasWritten
  <2>1. CASE pc = "read"
    <3>1. /\ WellMade(content) /\ msg.data = Written(content, Len(content))
          /\ msg.len = Len(msg.data) /\ ReadSoFar(content, got, mReadOffset, toRead)
      BY <1>1, <2>1 DEF MessagesInv
    <3>2. IsPrefix(got, content)
      BY <3>1, ReadIsPrefix
    <3>3. toRead = <<>> => got = content /\ mReadOffset = Len(msg.data)
      BY <3>1, EndOfReading
    <3> QED BY <3>1, <3>2, <3>3 DEF ReadsWhatWasWritten
  <2>2. CASE pc # "read"
    <3>1. got = <<>> /\ (content = <<>> \/ WellMade(content))
      BY <1>1, <2>2 DEF MessagesInv
    <3>2. <<>> \o <<>> = <<>> /\ IsQueue(<<>>)
      BY EmptyQueue, ChainedByThree
    <3>3. IsPrefix(<<>>, <<>>)
      BY <3>2, PrefixOfChained
    <3>4. IsPrefix(got, content)
      BY <3>1, <3>3, StartOfReading
    <3> QED BY <2>2, <3>4 DEF ReadsWhatWasWritten
  <2> QED BY <2>1, <2>2
<1> QED BY <1>1, MessagesInvariant, PTL
================================================================================
