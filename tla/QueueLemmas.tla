----------------------------- MODULE QueueLemmas ------------------------------
(***************************************************************************)
(* What adding to a queue and taking from it do to what is in the queue    *)
(* and to its order.                                                       *)
(***************************************************************************)
EXTENDS SequenceTheorems, WellFoundedInduction, TLAPS

IsQueue(q) == q \in Seq(Range(q))

(* Some x is in the queue with some y behind it.                           *)
Before(q, x, y) == \E i, j \in DOMAIN q : i < j /\ q[i] = x /\ q[j] = y

LEMMA AnySeqIsQueue ==
  ASSUME NEW S, NEW q \in Seq(S)
  PROVE  IsQueue(q) /\ Range(q) \subseteq S
  BY SeqOfRange, RangeOfSeq DEF IsQueue

LEMMA QueueDomain ==
  ASSUME NEW q, IsQueue(q)
  PROVE  Len(q) \in Nat /\ DOMAIN q = 1 .. Len(q)
  BY LenProperties DEF IsQueue

LEMMA BeforeIsInQueue ==
  ASSUME NEW q, NEW x, NEW y, Before(q, x, y)
  PROVE  x \in Range(q) /\ y \in Range(q)
  BY DEF Before, Range

LEMMA EmptyQueue ==
  IsQueue(<<>>) /\ Range(<<>>) = {} /\ \A x, y : ~Before(<<>>, x, y)
<1>1. <<>> \in Seq({}) /\ Len(<<>>) = 0
  BY EmptySeq
<1>2. DOMAIN <<>> = {}
  BY <1>1, LenProperties
<1> QED BY <1>1, <1>2, AnySeqIsQueue DEF Before

LEMMA SingleQueue ==
  ASSUME NEW e
  PROVE  IsQueue(<<e>>) /\ Range(<<e>>) = {e} /\ \A x, y : ~Before(<<e>>, x, y)
<1>1. <<e>> \in Seq({e}) /\ Len(<<e>>) = 1 /\ <<e>>[1] = e
  OBVIOUS
<1>2. DOMAIN <<e>> = {1}
  BY <1>1, LenProperties
<1>3. IsQueue(<<e>>)
  BY <1>1, AnySeqIsQueue
<1>4. Range(<<e>>) = {e}
  BY <1>1, <1>2 DEF Range
<1>5. \A x, y : ~Before(<<e>>, x, y)
  <2>1. \A i, j \in {1} : ~(i < j)
    OBVIOUS
  <2> QED BY <1>2, <2>1 DEF Before
<1> QED BY <1>3, <1>4, <1>5

(* Taking the head.                                                        *)
LEMMA TailOfQueue ==
  ASSUME NEW q, IsQueue(q), q # <<>>
  PROVE  /\ Head(q) \in Range(q)
         /\ IsQueue(Tail(q))
         /\ Range(q) = {Head(q)} \cup Range(Tail(q))
         /\ \A x, y : Before(Tail(q), x, y) => Before(q, x, y)
         /\ \A y \in Range(Tail(q)) : Before(q, Head(q), y)
<1> DEFINE n == Len(q)
           t == Tail(q)
<1>1. n \in Nat /\ n # 0 /\ DOMAIN q = 1 .. n
  <2>1. q \in Seq(Range(q))
    BY DEF IsQueue
  <2>2. n \in Nat \ {0}
    BY <2>1, EmptySeq
  <2> QED BY <2>2, QueueDomain
<1>2. /\ Head(q) = q[1] /\ Head(q) \in Range(q)
      /\ t \in Seq(Range(q)) /\ Len(t) = n - 1
      /\ \A i \in 1 .. Len(t) : t[i] = q[i + 1]
  BY HeadTailProperties DEF IsQueue
<1>3. IsQueue(t)
  BY <1>2, AnySeqIsQueue
<1>4. DOMAIN t = 1 .. n - 1 /\ \A i \in 1 .. n - 1 : t[i] = q[i + 1]
  BY <1>1, <1>2, <1>3, QueueDomain
<1> HIDE DEF n, t
<1>5. Range(q) = {Head(q)} \cup Range(t)
  <2>1. ASSUME NEW i \in 1 .. n
        PROVE  q[i] \in {Head(q)} \cup Range(t)
    <3>1. CASE i = 1
      BY <1>2, <3>1
    <3>2. CASE i # 1
      <4>1. i - 1 \in 1 .. n - 1 /\ (i - 1) + 1 = i
        BY <1>1, <3>2
      <4>2. t[i - 1] = q[i]
        BY <1>4, <4>1
      <4> QED BY <1>4, <4>1, <4>2 DEF Range
    <3> QED BY <3>1, <3>2
  <2>2. ASSUME NEW i \in 1 .. n - 1
        PROVE  t[i] \in Range(q)
    <3>1. i + 1 \in DOMAIN q
      BY <1>1
    <3> QED BY <1>4, <3>1 DEF Range
  <2> QED BY <1>1, <1>2, <1>4, <2>1, <2>2 DEF Range
<1>6. ASSUME NEW x, NEW y, Before(t, x, y)
      PROVE  Before(q, x, y)
  <2>1. PICK i \in DOMAIN t, j \in DOMAIN t : i < j /\ t[i] = x /\ t[j] = y
    BY <1>6 DEF Before
  <2>2. i + 1 \in DOMAIN q /\ j + 1 \in DOMAIN q /\ i + 1 < j + 1
    BY <1>1, <1>4, <2>1
  <2>3. q[i + 1] = x /\ q[j + 1] = y
    BY <1>4, <2>1
  <2> QED BY <2>2, <2>3 DEF Before
<1>7. ASSUME NEW y \in Range(t)
      PROVE  Before(q, Head(q), y)
  <2>1. PICK j \in 1 .. n - 1 : t[j] = y
    BY <1>4 DEF Range
  <2>2. 1 \in DOMAIN q /\ j + 1 \in DOMAIN q /\ 1 < j + 1 /\ q[j + 1] = y
    BY <1>1, <1>4, <2>1
  <2> QED BY <1>2, <2>2 DEF Before
<1> QED BY <1>2, <1>3, <1>5, <1>6, <1>7 DEF t

(* One queue behind another.                                               *)
LEMMA ConcatOfQueues ==
  ASSUME NEW q, NEW s, IsQueue(q), IsQueue(s)
  PROVE  /\ IsQueue(q \o s)
         /\ Range(q \o s) = Range(q) \cup Range(s)
         /\ \A x, y : Before(q \o s, x, y)
                        <=> \/ Before(q, x, y) \/ Before(s, x, y)
                            \/ x \in Range(q) /\ y \in Range(s)
<1> DEFINE S == Range(q) \cup Range(s)
           m == Len(q)
           n == Len(s)
           c == q \o s
<1>1. q \in Seq(S) /\ s \in Seq(S)
  BY SeqMonotonic DEF IsQueue
<1>2. /\ c \in Seq(S)
      /\ Len(c) = m + n
      /\ \A i \in 1 .. m + n : c[i] = IF i <= m THEN q[i] ELSE s[i - m]
  BY <1>1, ConcatProperties
<1>3. /\ m \in Nat /\ DOMAIN q = 1 .. m
      /\ n \in Nat /\ DOMAIN s = 1 .. n
  BY QueueDomain
<1>4. IsQueue(c) /\ DOMAIN c = 1 .. m + n
  BY <1>2, AnySeqIsQueue, QueueDomain
<1>5. Range(c) = Range(q) \cup Range(s)
  BY <1>1, RangeConcatenation
<1>6. /\ \A i \in 1 .. m : i \in 1 .. m + n /\ c[i] = q[i]
      /\ \A i \in 1 .. n : i + m \in 1 .. m + n /\ c[i + m] = s[i]
  <2>1. \A i \in 1 .. m : i \in 1 .. m + n /\ i <= m
    BY <1>3
  <2>2. \A i \in 1 .. n : i + m \in 1 .. m + n /\ ~(i + m <= m) /\ (i + m) - m = i
    BY <1>3
  <2> HIDE DEF c, m, n
  <2> QED BY <1>2, <2>1, <2>2
<1> HIDE DEF c, m, n, S
<1>7. ASSUME NEW x, NEW y, Before(c, x, y)
      PROVE  Before(q, x, y) \/ Before(s, x, y) \/ (x \in Range(q) /\ y \in Range(s))
  <2>1. PICK i \in 1 .. m + n, j \in 1 .. m + n : i < j /\ c[i] = x /\ c[j] = y
    BY <1>4, <1>7 DEF Before
  <2>2. CASE j <= m
    <3>1. i \in 1 .. m /\ j \in 1 .. m
      BY <1>3, <2>1, <2>2
    <3> QED BY <1>3, <1>6, <2>1, <3>1 DEF Before
  <2>3. CASE i > m
    <3>1. i - m \in 1 .. n /\ j - m \in 1 .. n /\ i - m < j - m
      BY <1>3, <2>1, <2>3
    <3>2. s[i - m] = x /\ s[j - m] = y
      BY <1>2, <1>3, <2>1, <2>3
    <3> QED BY <1>3, <3>1, <3>2 DEF Before
  <2>4. CASE i <= m /\ j > m
    <3>1. i \in 1 .. m /\ j - m \in 1 .. n
      BY <1>3, <2>1, <2>4
    <3>2. q[i] = x /\ s[j - m] = y
      BY <1>2, <1>3, <2>1, <2>4
    <3> QED BY <1>3, <3>1, <3>2 DEF Range
  <2> QED BY <1>3, <2>2, <2>3, <2>4
<1>8. ASSUME NEW x, NEW y, Before(q, x, y)
      PROVE  Before(c, x, y)
  BY <1>3, <1>4, <1>6, <1>8 DEF Before
<1>9. ASSUME NEW x, NEW y, Before(s, x, y)
      PROVE  Before(c, x, y)
  <2>1. PICK i \in 1 .. n, j \in 1 .. n : i < j /\ s[i] = x /\ s[j] = y
    BY <1>3, <1>9 DEF Before
  <2>2. i + m < j + m
    BY <1>3, <2>1
  <2> QED BY <1>4, <1>6, <2>1, <2>2 DEF Before
<1>10. ASSUME NEW x \in Range(q), NEW y \in Range(s)
       PROVE  Before(c, x, y)
  <2>1. PICK i \in 1 .. m, j \in 1 .. n : q[i] = x /\ s[j] = y
    BY <1>3 DEF Range
  <2>2. i < j + m
    BY <1>3
  <2> QED BY <1>4, <1>6, <2>1, <2>2 DEF Before
<1> QED BY <1>4, <1>5, <1>7, <1>8, <1>9, <1>10 DEF c

LEMMA AppendToQueue ==
  ASSUME NEW q, NEW e, IsQueue(q)
  PROVE  /\ IsQueue(Append(q, e))
         /\ Append(q, e) # <<>>
         /\ Range(Append(q, e)) = Range(q) \cup {e}
         /\ \A x, y : Before(Append(q, e), x, y)
                        <=> Before(q, x, y) \/ (x \in Range(q) /\ y = e)
<1>1. q \in Seq(Range(q) \cup {e})
  BY SeqMonotonic DEF IsQueue
<1>2. Append(q, e) = q \o <<e>> /\ Append(q, e) # <<>>
  BY <1>1, AppendIsConcat, AppendProperties
<1> QED BY <1>2, SingleQueue, ConcatOfQueues

-----------------------------------------------------------------------------
(* The least number of a set; without it nothing is known of a loop, or of *)
(* a recursive function.                                                   *)
LEMMA LeastNumber ==
  ASSUME NEW S, S \subseteq Nat, S # {}
  PROVE  \E n \in S : \A m \in S : n <= m
<1> DEFINE R == OpToRel(<, Nat)
<1>1. IsWellFoundedOn(R, Nat)
  BY NatLessThanWellFounded
<1>2. \A m, n \in Nat : m < n => <<m, n>> \in R
  BY DEF OpToRel
<1> HIDE DEF R
<1>3. PICK n \in S : \A m \in S : ~ (<<m, n>> \in R)
  BY <1>1, WFMin
<1>4. \A m \in S : ~(m < n)
  BY <1>2, <1>3
<1>5. \A m \in Nat : ~(m < n) => n <= m
  BY <1>3
<1> QED BY <1>3, <1>4, <1>5

(* What 0 has, and the next number whenever a number has it, all have.     *)
LEMMA EveryNumber ==
  ASSUME NEW S, 0 \in S, \A n \in Nat : n \in S => n + 1 \in S
  PROVE  \A n \in Nat : n \in S
<1> SUFFICES ASSUME NEW n \in Nat, n \notin S PROVE FALSE
  OBVIOUS
<1> DEFINE T == {m \in Nat : m \notin S}
<1>1. T \subseteq Nat /\ T # {}
  OBVIOUS
<1>2. PICK m \in T : \A k \in T : m <= k
  <2> HIDE DEF T
  <2> QED BY <1>1, LeastNumber
<1>3. m \in Nat /\ m \notin S /\ m # 0
  BY <1>2
<1>4. m - 1 \in Nat /\ (m - 1) + 1 = m /\ ~(m <= m - 1)
  BY <1>3
<1>5. m - 1 \in S
  BY <1>2, <1>4
<1> QED BY <1>3, <1>4, <1>5

-----------------------------------------------------------------------------
(* A queue element by element.                                             *)

LEMMA SameQueue ==
  ASSUME NEW q, NEW s, IsQueue(q), IsQueue(s), Len(q) = Len(s),
         \A i \in 1 .. Len(q) : q[i] = s[i]
  PROVE  q = s
<1>1. q \in Seq(Range(q) \cup Range(s)) /\ s \in Seq(Range(q) \cup Range(s))
  BY SeqMonotonic DEF IsQueue
<1> QED BY <1>1, SeqEqual

LEMMA PartOfText ==
  ASSUME NEW t, IsQueue(t), NEW i \in 1 .. Len(t) + 1, NEW j \in Nat, i <= j + 1, j <= Len(t)
  PROVE  /\ IsQueue(SubSeq(t, i, j))
         /\ Len(SubSeq(t, i, j)) = j - i + 1
         /\ DOMAIN SubSeq(t, i, j) = 1 .. j - i + 1
         /\ \A k \in 1 .. j - i + 1 : SubSeq(t, i, j)[k] = t[i + k - 1]
<1> DEFINE S == Range(t)
           n == Len(t)
           u == SubSeq(t, i, j)
<1>1. n \in Nat /\ DOMAIN t = 1 .. n
  BY QueueDomain
<1>2. \A k \in 1 .. n : t[k] \in S
  BY <1>1 DEF Range
<1> HIDE DEF n, S
<1>3. i \in Int /\ j \in Int /\ \A k \in i .. j : k \in 1 .. n
  BY <1>1 DEF n
<1>4. /\ u \in Seq(S) /\ Len(u) = (IF i <= j THEN j - i + 1 ELSE 0)
      /\ \A k \in 1 .. j - i + 1 : u[k] = t[i + k - 1]
  BY <1>2, <1>3, SubSeqProperties
<1>5. (IF i <= j THEN j - i + 1 ELSE 0) = j - i + 1
  BY <1>1 DEF n
<1>6. Len(u) = j - i + 1
  BY <1>4, <1>5
<1> HIDE DEF u
<1>7. IsQueue(u) /\ DOMAIN u = 1 .. j - i + 1
  BY <1>4, <1>6, AnySeqIsQueue, QueueDomain
<1> QED BY <1>4, <1>6, <1>7 DEF u

LEMMA Chained ==
  ASSUME NEW q, NEW s, IsQueue(q), IsQueue(s)
  PROVE  /\ IsQueue(q \o s) /\ Len(q \o s) = Len(q) + Len(s)
         /\ \A i \in 1 .. Len(q) : (q \o s)[i] = q[i]
         /\ \A i \in 1 .. Len(s) : (q \o s)[Len(q) + i] = s[i]
<1> DEFINE S == Range(q) \cup Range(s)
           m == Len(q)
           n == Len(s)
           c == q \o s
<1>1. q \in Seq(S) /\ s \in Seq(S)
  BY SeqMonotonic DEF IsQueue
<1>2. /\ c \in Seq(S) /\ Len(c) = m + n
      /\ \A i \in 1 .. m + n : c[i] = IF i <= m THEN q[i] ELSE s[i - m]
  BY <1>1, ConcatProperties
<1>3. m \in Nat /\ n \in Nat
  BY QueueDomain
<1>4. IsQueue(c)
  BY <1>2, AnySeqIsQueue
<1> HIDE DEF c, m, n
<1>5. ASSUME NEW i \in 1 .. m PROVE c[i] = q[i]
  <2>1. i \in 1 .. m + n /\ i <= m
    BY <1>3
  <2> QED BY <1>2, <2>1
<1>6. ASSUME NEW i \in 1 .. n PROVE c[m + i] = s[i]
  <2>1. m + i \in 1 .. m + n /\ ~(m + i <= m) /\ (m + i) - m = i
    BY <1>3
  <2> QED BY <1>2, <2>1
<1> QED BY <1>2, <1>4, <1>5, <1>6 DEF c, m, n

LEMMA ChainedByThree ==
  ASSUME NEW q, NEW s, NEW t, IsQueue(q), IsQueue(s), IsQueue(t)
  PROVE  (q \o s) \o t = q \o (s \o t) /\ q \o <<>> = q /\ <<>> \o q = q
<1> DEFINE S == Range(q) \cup Range(s) \cup Range(t)
<1>1. q \in Seq(S) /\ s \in Seq(S) /\ t \in Seq(S)
  BY SeqMonotonic DEF IsQueue
<1> QED BY <1>1, ConcatAssociative, ConcatEmptySeq

LEMMA HeadAndTail ==
  ASSUME NEW q, IsQueue(q), q # <<>>
  PROVE  /\ IsQueue(Tail(q)) /\ Len(q) \in Nat \ {0} /\ Len(Tail(q)) = Len(q) - 1
         /\ Head(q) = q[1]
         /\ \A i \in 1 .. Len(q) - 1 : Tail(q)[i] = q[i + 1]
<1>1. /\ Head(q) = q[1] /\ Tail(q) \in Seq(Range(q)) /\ Len(Tail(q)) = Len(q) - 1
      /\ \A i \in 1 .. Len(Tail(q)) : Tail(q)[i] = q[i + 1]
  BY HeadTailProperties DEF IsQueue
<1>2. IsQueue(Tail(q)) /\ Len(q) \in Nat \ {0}
  BY <1>1, AnySeqIsQueue, EmptySeq DEF IsQueue
<1> QED BY <1>1, <1>2

LEMMA TailOfChained ==
  ASSUME NEW q, NEW s, IsQueue(q), IsQueue(s), q # <<>>
  PROVE  q \o s # <<>> /\ Head(q \o s) = Head(q) /\ Tail(q \o s) = Tail(q) \o s
<1> DEFINE c == q \o s
           t == Tail(q) \o s
           m == Len(q)
           n == Len(s)
<1>1. /\ IsQueue(c) /\ Len(c) = m + n
      /\ \A i \in 1 .. m : c[i] = q[i]
      /\ \A i \in 1 .. n : c[m + i] = s[i]
  BY Chained
<1>2. /\ IsQueue(Tail(q)) /\ m \in Nat \ {0} /\ Len(Tail(q)) = m - 1 /\ Head(q) = q[1]
      /\ \A i \in 1 .. m - 1 : Tail(q)[i] = q[i + 1]
  BY HeadAndTail
<1>3. n \in Nat /\ Len(<<>>) = 0
  BY QueueDomain
<1>4. /\ IsQueue(t) /\ Len(t) = Len(Tail(q)) + n
      /\ \A i \in 1 .. Len(Tail(q)) : t[i] = Tail(q)[i]
      /\ \A i \in 1 .. n : t[Len(Tail(q)) + i] = s[i]
  BY <1>2, Chained
<1> HIDE DEF c, t, m, n
<1>5. c # <<>>
  <2>1. Len(c) # 0
    BY <1>1, <1>2, <1>3
  <2> QED BY <1>3, <2>1
<1>6. /\ IsQueue(Tail(c)) /\ Len(Tail(c)) = Len(c) - 1 /\ Head(c) = c[1]
      /\ \A i \in 1 .. Len(c) - 1 : Tail(c)[i] = c[i + 1]
  BY <1>1, <1>5, HeadAndTail
<1>7. Head(c) = Head(q)
  BY <1>1, <1>2, <1>6
<1>8. Len(Tail(c)) = m + n - 1 /\ Len(t) = m + n - 1 /\ m + n - 1 \in Nat
  BY <1>1, <1>2, <1>3, <1>4, <1>6
<1>9. ASSUME NEW i \in 1 .. m + n - 1 PROVE Tail(c)[i] = t[i]
  <2>1. i + 1 \in Nat /\ Tail(c)[i] = c[i + 1]
    BY <1>1, <1>2, <1>3, <1>6
  <2>2. CASE i <= m - 1
    <3>1. i + 1 \in 1 .. m /\ i \in 1 .. m - 1
      BY <1>2, <1>3, <2>2
    <3>2. c[i + 1] = q[i + 1] /\ t[i] = q[i + 1]
      BY <1>1, <1>2, <1>4, <3>1
    <3> QED BY <2>1, <3>2
  <2>3. CASE ~(i <= m - 1)
    <3> DEFINE k == i - (m - 1)
    <3>1. k \in 1 .. n /\ m + k = i + 1 /\ (m - 1) + k = i
      BY <1>2, <1>3, <2>3
    <3> HIDE DEF k
    <3>2. c[i + 1] = s[k] /\ t[i] = s[k]
      BY <1>1, <1>2, <1>4, <3>1
    <3> QED BY <2>1, <3>2
  <2> QED BY <2>2, <2>3
<1>10. Tail(c) = t
  BY <1>4, <1>6, <1>8, <1>9, SameQueue
<1> QED BY <1>5, <1>7, <1>10 DEF c, t

===============================================================================
