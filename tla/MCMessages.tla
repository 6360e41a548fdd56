---- MODULE MCMessages ----
\* A page of 120 bytes: a message about two users fits; so does a chat of 96
\* characters and a logon of 100, but none longer.  Of 170 the buffer grows.
EXTENDS Messages

Chars(n) == [i \in 1 .. n |-> i % 3]

MCStrings == {Chars(n) : n \in {0, 2, 96, 97, 100, 101, 170}}
====
