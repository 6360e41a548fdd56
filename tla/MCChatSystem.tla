----------------------------- MODULE MCChatSystem -----------------------------
(* ChatSystem for TLC: clients and user names are interchangeable.         *)
EXTENDS ChatSystem, TLC

Symmetry == Permutations(Clients) \cup Permutations(UserNames)

===============================================================================
