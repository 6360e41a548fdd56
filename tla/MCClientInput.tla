---- MODULE MCClientInput ----
\* Words of the letter "r": "r" is the word room, two are a name.
EXTENDS ClientInput

MCRoomWord == <<"r">>

Rest(n) == UNION {[1 .. k -> {BLANK, "r"}] : k \in 0 .. n}

Commands(rests) ==
  {<<"/", letter>> \o rest :
     letter \in {"h", "c", "j", "w", "r", "q", "e", "l", "i", BLANK}, rest \in rests}

MCLines == Commands(Rest(6)) \cup {<<BLANK>> \o line : line \in Commands(Rest(2))}
             \cup Rest(2) \cup {<<"/">>}

MCFewLines == {<<"r">>, <<"/", "q">>, <<"/", "w", "r">>,
               <<"/", "j", "r", "r", BLANK, "r", "r">>}

\* Only NULs for a while, or the rest of a longer line.
MCBehind == {<<NUL, NUL, NUL, NUL, BLANK, NUL>>, <<BLANK, "r", "r", NUL>>}
====
