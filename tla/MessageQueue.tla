----------------------------- MODULE MessageQueue -----------------------------
(***************************************************************************)
(* What a logic service promises to those who enqueue contexts to it: from *)
(* its start to its stop it handles what it has accepted, each context     *)
(* once, in the order of acceptance and without losing one; after a stop   *)
(* it may throw the rest away; once stopped it handles nothing.            *)
(***************************************************************************)
EXTENDS Sequences

CONSTANT Contexts

VARIABLES pending,      \* accepted and not yet handled
          handled,      \* handled, in order
          state         \* "new", "open", "closing" or "closed"

qvars == <<pending, handled, state>>

QInit ==
  /\ pending = <<>>
  /\ handled = <<>>
  /\ state = "new"

Open == state = "new" /\ state' = "open" /\ UNCHANGED <<pending, handled>>

Put(ctx) ==
  /\ state = "open"
  /\ pending' = Append(pending, ctx)
  /\ UNCHANGED <<handled, state>>

Deliver ==
  /\ state \in {"open", "closing"}
  /\ pending # <<>>
  /\ handled' = Append(handled, Head(pending))
  /\ pending' = Tail(pending)
  /\ UNCHANGED state

Close == state = "open" /\ state' = "closing" /\ UNCHANGED <<pending, handled>>

Discard ==
  /\ state = "closing"
  /\ pending # <<>>
  /\ pending' = Tail(pending)
  /\ UNCHANGED <<handled, state>>

End == state = "closing" /\ state' = "closed" /\ UNCHANGED <<pending, handled>>

QNext == \/ Open \/ (\E ctx \in Contexts : Put(ctx))
         \/ Deliver \/ Close \/ Discard \/ End

(* Never wrong: the part that a proof about every step can establish.      *)
QSafe == QInit /\ [][QNext]_qvars

(* As long as the queue stays open, everything accepted is handled.        *)
QLive == WF_qvars(state = "open" /\ Deliver)
QSpec == QSafe /\ QLive

===============================================================================
