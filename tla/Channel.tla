------------------------------ MODULE Channel ------------------------------
(***************************************************************************)
(* What either direction of a message queue promises: messages are taken   *)
(* whole, each once, in the order they were put.                           *)
(***************************************************************************)
EXTENDS Sequences

VARIABLE pending

Put(messages) == pending' \in {Append(pending, m) : m \in messages}
Take == pending # <<>> /\ pending' = Tail(pending)

Step(messages) == UNCHANGED pending \/ Take \/ Put(messages)
=============================================================================
