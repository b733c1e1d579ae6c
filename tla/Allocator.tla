----------------------------- MODULE Allocator -----------------------------
(***************************************************************************)
(* What an allocator of addresses promises: a request is either refused or *)
(* given a block of its own size, aligned, inside the memory managed and   *)
(* apart from every block that is out; only a block that is out comes      *)
(* back.  Which block it gives is left open.                               *)
(***************************************************************************)
EXTENDS Integers

CONSTANTS Size, Requests, Aligns

VARIABLE out               \* the blocks handed out: where each starts, its size

Apart(a, b) == a.at + a.size <= b.at \/ b.at + b.size <= a.at

Init == out = {}

Give(b, align) ==
    /\ b.at % align = 0
    /\ b.at + b.size <= Size
    /\ \A c \in out : Apart(b, c)
    /\ out' = out \cup {b}

TakeBack(b) ==
    /\ b \in out
    /\ out' = out \ {b}

Next ==
    \/ \E n \in Requests, align \in Aligns, at \in 0 .. Size :
           Give([at |-> at, size |-> n], align)
    \/ \E b \in out : TakeBack(b)

Spec == Init /\ [][Next]_out
=============================================================================
