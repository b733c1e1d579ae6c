------------------------------ MODULE MCMemory ------------------------------
(***************************************************************************)
(* Four levels, with pages of four, two and one at the last three.  A      *)
(* behaviour drives the program's own memory, or the guests' mappings (the *)
(* two keep page tables of their own), or the heap video memory is carved  *)
(* from, or the pool of pinned host memory.                                *)
(***************************************************************************)
EXTENDS Memory, GuestMaps, Tlsf, HostPool

VARIABLE driven

MCCovers == <<8, 4, 2, 1>>

\* One allocation in consecutive frames, and one in pieces, for reading only
MCObjects ==
    {[client |-> "g", handle |-> 1, frames |-> <<4, 5, 6, 7>>, writable |-> TRUE],
     [client |-> "g", handle |-> 2, frames |-> <<2, 3, 9>>, writable |-> FALSE]}

MCInit ==
    /\ Init /\ GuestInit /\ HeapInit /\ pool = NoPool
    /\ driven \in {"own", "guests", "heap", "host pool"}

MCNext ==
    \/ driven = "own" /\ Next /\ UNCHANGED <<guestVars, heap, pool, driven>>
    \/ driven = "guests" /\ GuestNext /\ UNCHANGED <<vars, heap, pool, driven>>
    \/ driven = "heap" /\ HeapNext /\ UNCHANGED <<vars, guestVars, pool, driven>>
    \/ driven = "host pool" /\ PoolNext /\ UNCHANGED <<vars, guestVars, heap, driven>>

MCSpec == MCInit /\ [][MCNext]_<<vars, guestVars, heap, pool, driven>>
=============================================================================
