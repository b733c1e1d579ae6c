---------------------------- MODULE ExecFailures ----------------------------
(***************************************************************************)
(* tinynv_free among Exec's calls: it waits for everything submitted, and  *)
(* an upload that is still held back was not.                              *)
(***************************************************************************)
EXTENDS Exec

VARIABLE freed     \* the buffers freed, which no call uses again

\* tinynv_free: everything submitted is waited for, and the buffer is unmapped.
Free(b) == Idle("free", b) /\ UNCHANGED freed
FreeEnd ==
    /\ host.op = "free"
    /\ IdleEnd
    /\ freed' = freed \union {host.at}
    /\ UNCHANGED stage_pend

FreeSpec ==
    /\ Init /\ freed = {}
    /\ [][\/ (Calls(Buffers \ freed) \/ GoesOn \/ Engines) /\ UNCHANGED freed
          \/ \E b \in Buffers \ freed : Free(b)
          \/ FreeEnd]_<<vars, freed>>

-----------------------------------------------------------------------------
\* Nothing writes to a buffer once it has been freed ("Work is submitted without
\* waiting now, so a buffer being freed may still be under a kernel that has not
\* run", tinynv_free).
NothingWritesFreed == [][\A b \in freed : memory'[b] = memory[b]]_<<vars, freed>>
=============================================================================
