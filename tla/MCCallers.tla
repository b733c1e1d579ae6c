------------------------------ MODULE MCCallers ------------------------------
(***************************************************************************)
(* What a calling program does: captures work and launches it again, and   *)
(* calls from several threads.  A behaviour drives one of the two parts.   *)
(***************************************************************************)
EXTENDS Graph, Threads

VARIABLE driven

MCPrograms == {<<"c", "k", "l">>, <<"l", "c">>}

\* Every thread calls, with the defaults or with both options
MCDeployments ==
    {[callers |-> Threads, download_kernel |-> on, keepalive |-> on] : on \in BOOLEAN}

ThreadsSymmetry == Permutations(Threads)

MCInit ==
    /\ Init /\ ThreadsInit
    /\ \/ driven = "threads"
       \/ driven = "graphs" /\ deployed = CHOOSE d \in Deployments : TRUE

MCNext ==
    \/ driven = "graphs" /\ Next /\ UNCHANGED <<threadVars, driven>>
    \/ driven = "threads" /\ ThreadsNext /\ UNCHANGED <<vars, driven>>

MCSpec == MCInit /\ [][MCNext]_<<vars, threadVars, driven>>
=============================================================================
