------------------------------- MODULE MCGsp -------------------------------
(***************************************************************************)
(* The card's firmware: the rings it is spoken to by, the objects it is    *)
(* asked for, its readings, and its start and end.  A behaviour drives one *)
(* of the four.                                                            *)
(***************************************************************************)
EXTENDS MessageRing, GspRm, Sensors, Boot

VARIABLE driven

MCCalls == {<<1, 1>>, <<3>>}
MCParent == [h \in Handles |-> IF h = "client" THEN None ELSE "client"]

MCInit ==
    /\ RingInit /\ RmInit /\ SensorsInit /\ BootInit
    /\ \/ driven = "boot"
       \/ /\ driven \in {"ring", "objects", "sensors"}
          /\ model = [fmc |-> TRUE, image |-> 16384, bootbin |-> 49, slack |-> 0]

MCNext ==
    \/ driven = "ring" /\ RingNext /\ UNCHANGED <<rmVars, sensorVars, bootVars, driven>>
    \/ driven = "objects" /\ RmNext /\ UNCHANGED <<ringVars, sensorVars, bootVars, driven>>
    \/ driven = "sensors" /\ SensorsNext /\ UNCHANGED <<ringVars, rmVars, bootVars, driven>>
    \/ driven = "boot" /\ BootNext /\ UNCHANGED <<ringVars, rmVars, sensorVars, driven>>

MCSpec ==
    /\ MCInit /\ [][MCNext]_<<ringVars, rmVars, sensorVars, bootVars, driven>>
    /\ WF_ringVars(Drive) /\ WF_ringVars(Expires)

=============================================================================
