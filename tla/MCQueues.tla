------------------------------ MODULE MCQueues ------------------------------
(***************************************************************************)
(* What the queues do, and what the batches they carry leave in the        *)
(* descriptor region.  A behaviour drives one of the two.                  *)
(***************************************************************************)
EXTENDS Doorbell, Delivery

VARIABLE driven

MCInit ==
    /\ Init /\ DeliveryInit
    /\ \/ driven = "queues"
       \/ driven = "delivery" /\ host.async = (TRUE \in RingModes)

MCNext ==
    \/ driven = "queues" /\ Next /\ UNCHANGED <<deliveryVars, driven>>
    \/ driven = "delivery" /\ DeliveryNext /\ UNCHANGED <<vars, driven>>

\* Nothing is owed where only deliveries are driven.
MCSpec == MCInit /\ [][MCNext]_<<vars, deliveryVars, driven>> /\ Fairness
=============================================================================
