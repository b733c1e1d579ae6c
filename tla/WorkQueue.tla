----------------------------- MODULE WorkQueue -----------------------------
(***************************************************************************)
(* What submitting work promises, with no ring, no bar and no doorbell:    *)
(* batches are done one at a time in the order they were submitted,        *)
(* whichever queue each went to, and a batch that has been announced is    *)
(* done eventually.  A batch handed over and not yet announced may be done *)
(* early (the engine may happen to be looking) but need not be.            *)
(***************************************************************************)
EXTENDS Naturals, Sequences

CONSTANT Queues

VARIABLES log,         \* the queue each batch was submitted to, in order
          announced,   \* how many of them the engines have been told about
          done         \* the numbers of those that are done

vars == <<log, announced, done>>

Init == log = <<>> /\ announced = 0 /\ done = {}

Hand(q) == log' = Append(log, q) /\ UNCHANGED <<announced, done>>

Announce ==
    /\ announced' \in announced .. Len(log)
    /\ UNCHANGED <<log, done>>

Do(n) ==
    /\ n \in 1 .. Len(log)
    /\ done = 1 .. n - 1
    /\ done' = 1 .. n
    /\ UNCHANGED <<log, announced>>

DoAnnounced == \E n \in 1 .. announced : Do(n)

Next == Announce \/ (\E q \in Queues : Hand(q)) \/ \E n \in 1 .. Len(log) : Do(n)

\* The order alone, and with it that what was announced is done
InOrder == Init /\ [][Next]_vars

Spec == InOrder /\ WF_vars(DoAnnounced)
=============================================================================
