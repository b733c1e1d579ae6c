----------------------------- MODULE MCScratch -----------------------------
(* Instances of Scratch for TLC: regions of a few units, cut in few pieces. *)
EXTENDS Scratch

CONSTANTS DescSize, CmdSize, DescAlign, DescRequests, CmdRequests

MCSize == [r \in Regions |-> IF r = "desc" THEN DescSize ELSE CmdSize]
MCAlign == [r \in Regions |-> IF r = "desc" THEN DescAlign ELSE 1]
MCRequests == [r \in Regions |-> IF r = "desc" THEN DescRequests ELSE CmdRequests]
=============================================================================
