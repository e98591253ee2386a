------------------------------ MODULE MCStatus ------------------------------
(***************************************************************************)
(* Instances of StatusSync for TLC: two processes, a thread of each and a  *)
(* second one of the first.                                                *)
(***************************************************************************)
EXTENDS StatusSync

CONSTANTS o1, o2, t1, t2

MCProcessOf == [t \in Threads |-> IF t = t2 THEN o2 ELSE o1]
=============================================================================
