---------------------------- MODULE MCTailCollect ----------------------------
(* Instances of TailCollect for TLC.                                       *)
EXTENDS TailCollect
=============================================================================
