---------------------------- MODULE MCHourlyRebuild ----------------------------
(* One ordinary event, one duplicate and one omitted, all of hour 0.       *)
EXTENDS HourlyRebuild

CONSTANTS plain, dup, omit

MCEvent == {plain, dup, omit}
MCHourOf == [e \in MCEvent |-> 0]
MCDuplicate == {dup}
MCOmitted == {omit}
=============================================================================
