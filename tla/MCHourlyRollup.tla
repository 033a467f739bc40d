---------------------------- MODULE MCHourlyRollup ----------------------------
(* Instances of HourlyRollup for TLC: two events of hour 0 (one recorded   *)
(* early and one late, or both at once) and one of hour 1.                 *)
EXTENDS HourlyRollup

CONSTANTS e1, e2, e3

MCEvent == {e1, e2, e3}
MCHourOf == [e \in MCEvent |-> IF e = e3 THEN 1 ELSE 0]
=============================================================================
