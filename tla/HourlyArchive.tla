---------------------------- MODULE HourlyArchive ----------------------------
(***************************************************************************)
(* What the hourly archive promises, independently of how it is computed:  *)
(* events are recorded, hours go by, and closing a range of past hours     *)
(* adds each recorded event of that range to the archive exactly once and  *)
(* freezes the range.  HourlyRollup is shown to implement this module when *)
(* the collector is the only process that runs the rollup.                 *)
(***************************************************************************)
EXTENDS Integers

CONSTANTS
  Event,    \* the usage events the sources may ever report
  HourOf    \* the hour of an event's occurred_at, hours counted from 0

VARIABLES
  clock,    \* the hour in progress
  stored,   \* the rows of usage_event
  archived, \* how many times an event is summed into usage_hourly
  cursor    \* the hourly-rollup watermark: hours below it are closed

vars == <<clock, stored, archived, cursor>>

Init ==
  /\ clock = 0
  /\ stored = {}
  /\ archived = [e \in Event |-> 0]
  /\ cursor = 0

HourGoesBy ==
  /\ clock' = clock + 1
  /\ UNCHANGED <<stored, archived, cursor>>

Record ==
  /\ \E S \in SUBSET Event : stored' = stored \cup S
  /\ UNCHANGED <<clock, archived, cursor>>

(* Closing the hours from the watermark up to, and not including, `upto'.  *)
CloseHours(upto) ==
  /\ cursor < upto /\ upto <= clock
  /\ archived' = [e \in Event |->
                    IF e \in stored /\ cursor <= HourOf[e] /\ HourOf[e] < upto
                    THEN 1 ELSE archived[e]]
  /\ cursor' = upto
  /\ UNCHANGED <<clock, stored>>

Next == HourGoesBy \/ Record \/ \E upto \in 1..clock : CloseHours(upto)

Spec == Init /\ [][Next]_vars
=============================================================================
