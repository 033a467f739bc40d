----------------------------- MODULE HourlyReport -----------------------------
(***************************************************************************)
(* A request to /api/hourly (web/hourly.rs, load), on top of the archive:  *)
(* the worker first brings the archive up to date, ignoring a failure,     *)
(* then reads the clock for the label of the running hour, the archived    *)
(* hours, and the events of the running hour.  The three reads are         *)
(* separate statements in autocommit mode and two reads of the clock, so   *)
(* rounds, rollups of other workers and the turn of the hour come between. *)
(* All hours are taken to be of the month asked for.                       *)
(***************************************************************************)
EXTENDS HourlyRollup

VARIABLES
  stage,      \* how far the worker's request is
  began,      \* history: the hour and the events when the request began
  caughtUp,   \* history: after the rollup the archive was whole up to that hour
  label,      \* current_hour: where the running hour is shown
  shown       \* how many times the report counts an event

reportVars == <<stage, began, caughtUp, label, shown>>
hourlyVars == <<vars, reportVars>>

ReportInit ==
  /\ Init
  /\ stage = [w \in Web |-> "none"]
  /\ began = [w \in Web |-> [hour |-> 0, events |-> {}]]
  /\ caughtUp = [w \in Web |-> FALSE]
  /\ label = [w \in Web |-> 0]
  /\ shown = [w \in Web |-> [e \in Event |-> 0]]

-----------------------------------------------------------------------------
(* db::open succeeds and the archive is rolled up, or the file can only be *)
(* opened for reading and it is not.                                       *)
BeginReport(w) ==
  /\ stage[w] \in {"none", "done"}
  /\ stage' = [stage EXCEPT ![w] = "rollup"]
  /\ began' = [began EXCEPT ![w] = [hour |-> clock, events |-> stored]]
  /\ \/ HourlyLoad(w)
     \/ pc[w] = "idle" /\ UNCHANGED vars
  /\ UNCHANGED <<caughtUp, label, shown>>

(* The rollup is over, one way or the other: Local::now().hour().          *)
ReadLabel(w) ==
  /\ stage[w] = "rollup"
  /\ pc[w] = "idle"
  /\ stage' = [stage EXCEPT ![w] = "labelled"]
  /\ label' = [label EXCEPT ![w] = clock]
  /\ caughtUp' = [caughtUp EXCEPT ![w] = cursor >= began[w].hour /\ NoGap]
  /\ UNCHANGED <<vars, began, shown>>

(* SELECT ... FROM usage_hourly.                                           *)
ReadArchive(w) ==
  /\ stage[w] = "labelled"
  /\ stage' = [stage EXCEPT ![w] = "archive"]
  /\ shown' = [shown EXCEPT ![w] = archived]
  /\ UNCHANGED <<vars, began, caughtUp, label>>

(* Mutant: the first instant of the hour is left out.                      *)
RunningAfterStart == {e \in stored : HourOf[e] > clock}

(* SELECT ... FROM usage_event WHERE occurred_at >= the running hour.      *)
Running == {e \in stored : HourOf[e] >= clock}

(* The running hour, by a new reading of the clock, replaces the cell of   *)
(* `label' unless it is empty.                                             *)
WithRunning(cells, hour) ==
  IF Running = {} THEN cells
  ELSE [e \in Event |-> IF e \in Running THEN cells[e] + 1
                        ELSE IF HourOf[e] = hour THEN 0 ELSE cells[e]]

ReadRunning(w) ==
  /\ stage[w] = "archive"
  /\ stage' = [stage EXCEPT ![w] = "done"]
  /\ shown' = [shown EXCEPT ![w] = WithRunning(@, label[w])]
  /\ UNCHANGED <<vars, began, caughtUp, label>>

(* A statement of the report fails: 400, nothing is shown.                 *)
ReportFails(w) ==
  /\ stage[w] \in {"labelled", "archive"}
  /\ stage' = [stage EXCEPT ![w] = "none"]
  /\ UNCHANGED <<vars, began, caughtUp, label, shown>>

(* Workers roll up only as part of a request; all else is HourlyRollup's.  *)
RollupStep ==
  /\ \/ Tick \/ StartRound \/ RoundFailed \/ RoundOk
     \/ \E batch \in SUBSET Event : InsertEvents(batch)
     \/ \E p \in Roller : ReadCursor(p) \/ TakeSnapshot(p) \/ CommitRollup(p)
                            \/ RollupFailed(p)
  /\ UNCHANGED reportVars

ReportNext ==
  \/ RollupStep
  \/ \E w \in Web : BeginReport(w) \/ ReadLabel(w) \/ ReadArchive(w)
                      \/ ReadRunning(w) \/ ReportFails(w)

ReportSpec == ReportInit /\ [][ReportNext]_hourlyVars

-----------------------------------------------------------------------------
(* A finished report counts an event twice only if the archive already     *)
(* does, whatever commits and ticks fell between its reads.  If the hour   *)
(* did not turn while it was made and its rollup left the archive whole up *)
(* to that hour, it counts every event that was recorded, in time, before  *)
(* it began.  (When the hour turns between the two readings of the clock,     *)
(* hourly.rs:90 and :148, the cell of the hour just closed holds the new   *)
(* hour's events or none, so the second half needs its condition.)         *)
ReportExact ==
  \A w \in Web : stage[w] = "done" =>
    /\ \A e \in Event : shown[w][e] > 1 => archived[e] > 1
    /\ caughtUp[w] /\ clock = began[w].hour =>
         \A e \in began[w].events \ late : shown[w][e] > 0
=============================================================================
