----------------------------- MODULE HourlyRebuild -----------------------------
(***************************************************************************)
(* The start of the collector (main.rs): one-off backfills correct         *)
(* usage_event, each guarded by a marker in collect_offset, and when they  *)
(* changed rows the hourly archive is emptied, its watermark is set back   *)
(* to 0 and the rollup runs over all history.  The three steps are         *)
(* separate transactions of one process, beside the web workers' rollups.  *)
(*                                                                         *)
(* An older version of the collector stored duplicates of some requests    *)
(* and skipped others (backfill_codex_records, backfill_omp_model_usage);  *)
(* the behaviours start with that version running.  The two backfills that *)
(* ask for the rebuild have the same shape and are one backfill here.      *)
(***************************************************************************)
EXTENDS HourlyRollup

CONSTANTS
  Duplicate,  \* events the old version stored though they repeat others
  Omitted,    \* events the old version skipped
  Faults      \* whether the collector may crash or its statements may fail

ASSUME RebuildAssumption ==
  /\ Duplicate \subseteq Event
  /\ Omitted \subseteq Event
  /\ Faults \in BOOLEAN

VARIABLES
  phase,    \* what the collector process is doing
  changed,  \* needs_hourly_reset, and the rows counted for it so far
  marker,   \* the backfill's marker row in collect_offset
  filled,   \* history: the events the backfill inserted
  cut,      \* history: the start was cut short when it owed a rebuild
  overlap   \* history: a rollup was committed from a watermark that no longer
            \* held, or between the wipe and the rewind

startup == <<phase, changed, marker, filled, cut, overlap>>
allVars == <<vars, startup>>

(* "old" and "up": in the main loop of the old and of the new version.     *)
Phase == {"old", "down", "delete", "insert", "mark", "wipe", "rewind", "up"}

RebuildTypeOK ==
  /\ TypeOK
  /\ phase \in Phase
  /\ changed \in BOOLEAN
  /\ marker \in BOOLEAN
  /\ filled \subseteq Omitted
  /\ {cut, overlap} \subseteq BOOLEAN
  /\ phase \notin {"old", "up"} => pc[Collector] = "idle"

RebuildInit ==
  /\ Init
  /\ phase = "old"
  /\ changed = FALSE
  /\ marker = FALSE
  /\ filled = {}
  /\ cut = FALSE
  /\ overlap = FALSE

-----------------------------------------------------------------------------
(* What the running version takes from the logs in a round.                *)
Collected == IF phase = "old" THEN Event \ Omitted ELSE Event \ Duplicate

(* A rollup ends.                                                          *)
RollupCommits(p) ==
  /\ CommitRollup(p)
  /\ overlap' = (overlap \/ seen[p] # cursor \/ phase = "rewind")
  /\ UNCHANGED <<phase, changed, marker, filled, cut>>

MainLoop ==
  /\ phase \in {"old", "up"}
  /\ \/ /\ \/ StartRound
           \/ \E batch \in SUBSET Collected : InsertEvents(batch)
           \/ RoundFailed
           \/ RoundOk
           \/ ReadCursor(Collector)
           \/ TakeSnapshot(Collector)
           \/ RollupFailed(Collector)
        /\ UNCHANGED startup
     \/ RollupCommits(Collector)

WebWorker ==
  \E w \in Web :
    \/ /\ HourlyLoad(w) \/ ReadCursor(w) \/ TakeSnapshot(w) \/ RollupFailed(w)
       /\ UNCHANGED startup
    \/ RollupCommits(w)

(* The old version is stopped for the upgrade.                             *)
Upgrade ==
  /\ phase = "old"
  /\ phase' = "down"
  /\ pc' = [pc EXCEPT ![Collector] = "idle"]
  /\ UNCHANGED <<clock, db, target, seen, fresh, changed, marker, filled, cut, overlap>>

(* Rows were changed for which usage_hourly has not been rebuilt.          *)
OwesRebuild == changed /\ phase # "up"

(* The new version dies anywhere; what it held in memory is lost.          *)
Crash ==
  /\ Faults
  /\ phase \notin {"old", "down"}
  /\ phase' = "down"
  /\ changed' = FALSE
  /\ cut' = (cut \/ OwesRebuild)
  /\ pc' = [pc EXCEPT ![Collector] = "idle"]
  /\ UNCHANGED <<clock, db, target, seen, fresh, marker, filled, overlap>>

(* codex_reconcile_backfill_once: nothing to do when the marker is there.  *)
Start ==
  /\ phase = "down"
  /\ phase' = IF marker THEN "up" ELSE "delete"
  /\ changed' = FALSE
  /\ UNCHANGED <<vars, marker, filled, cut, overlap>>

(* The first transaction of the backfill removes the duplicates.           *)
DeleteDuplicates ==
  /\ phase = "delete"
  /\ phase' = "insert"
  /\ stored' = stored \ Duplicate
  /\ late' = late \ Duplicate
  /\ changed' = (stored \cap Duplicate # {})
  /\ Committed
  /\ UNCHANGED <<clock, archived, cursor, pc, target, seen, marker, filled, cut, overlap>>

(* The second one inserts what had been skipped.                           *)
InsertOmitted ==
  LET new == {e \in Omitted : HourOf[e] <= clock} \ stored IN
  /\ phase = "insert"
  /\ phase' = "mark"
  /\ stored' = stored \cup new
  /\ late' = late \cup {e \in new : HourOf[e] < cursor}
  /\ changed' = (changed \/ new # {})
  /\ filled' = filled \cup new
  /\ Committed
  /\ UNCHANGED <<clock, archived, cursor, pc, target, seen, marker, cut, overlap>>

(* Mutant of SaveMarker: the reset is forgotten.                           *)
MarkerWithoutRebuild ==
  /\ phase = "mark"
  /\ marker' = TRUE
  /\ phase' = "up"
  /\ Committed
  /\ UNCHANGED <<clock, db, pc, target, seen, changed, filled, cut, overlap>>

(* The backfill succeeded: its marker is saved.                            *)
SaveMarker ==
  /\ phase = "mark"
  /\ marker' = TRUE
  /\ phase' = IF changed THEN "wipe" ELSE "up"
  /\ Committed
  /\ UNCHANGED <<clock, db, pc, target, seen, changed, filled, cut, overlap>>

(* An error in the backfill is logged; needs_hourly_reset stays false.     *)
BackfillFailed ==
  /\ Faults
  /\ phase \in {"delete", "insert", "mark"}
  /\ phase' = "up"
  /\ changed' = FALSE
  /\ cut' = (cut \/ OwesRebuild)
  /\ UNCHANGED <<vars, marker, filled, overlap>>

(* Mutant of WipeHourly: the watermark is set back first.                  *)
RewindFirst ==
  /\ phase = "wipe"
  /\ phase' = "rewind"
  /\ cursor' = 0
  /\ Committed
  /\ UNCHANGED <<clock, stored, late, archived, pc, target, seen, changed, marker, filled, cut, overlap>>

(* DELETE FROM usage_hourly, a transaction of its own.                     *)
WipeHourly ==
  /\ phase = "wipe"
  /\ phase' = "rewind"
  /\ archived' = [e \in Event |-> 0]
  /\ Committed
  /\ UNCHANGED <<clock, stored, late, cursor, pc, target, seen, changed, marker, filled, cut, overlap>>

(* UPDATE collect_offset SET cursor = '0', then the rollup is called.      *)
RewindCursor ==
  /\ phase = "rewind"
  /\ phase' = "up"
  /\ cursor' = 0
  /\ Committed
  /\ pc' = [pc EXCEPT ![Collector] = "called"]
  /\ target' = [target EXCEPT ![Collector] = clock]
  /\ UNCHANGED <<clock, stored, late, archived, seen, changed, marker, filled, cut, overlap>>

(* Either statement fails (the file is busy): logged, the loop starts.     *)
ResetFailed ==
  /\ Faults
  /\ phase \in {"wipe", "rewind"}
  /\ phase' = "up"
  /\ cut' = TRUE
  /\ UNCHANGED <<vars, changed, marker, filled, overlap>>

RebuildNext ==
  \/ Tick /\ UNCHANGED startup
  \/ MainLoop
  \/ WebWorker
  \/ Upgrade
  \/ Crash
  \/ Start
  \/ DeleteDuplicates
  \/ InsertOmitted
  \/ SaveMarker
  \/ BackfillFailed
  \/ WipeHourly
  \/ RewindCursor
  \/ ResetFailed

RebuildSpec == RebuildInit /\ [][RebuildNext]_allVars

-----------------------------------------------------------------------------
(* Rows summed once are the rows below the watermark, through the wipe and *)
(* the rewind, whatever stops between the two (main.rs:91-92 empties the   *)
(* table before it sets the watermark back), unless rollups overlapped.    *)
ArchivedBelowCursor ==
  ~overlap =>
    \A e \in Event : archived[e] > 0 => archived[e] = 1 /\ HourOf[e] < cursor

(* The archive agrees with usage_event on the rows the backfill corrected, *)
(* as far as the watermark goes.                                           *)
Rebuilt ==
  \A e \in Duplicate \cup filled :
    HourOf[e] < cursor => archived[e] = IF e \in stored THEN 1 ELSE 0

(* Once the backfill is marked done and the collector is up, the archive   *)
(* has been rebuilt from what the backfill left in usage_event, through    *)
(* crashes and errors that owe no rebuild and rollups that do not overlap. *)
RebuildConsistent == ~cut /\ ~overlap /\ phase = "up" /\ marker => Rebuilt

(* The same without the exceptions: "an interrupted backfill runs again on *)
(* the next start" (main.rs:149-150).                                      *)
RebuildSurvives == phase = "up" /\ marker => Rebuilt
=============================================================================
