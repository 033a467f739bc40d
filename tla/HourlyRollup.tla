----------------------------- MODULE HourlyRollup -----------------------------
(***************************************************************************)
(* The archiving of closed hours: usage_event rows are summed once into    *)
(* usage_hourly, up to a watermark kept in collect_offset under the kind   *)
(* 'hourly-rollup' (db.rs, rollup_closed_hours).  Two programs run it on   *)
(* the same SQLite file: the collector after each collection round         *)
(* (main.rs), and every worker of ai-monitor's web server that serves      *)
(* /api/hourly (web/hourly.rs).                                            *)
(*                                                                         *)
(* rollup_closed_hours reads the watermark in autocommit mode, then opens  *)
(* a deferred transaction, so the steps of two processes interleave.  The  *)
(* database is in WAL mode: a transaction works on the snapshot its first  *)
(* SELECT takes, and its first write fails with SQLITE_BUSY_SNAPSHOT if    *)
(* anything was committed since.  `fresh' holds exactly that condition.    *)
(***************************************************************************)
EXTENDS Integers

CONSTANTS
  Event,      \* the usage events the sources may ever report
  HourOf,     \* the hour of an event's occurred_at, hours counted from 0
  LastHour,   \* bound: the clock stops there
  Collector,  \* the collector process
  Web         \* the web server's workers that may serve /api/hourly

ASSUME RollupAssumption ==
  /\ HourOf \in [Event -> Nat]
  /\ LastHour \in Nat
  /\ Collector \notin Web

VARIABLES
  clock,      \* the hour in progress
  stored,     \* the rows of usage_event
  late,       \* history: rows inserted after their hour had been closed
  archived,   \* how many times an event is summed into usage_hourly
  cursor,     \* the hourly-rollup watermark in collect_offset
  pc,         \* where each process is
  target,     \* current_hour_start_ms of the running call
  seen,       \* the watermark the running call read
  fresh       \* the running transaction's snapshot is still the last commit

vars == <<clock, stored, late, archived, cursor, pc, target, seen, fresh>>
db == <<stored, late, archived, cursor>>

Roller == Web \cup {Collector}

(* Types, and no watermark or running call is ahead of the clock.          *)
TypeOK ==
  /\ clock \in Nat
  /\ stored \subseteq Event
  /\ late \subseteq stored
  /\ archived \in [Event -> Nat]
  /\ cursor \in 0..clock
  /\ pc \in [Roller -> {"idle", "round", "called", "read", "snapshot"}]
  /\ target \in [Roller -> 0..clock]
  /\ seen \in [Roller -> Nat]
  /\ fresh \in [Roller -> BOOLEAN]

Init ==
  /\ clock = 0
  /\ stored = {}
  /\ late = {}
  /\ archived = [e \in Event |-> 0]
  /\ cursor = 0
  /\ pc = [p \in Roller |-> "idle"]
  /\ target = [p \in Roller |-> 0]
  /\ seen = [p \in Roller |-> 0]
  /\ fresh = [p \in Roller |-> FALSE]

-----------------------------------------------------------------------------
(* A commit outdates the snapshot of every open transaction.               *)
Committed == fresh' = [p \in Roller |-> FALSE]

(* The wall clock enters the next hour.                                    *)
Tick ==
  /\ clock < LastHour
  /\ clock' = clock + 1
  /\ UNCHANGED <<db, pc, target, seen, fresh>>

(* The main loop takes `now' once, before the round.                       *)
StartRound ==
  /\ pc[Collector] = "idle"
  /\ pc' = [pc EXCEPT ![Collector] = "round"]
  /\ target' = [target EXCEPT ![Collector] = clock]
  /\ UNCHANGED <<clock, db, seen, fresh>>

(* One batch of the round: INSERT OR IGNORE in one transaction.  Sources   *)
(* report an event as late as they like after it happened, never before.   *)
InsertEvents(batch) ==
  LET new == batch \ stored IN
  /\ pc[Collector] = "round"
  /\ new # {}
  /\ \A e \in new : HourOf[e] <= clock
  /\ stored' = stored \cup new
  /\ late' = late \cup {e \in new : HourOf[e] < cursor}
  /\ Committed
  /\ UNCHANGED <<clock, archived, cursor, pc, target, seen>>

(* The round failed: the loop logs it and skips the rollup.                *)
RoundFailed ==
  /\ pc[Collector] = "round"
  /\ pc' = [pc EXCEPT ![Collector] = "idle"]
  /\ UNCHANGED <<clock, db, target, seen, fresh>>

(* The round ended: rollup_closed_hours(connection, now).                  *)
RoundOk ==
  /\ pc[Collector] = "round"
  /\ pc' = [pc EXCEPT ![Collector] = "called"]
  /\ UNCHANGED <<clock, db, target, seen, fresh>>

(* A request to /api/hourly calls rollup_closed_hours with its own `now'.  *)
HourlyLoad(w) ==
  /\ pc[w] = "idle"
  /\ pc' = [pc EXCEPT ![w] = "called"]
  /\ target' = [target EXCEPT ![w] = clock]
  /\ UNCHANGED <<clock, db, seen, fresh>>

(* Mutant: an unreadable watermark is taken for 0.                         *)
ReadCursorAsZero(p) ==
  /\ pc[p] = "called"
  /\ cursor < target[p]
  /\ pc' = [pc EXCEPT ![p] = "read"]
  /\ seen' = [seen EXCEPT ![p] = 0]
  /\ UNCHANGED <<clock, db, target, fresh>>

(* The watermark is read outside of any transaction.                       *)
ReadCursor(p) ==
  /\ pc[p] = "called"
  /\ \/ /\ cursor >= target[p]
        /\ pc' = [pc EXCEPT ![p] = "idle"]
        /\ UNCHANGED seen
     \/ /\ cursor < target[p]
        /\ pc' = [pc EXCEPT ![p] = "read"]
        /\ seen' = [seen EXCEPT ![p] = cursor]
  /\ UNCHANGED <<clock, db, target, fresh>>

(* BEGIN, and the COUNT(DISTINCT ...) that fixes the snapshot.             *)
TakeSnapshot(p) ==
  /\ pc[p] = "read"
  /\ pc' = [pc EXCEPT ![p] = "snapshot"]
  /\ fresh' = [fresh EXCEPT ![p] = TRUE]
  /\ UNCHANGED <<clock, db, target, seen>>

(* Mutants: the hour in progress is taken along; the first hour is skipped.*)
InRangeInclusive(e, from, upto) ==
  e \in stored /\ from <= HourOf[e] /\ HourOf[e] <= upto
InRangeAfter(e, from, upto) ==
  e \in stored /\ from < HourOf[e] /\ HourOf[e] < upto

(* The rows summed by a rollup from one watermark up to another.           *)
InRange(e, from, upto) == e \in stored /\ from <= HourOf[e] /\ HourOf[e] < upto

(* Mutants: the watermark is not written, or is written an hour ahead.     *)
CommitRollupWritingCursor(p, next) ==
  /\ pc[p] = "snapshot"
  /\ fresh[p]
  /\ archived' = [e \in Event |-> IF InRange(e, seen[p], target[p])
                                  THEN archived[e] + 1 ELSE archived[e]]
  /\ cursor' = next
  /\ pc' = [pc EXCEPT ![p] = "idle"]
  /\ Committed
  /\ UNCHANGED <<clock, stored, late, target, seen>>
CommitRollupWithoutCursor(p) == CommitRollupWritingCursor(p, cursor)
CommitRollupAhead(p) == CommitRollupWritingCursor(p, target[p] + 1)

(* INSERT ... ON CONFLICT DO UPDATE adds the range to usage_hourly, the    *)
(* new watermark is written, COMMIT.                                       *)
CommitRollup(p) ==
  /\ pc[p] = "snapshot"
  /\ fresh[p]
  /\ archived' = [e \in Event |-> IF InRange(e, seen[p], target[p])
                                  THEN archived[e] + 1 ELSE archived[e]]
  /\ cursor' = target[p]
  /\ pc' = [pc EXCEPT ![p] = "idle"]
  /\ Committed
  /\ UNCHANGED <<clock, stored, late, target, seen>>

(* Any statement of the call may fail, a stale snapshot always does, and   *)
(* the process may be killed: the transaction is rolled back.              *)
RollupFailed(p) ==
  /\ pc[p] \in {"called", "read", "snapshot"}
  /\ pc' = [pc EXCEPT ![p] = "idle"]
  /\ UNCHANGED <<clock, db, target, seen, fresh>>

Next ==
  \/ Tick
  \/ StartRound
  \/ \E batch \in SUBSET Event : InsertEvents(batch)
  \/ RoundFailed
  \/ RoundOk
  \/ \E w \in Web : HourlyLoad(w)
  \/ \E p \in Roller : ReadCursor(p) \/ TakeSnapshot(p) \/ CommitRollup(p)
                         \/ RollupFailed(p)

Spec == Init /\ [][Next]_vars

(* The main loop starts a round every minute and goes through it.  Rounds  *)
(* and rollups may fail, but not for ever: each is retried every minute    *)
(* with a fresh transaction of a few milliseconds.                         *)
Fairness ==
  /\ WF_vars(StartRound)
  /\ SF_vars(RoundOk)
  /\ SF_vars(ReadCursor(Collector))
  /\ SF_vars(TakeSnapshot(Collector))
  /\ SF_vars(CommitRollup(Collector))

FairSpec == Spec /\ Fairness

-----------------------------------------------------------------------------
(* Only closed hours are archived ("Current in-progress hour is excluded", *)
(* db.rs:199): what usage_hourly sums are stored events of past hours.     *)
OnlyClosedHours ==
  \A e \in Event : archived[e] > 0 => e \in stored /\ HourOf[e] < clock

(* No event recorded before its hour was closed is missing from the        *)
(* archive once the watermark has passed that hour.                        *)
NoGap ==
  \A e \in stored \ late : HourOf[e] < cursor => archived[e] > 0

(* No event is summed into usage_hourly twice.                             *)
AtMostOnce == \A e \in Event : archived[e] <= 1

(* "Closed past hours are never re-scanned or modified once archived"      *)
(* (db.rs:200): no step changes what is summed for an hour below the       *)
(* watermark, and the watermark never goes back.                           *)
ClosedHoursFrozen ==
  [][/\ cursor' >= cursor
     /\ \A e \in Event : HourOf[e] < cursor => archived'[e] = archived[e]]_vars

(* The part of it that counts for a reader of the archive: an hour the     *)
(* watermark has passed keeps its sums, whoever rolls up and from whichever *)
(* watermark it started.                                                   *)
ArchivedHoursFrozen ==
  [][\A e \in Event : HourOf[e] < cursor => archived'[e] = archived[e]]_vars

(* The row of an hour in usage_hourly is "该小时全模型汇总" (schema.sql:84),   *)
(* the total of that hour: every stored event of a closed hour is in it.   *)
(* It does not hold: an event stored after its hour was closed stays out.  *)
HourTotalComplete ==
  \A e \in stored : HourOf[e] < cursor => archived[e] = 1

(* An event recorded in time is archived once its hour is over: the        *)
(* collector alone brings usage_hourly up to date.                         *)
EventuallyArchived ==
  \A e \in Event :
    [](e \in stored \ late /\ HourOf[e] < clock => <>(archived[e] > 0))

(* The promise of HourlyArchive, `archived' read as it is.                 *)
Archive == INSTANCE HourlyArchive
ArchiveSpec == Archive!Spec
=============================================================================
