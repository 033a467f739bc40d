-------------------------- MODULE HourlyRollupProofs --------------------------
(***************************************************************************)
(* Theorems about HourlyRollup, for every set of events, of hours and of   *)
(* processes: types, what is archived, and, when the calls of the rollup   *)
(* do not overlap, as those of the collector alone, that no event is       *)
(* archived twice, that closed hours stay as they are and that             *)
(* HourlyArchive is implemented.                                           *)
(* Then about HourlyRebuild, with or without faults: the types, that the   *)
(* archive sums each row below the watermark once unless rollups overlap,  *)
(* and that a rebuild which is not cut short leaves the archive in         *)
(* agreement with what the backfill left in usage_event.                   *)
(***************************************************************************)
EXTENDS HourlyRebuild, TLAPS

LEMMA CollectorIsRoller == Collector \in Roller
  BY DEF Roller

-----------------------------------------------------------------------------
LEMMA TypeStep == TypeOK /\ [Next]_vars => TypeOK'
<1> USE RollupAssumption, CollectorIsRoller
<1> SUFFICES ASSUME TypeOK, [Next]_vars PROVE TypeOK'
  OBVIOUS
<1> USE DEF TypeOK, db
<1>1. CASE Tick
  BY <1>1 DEF Tick
<1>2. CASE StartRound
  BY <1>2 DEF StartRound
<1>3. ASSUME NEW batch \in SUBSET Event, InsertEvents(batch) PROVE TypeOK'
  BY <1>3 DEF InsertEvents, Committed
<1>4. CASE RoundFailed
  BY <1>4 DEF RoundFailed
<1>5. CASE RoundOk
  BY <1>5 DEF RoundOk
<1>6. ASSUME NEW w \in Web, HourlyLoad(w) PROVE TypeOK'
  BY <1>6 DEF HourlyLoad, Roller
<1>7. ASSUME NEW p \in Roller, ReadCursor(p) PROVE TypeOK'
  BY <1>7 DEF ReadCursor
<1>8. ASSUME NEW p \in Roller, TakeSnapshot(p) PROVE TypeOK'
  BY <1>8 DEF TakeSnapshot
<1>9. ASSUME NEW p \in Roller, CommitRollup(p) PROVE TypeOK'
  BY <1>9 DEF CommitRollup, Committed
<1>10. ASSUME NEW p \in Roller, RollupFailed(p) PROVE TypeOK'
  BY <1>10 DEF RollupFailed
<1>11. CASE UNCHANGED vars
  BY <1>11 DEF vars
<1> QED
  BY <1>1, <1>2, <1>3, <1>4, <1>5, <1>6, <1>7, <1>8, <1>9, <1>10, <1>11
  DEF Next

(* Types, and neither the watermark nor the target of a call (db.rs        *)
(* current_hour_start_ms) is ever ahead of the clock.                      *)
THEOREM TypeCorrect == Spec => []TypeOK
<1> USE RollupAssumption, CollectorIsRoller
<1>1. Init => TypeOK
  BY DEF Init, TypeOK
<1> QED
  BY <1>1, TypeStep, PTL DEF Spec

-----------------------------------------------------------------------------
(* Whatever the processes do, usage_hourly only sums stored events, and    *)
(* never one of the hour in progress (db.rs:199).                          *)
THEOREM OnlyClosedHoursHolds == Spec => []OnlyClosedHours
<1> USE RollupAssumption, CollectorIsRoller
<1>1. Init => OnlyClosedHours
  BY DEF Init, OnlyClosedHours
<1>2. TypeOK /\ TypeOK' /\ OnlyClosedHours /\ [Next]_vars => OnlyClosedHours'
  <2> SUFFICES ASSUME TypeOK, TypeOK', OnlyClosedHours, [Next]_vars
               PROVE  OnlyClosedHours'
    OBVIOUS
  <2> USE DEF TypeOK, OnlyClosedHours, db
  <2>1. ASSUME NEW p \in Roller, CommitRollup(p) PROVE OnlyClosedHours'
    BY <2>1 DEF CommitRollup, InRange
  <2>2. ASSUME NEW batch \in SUBSET Event, InsertEvents(batch)
        PROVE  OnlyClosedHours'
    BY <2>2 DEF InsertEvents
  <2>3. CASE Tick
    BY <2>3 DEF Tick
  <2>4. ASSUME UNCHANGED <<clock, stored, archived>> PROVE OnlyClosedHours'
    BY <2>4
  <2> QED
    BY <2>1, <2>2, <2>3, <2>4
    DEF Next, StartRound, RoundFailed, RoundOk, HourlyLoad, ReadCursor,
        TakeSnapshot, RollupFailed, vars
<1> QED
  BY <1>1, <1>2, TypeCorrect, PTL DEF Spec

-----------------------------------------------------------------------------
(* A call is open from the reading of the watermark to its commit.  Where  *)
(* no two calls are open at a time, as if a transaction begun for writing  *)
(* held db.rs:208 as well, any number of processes may run the rollup.     *)
Open(p) == pc[p] \in {"read", "snapshot"}
OneOpenCall == \A p, q \in Roller : Open(p) /\ Open(q) => p = q

(* The collector alone has one call open at a time.                        *)
LEMMA SoloIsSerial ==
  ASSUME Web = {}
  PROVE  Spec => []OneOpenCall
<1>1. OneOpenCall
  BY DEF OneOpenCall, Roller
<1> QED
  BY <1>1, PTL

(* What makes such calls safe: what has been archived is below the         *)
(* watermark, and the watermark an open call holds is still the one in the *)
(* database, so the range it adds is new.                                  *)
SerialInv ==
  /\ \A e \in Event : /\ archived[e] \in {0, 1}
                      /\ archived[e] = 1 => e \in stored /\ HourOf[e] < cursor
  /\ \A e \in stored \ late : HourOf[e] < cursor => archived[e] = 1
  /\ \A p \in Roller : Open(p) => seen[p] = cursor /\ cursor < target[p]

LEMMA SerialInvariant == Spec /\ []OneOpenCall => []SerialInv
<1> USE RollupAssumption, CollectorIsRoller DEF Open
<1>1. Init => SerialInv
  BY DEF Init, SerialInv
<1>2. TypeOK /\ OneOpenCall /\ SerialInv /\ [Next]_vars => SerialInv'
  <2> SUFFICES ASSUME TypeOK, OneOpenCall, SerialInv, [Next]_vars PROVE SerialInv'
    OBVIOUS
  <2> USE DEF TypeOK, SerialInv, db
  <2>1. CASE Tick
    BY <2>1 DEF Tick
  <2>2. CASE StartRound
    BY <2>2 DEF StartRound
  <2>3. ASSUME NEW batch \in SUBSET Event, InsertEvents(batch) PROVE SerialInv'
    BY <2>3 DEF InsertEvents
  <2>4. CASE RoundFailed
    BY <2>4 DEF RoundFailed
  <2>5. CASE RoundOk
    BY <2>5 DEF RoundOk
  <2>6. ASSUME NEW w \in Web, HourlyLoad(w) PROVE SerialInv'
    BY <2>6 DEF HourlyLoad, Roller
  <2>7. ASSUME NEW p \in Roller, ReadCursor(p) PROVE SerialInv'
    BY <2>7 DEF ReadCursor
  <2>8. ASSUME NEW p \in Roller, TakeSnapshot(p) PROVE SerialInv'
    BY <2>8 DEF TakeSnapshot
  <2>9. ASSUME NEW p \in Roller, CommitRollup(p) PROVE SerialInv'
    <3>1. \A q \in Roller : ~Open(q)'
      BY <2>9 DEF CommitRollup, OneOpenCall
    <3>2. \A e \in Event : InRange(e, cursor, target[p]) => archived[e] = 0
      BY DEF InRange
    <3> QED
      BY <2>9, <3>1, <3>2 DEF CommitRollup, InRange
  <2>10. ASSUME NEW p \in Roller, RollupFailed(p) PROVE SerialInv'
    BY <2>10 DEF RollupFailed
  <2>11. CASE UNCHANGED vars
    BY <2>11 DEF vars
  <2> QED
    BY <2>1, <2>2, <2>3, <2>4, <2>5, <2>6, <2>7, <2>8, <2>9, <2>10, <2>11 DEF Next
<1> QED
  BY <1>1, <1>2, TypeCorrect, PTL DEF Spec

(* Where calls do not overlap, rollup_closed_hours never sums an event     *)
(* into usage_hourly a second time.                                        *)
THEOREM SerialAtMostOnce == Spec /\ []OneOpenCall => []AtMostOnce
<1>1. SerialInv => AtMostOnce
  <2> SUFFICES ASSUME SerialInv, NEW e \in Event PROVE archived[e] <= 1
    BY DEF AtMostOnce
  <2>1. archived[e] = 0 \/ archived[e] = 1
    BY DEF SerialInv
  <2> QED
    BY <2>1
<1> QED
  BY <1>1, SerialInvariant, PTL

(* With the collector alone no event is summed twice.                      *)
THEOREM SoloAtMostOnce ==
  ASSUME Web = {}
  PROVE  Spec => []AtMostOnce
BY SoloIsSerial, SerialAtMostOnce, PTL

(* Where calls do not overlap, an event recorded before its hour was       *)
(* closed is in usage_hourly once the watermark has passed.                *)
THEOREM SerialNoGap == Spec /\ []OneOpenCall => []NoGap
<1>1. SerialInv => NoGap
  BY DEF SerialInv, NoGap
<1> QED
  BY <1>1, SerialInvariant, PTL

(* With the collector alone the watermark leaves nothing out.              *)
THEOREM SoloNoGap ==
  ASSUME Web = {}
  PROVE  Spec => []NoGap
BY SoloIsSerial, SerialNoGap, PTL

-----------------------------------------------------------------------------
(* A step of calls that do not overlap is a step of the abstract archive.  *)
LEMMA SerialStep ==
  ASSUME TypeOK, SerialInv, [Next]_vars
  PROVE  [Archive!Next]_Archive!vars
<1> USE RollupAssumption, CollectorIsRoller DEF db
<1>1. CASE Tick
  BY <1>1 DEF Tick, Archive!Next, Archive!HourGoesBy, Archive!vars
<1>2. ASSUME NEW batch \in SUBSET Event, InsertEvents(batch)
      PROVE  Archive!Record
  BY <1>2 DEF InsertEvents, Archive!Record
<1>3. ASSUME NEW p \in Roller, CommitRollup(p) PROVE Archive!Next
  <2>1. /\ cursor < target[p] /\ target[p] <= clock /\ seen[p] = cursor
        /\ target[p] \in 1..clock
    BY <1>3 DEF CommitRollup, TypeOK, SerialInv, Open
  <2>2. archived' = [e \in Event |->
          IF e \in stored /\ cursor <= HourOf[e] /\ HourOf[e] < target[p]
          THEN 1 ELSE archived[e]]
    <3>1. ASSUME NEW e \in Event, InRange(e, cursor, target[p])
          PROVE  archived[e] + 1 = 1
      BY <3>1 DEF TypeOK, SerialInv, InRange
    <3> QED
      BY <1>3, <2>1, <3>1 DEF CommitRollup, InRange
  <2>3. Archive!CloseHours(target[p])
    BY <1>3, <2>1, <2>2 DEF CommitRollup, Archive!CloseHours
  <2> QED
    BY <2>1, <2>3 DEF Archive!Next
<1>4. ASSUME UNCHANGED <<clock, stored, archived, cursor>>
      PROVE  UNCHANGED Archive!vars
  BY <1>4 DEF Archive!vars
<1> QED
  BY <1>1, <1>2, <1>3, <1>4
  DEF Next, StartRound, RoundFailed, RoundOk, HourlyLoad, ReadCursor, TakeSnapshot,
      RollupFailed, vars, Archive!Next

(* Where calls do not overlap, the rollup implements HourlyArchive, with   *)
(* any number of callers: closing hours is atomic, exact and done once.    *)
THEOREM SerialImplementsArchive == Spec /\ []OneOpenCall => ArchiveSpec
<1>1. Init => Archive!Init
  BY DEF Init, Archive!Init
<1>2. TypeOK /\ SerialInv /\ [Next]_vars => [Archive!Next]_Archive!vars
  BY SerialStep
<1> QED
  BY <1>1, <1>2, TypeCorrect, SerialInvariant, PTL
  DEF Spec, ArchiveSpec, Archive!Spec

(* With the collector alone, the rollup implements HourlyArchive.          *)
THEOREM SoloImplementsArchive ==
  ASSUME Web = {}
  PROVE  Spec => ArchiveSpec
BY SoloIsSerial, SerialImplementsArchive, PTL

(* Where calls do not overlap, "closed past hours are never re-scanned or  *)
(* modified once archived" (db.rs:200).                                    *)
THEOREM SerialClosedHoursFrozen == Spec /\ []OneOpenCall => ClosedHoursFrozen
<1>1. TypeOK /\ SerialInv /\ [Next]_vars =>
        [/\ cursor' >= cursor
         /\ \A e \in Event : HourOf[e] < cursor => archived'[e] = archived[e]]_vars
  <2> SUFFICES ASSUME TypeOK, SerialInv, [Next]_vars
               PROVE  /\ cursor' >= cursor
                      /\ \A e \in Event :
                           HourOf[e] < cursor => archived'[e] = archived[e]
    OBVIOUS
  <2>1. [Archive!Next]_Archive!vars
    BY SerialStep
  <2> QED
    BY <2>1, RollupAssumption
    DEF Archive!Next, Archive!HourGoesBy, Archive!Record, Archive!CloseHours,
        Archive!vars, TypeOK
<1> QED
  BY <1>1, TypeCorrect, SerialInvariant, PTL DEF Spec, ClosedHoursFrozen

(* With the collector alone, closed hours stay as they are.                *)
THEOREM SoloClosedHoursFrozen ==
  ASSUME Web = {}
  PROVE  Spec => ClosedHoursFrozen
BY SoloIsSerial, SerialClosedHoursFrozen, PTL

-----------------------------------------------------------------------------
(* A running call has a range to sum.                                      *)
RangesNonEmpty ==
  \A p \in Roller : pc[p] \in {"read", "snapshot"} => seen[p] < target[p]

(* The wipe holds until the watermark is set back.                         *)
WipedUntilRewind ==
  ~overlap /\ phase = "rewind" => \A e \in Event : archived[e] = 0

(* What the marker and the count of changed rows say of the start.         *)
MarkerInv ==
  /\ marker => phase \in {"wipe", "rewind", "up", "down"}
  /\ phase \in {"wipe", "rewind"} => marker /\ changed
  /\ ~marker /\ changed => phase \in {"insert", "mark"}

(* As long as no start was cut short with a rebuild owed: rows inserted by *)
(* the backfill are counted and stay, the duplicates are gone when it is   *)
(* done, and before that only stored duplicates are summed.                *)
BackfillInv ==
  /\ ~marker /\ filled # {} => phase = "mark" /\ changed
  /\ marker \/ phase = "mark" => filled \subseteq stored
  /\ phase = "insert" \/ (phase = "mark" /\ ~changed) => stored \cap Duplicate = {}
  /\ ~marker /\ ~changed => \A e \in Duplicate : archived[e] > 0 => e \in stored

RebuildInv ==
  /\ ArchivedBelowCursor
  /\ RangesNonEmpty
  /\ WipedUntilRewind
  /\ MarkerInv
  /\ ~cut => BackfillInv
  /\ ~cut /\ ~overlap /\ marker /\ phase \in {"up", "down"} => Rebuilt

-----------------------------------------------------------------------------
(* The rollup's own steps keep its types, whatever starts them.            *)
THEOREM RebuildTypeCorrect == RebuildSpec => []RebuildTypeOK
<1> USE RollupAssumption, RebuildAssumption, CollectorIsRoller
<1>1. RebuildInit => RebuildTypeOK
  <2>1. Init => TypeOK
    BY DEF Init, TypeOK
  <2>2. RebuildInit => pc[Collector] = "idle" /\ phase = "old"
    BY DEF RebuildInit, Init
  <2> QED
    BY <2>1, <2>2 DEF RebuildInit, RebuildTypeOK, Phase
<1>2. RebuildTypeOK /\ [RebuildNext]_allVars => RebuildTypeOK'
  <2> SUFFICES ASSUME RebuildTypeOK, [RebuildNext]_allVars PROVE RebuildTypeOK'
    OBVIOUS
  <2> DEFINE Ours == /\ phase' \in Phase
                     /\ changed' \in BOOLEAN
                     /\ marker' \in BOOLEAN
                     /\ filled' \subseteq Omitted
                     /\ {cut', overlap'} \subseteq BOOLEAN
                     /\ phase' \notin {"old", "up"} => pc'[Collector] = "idle"
  <2>1. ASSUME [Next]_vars, Ours PROVE RebuildTypeOK'
    BY <2>1, TypeStep DEF RebuildTypeOK
  <2>2. CASE Tick /\ UNCHANGED startup
    BY <2>1, <2>2 DEF Next, Tick, startup, RebuildTypeOK
  <2>3. CASE MainLoop
    <3>1. CASE RollupCommits(Collector)
      <4>1. Next
        BY <3>1 DEF RollupCommits, Next
      <4>2. Ours
        BY <2>3, <3>1 DEF MainLoop, RollupCommits, RebuildTypeOK
      <4> QED
        BY <2>1, <4>1, <4>2
    <3>2. CASE UNCHANGED startup
      <4>1. Next
        BY <2>3 DEF MainLoop, RollupCommits, Next, Collected
      <4>2. Ours
        BY <2>3, <3>2 DEF MainLoop, startup, RebuildTypeOK
      <4> QED
        BY <2>1, <4>1, <4>2
    <3> QED
      BY <2>3, <3>1, <3>2 DEF MainLoop
  <2>4. CASE WebWorker
    <3>1. PICK w \in Web :
            \/ (HourlyLoad(w) \/ ReadCursor(w) \/ TakeSnapshot(w) \/ RollupFailed(w))
                 /\ UNCHANGED startup
            \/ RollupCommits(w)
      BY <2>4 DEF WebWorker
    <3>2. w \in Roller /\ w # Collector
      BY DEF Roller
    <3>3. Next
      BY <3>1, <3>2 DEF RollupCommits, Next
    <3>4. pc'[Collector] = pc[Collector]
      BY <3>1, <3>2
      DEF RollupCommits, HourlyLoad, ReadCursor, TakeSnapshot, RollupFailed, CommitRollup,
          RebuildTypeOK, TypeOK
    <3>5. Ours
      BY <3>1, <3>4 DEF RollupCommits, startup, RebuildTypeOK
    <3> QED
      BY <2>1, <3>3, <3>5
  <2> USE DEF RebuildTypeOK, TypeOK, Phase, db, startup, vars
  <2>5. CASE Upgrade
    BY <2>5 DEF Upgrade
  <2>6. CASE Crash
    BY <2>6 DEF Crash, OwesRebuild
  <2>7. CASE Start
    BY <2>7 DEF Start
  <2>8. CASE DeleteDuplicates
    BY <2>8 DEF DeleteDuplicates, Committed
  <2>9. CASE InsertOmitted
    BY <2>9 DEF InsertOmitted, Committed
  <2>10. CASE SaveMarker
    BY <2>10 DEF SaveMarker, Committed
  <2>11. CASE BackfillFailed
    BY <2>11 DEF BackfillFailed, OwesRebuild
  <2>12. CASE WipeHourly
    BY <2>12 DEF WipeHourly, Committed
  <2>13. CASE RewindCursor
    BY <2>13 DEF RewindCursor, Committed
  <2>14. CASE ResetFailed
    BY <2>14 DEF ResetFailed
  <2>15. CASE UNCHANGED allVars
    BY <2>15 DEF allVars
  <2> QED
    BY <2>2, <2>3, <2>4, <2>5, <2>6, <2>7, <2>8, <2>9, <2>10, <2>11, <2>12, <2>13,
       <2>14, <2>15 DEF RebuildNext
<1> QED
  BY <1>1, <1>2, PTL DEF RebuildSpec

-----------------------------------------------------------------------------
(* A rollup from a watermark that holds adds rows that were not summed.    *)
LEMMA CommitKeepsArchive ==
  ASSUME RebuildTypeOK, RebuildInv, NEW p \in Roller, RollupCommits(p)
  PROVE  RebuildInv'
<1> USE RollupAssumption, RebuildAssumption
<1>1. /\ archived \in [Event -> Nat] /\ cursor \in Nat
      /\ seen[p] \in Nat /\ target[p] \in Nat /\ seen[p] < target[p]
      /\ pc[p] = "snapshot"
      /\ archived' = [e \in Event |-> IF InRange(e, seen[p], target[p])
                                      THEN archived[e] + 1 ELSE archived[e]]
      /\ cursor' = target[p]
      /\ overlap' = (overlap \/ seen[p] # cursor \/ phase = "rewind")
      /\ UNCHANGED <<stored, target, seen, phase, changed, marker, filled, cut>>
  BY DEF RollupCommits, CommitRollup, RebuildTypeOK, TypeOK, RebuildInv, RangesNonEmpty
<1>2. \A e \in Event :
        archived'[e] = IF e \in stored /\ seen[p] <= HourOf[e] /\ HourOf[e] < target[p]
                       THEN archived[e] + 1 ELSE archived[e]
  BY <1>1 DEF InRange
<1>3. ArchivedBelowCursor'
  <2> SUFFICES ASSUME ~overlap', NEW e \in Event, archived'[e] > 0
               PROVE  archived'[e] = 1 /\ HourOf[e] < target[p]
    BY <1>1 DEF ArchivedBelowCursor
  <2>1. seen[p] = cursor /\ ~overlap
    BY <1>1
  <2>2. archived[e] > 0 => archived[e] = 1 /\ HourOf[e] < cursor
    BY <2>1 DEF RebuildInv, ArchivedBelowCursor
  <2>3. archived[e] \in Nat /\ HourOf[e] \in Nat
    BY <1>1
  <2> QED
    BY <1>1, <1>2, <2>1, <2>2, <2>3
<1>4. RangesNonEmpty'
  BY DEF RollupCommits, CommitRollup, RebuildInv, RangesNonEmpty, RebuildTypeOK, TypeOK
<1>5. WipedUntilRewind' /\ MarkerInv'
  BY <1>1 DEF RebuildInv, WipedUntilRewind, MarkerInv
<1>6. ASSUME ~cut PROVE BackfillInv'
  BY <1>1, <1>2, <1>6 DEF RebuildInv, BackfillInv
<1>7. ASSUME ~cut, ~overlap', marker, phase \in {"up", "down"} PROVE Rebuilt'
  <2>1. seen[p] = cursor /\ ~overlap
    BY <1>1, <1>7
  <2> SUFFICES ASSUME NEW e \in Duplicate \cup filled, HourOf[e] < cursor'
               PROVE  archived'[e] = IF e \in stored THEN 1 ELSE 0
    BY <1>1 DEF Rebuilt
  <2>2. e \in Event /\ HourOf[e] \in Nat /\ archived[e] \in Nat
    BY <1>1 DEF RebuildTypeOK
  <2>3. CASE HourOf[e] < cursor
    BY <1>1, <1>2, <1>7, <2>1, <2>2, <2>3 DEF RebuildInv, Rebuilt
  <2>4. CASE ~(HourOf[e] < cursor)
    <3>1. archived[e] = 0
      BY <1>1, <2>1, <2>2, <2>4 DEF RebuildInv, ArchivedBelowCursor
    <3> QED
      BY <1>1, <1>2, <2>1, <2>2, <2>4, <3>1
  <2> QED
    BY <2>3, <2>4
<1> QED
  BY <1>1, <1>3, <1>4, <1>5, <1>6, <1>7 DEF RebuildInv

(* The other steps of a rollup, and those of a round of the collector.     *)
LEMMA ReadingKeepsArchive ==
  ASSUME RebuildTypeOK, RebuildInv, NEW p \in Roller,
         \/ HourlyLoad(p) \/ ReadCursor(p) \/ TakeSnapshot(p) \/ RollupFailed(p)
         \/ (p = Collector /\ (StartRound \/ RoundFailed \/ RoundOk)),
         UNCHANGED startup
  PROVE  RebuildInv'
<1>1. UNCHANGED <<stored, archived, cursor, phase, changed, marker, filled, cut, overlap>>
  BY DEF HourlyLoad, ReadCursor, TakeSnapshot, RollupFailed, StartRound, RoundFailed, RoundOk,
         db, startup
<1>2. RangesNonEmpty'
  <2> USE DEF RebuildTypeOK, TypeOK, RebuildInv, RangesNonEmpty
  <2>1. CASE HourlyLoad(p)
    BY <2>1 DEF HourlyLoad
  <2>2. CASE ReadCursor(p)
    BY <2>2 DEF ReadCursor
  <2>3. CASE TakeSnapshot(p)
    BY <2>3 DEF TakeSnapshot
  <2>4. CASE RollupFailed(p)
    BY <2>4 DEF RollupFailed
  <2>5. CASE p = Collector /\ StartRound
    BY <2>5 DEF StartRound
  <2>6. CASE p = Collector /\ (RoundFailed \/ RoundOk)
    BY <2>6 DEF RoundFailed, RoundOk
  <2> QED
    BY <2>1, <2>2, <2>3, <2>4, <2>5, <2>6
<1> QED
  BY <1>1, <1>2 DEF RebuildInv, ArchivedBelowCursor, WipedUntilRewind, MarkerInv, BackfillInv,
     Rebuilt

(* A round stores what its version takes from the logs.                    *)
LEMMA InsertKeepsArchive ==
  ASSUME RebuildTypeOK, RebuildInv, phase \in {"old", "up"},
         NEW batch \in SUBSET Collected, InsertEvents(batch), UNCHANGED startup
  PROVE  RebuildInv'
<1>1. /\ stored' = stored \cup batch
      /\ UNCHANGED <<archived, cursor, pc, target, seen, phase, changed, marker, filled, cut,
                     overlap>>
  BY DEF InsertEvents, startup
<1>2. ASSUME ~cut PROVE BackfillInv'
  BY <1>1, <1>2 DEF RebuildInv, BackfillInv
<1>3. ASSUME ~cut, ~overlap, marker, phase \in {"up", "down"} PROVE Rebuilt'
  <2>1. phase = "up"
    BY <1>3
  <2>2. filled \subseteq stored /\ batch \cap Duplicate = {}
    BY <1>3, <2>1 DEF RebuildInv, BackfillInv, Collected
  <2> QED
    BY <1>1, <1>3, <2>1, <2>2 DEF RebuildInv, Rebuilt
<1> QED
  BY <1>1, <1>2, <1>3
  DEF RebuildInv, ArchivedBelowCursor, RangesNonEmpty, WipedUntilRewind, MarkerInv

(* The steps of the start, with the crash and the errors that cut it.      *)
LEMMA StartKeepsArchive ==
  ASSUME RebuildTypeOK, RebuildInv,
         \/ Upgrade \/ Crash \/ Start \/ DeleteDuplicates \/ InsertOmitted \/ SaveMarker
         \/ BackfillFailed \/ WipeHourly \/ RewindCursor \/ ResetFailed
  PROVE  RebuildInv'
<1> USE RollupAssumption, RebuildAssumption
    DEF RebuildTypeOK, TypeOK, Phase, RebuildInv, ArchivedBelowCursor, RangesNonEmpty,
        WipedUntilRewind, MarkerInv, BackfillInv, Rebuilt, db, vars
<1>1. CASE Upgrade
  BY <1>1 DEF Upgrade
<1>2. CASE Crash
  BY <1>2 DEF Crash, OwesRebuild
<1>3. CASE Start
  BY <1>3 DEF Start
<1>4. CASE DeleteDuplicates
  BY <1>4 DEF DeleteDuplicates
<1>5. CASE InsertOmitted
  BY <1>5 DEF InsertOmitted
<1>6. CASE SaveMarker
  BY <1>6 DEF SaveMarker
<1>7. CASE BackfillFailed
  BY <1>7 DEF BackfillFailed, OwesRebuild
<1>8. CASE WipeHourly
  BY <1>8 DEF WipeHourly
<1>9. CASE RewindCursor
  BY <1>9 DEF RewindCursor
<1>10. CASE ResetFailed
  BY <1>10 DEF ResetFailed
<1> QED
  BY <1>1, <1>2, <1>3, <1>4, <1>5, <1>6, <1>7, <1>8, <1>9, <1>10

(* RebuildInv is inductive.                                                *)
LEMMA RebuildInvariant == RebuildSpec => []RebuildInv
<1>1. RebuildInit => RebuildInv
  <2> SUFFICES ASSUME RebuildInit PROVE RebuildInv
    OBVIOUS
  <2>1. /\ \A e \in Event : archived[e] = 0
        /\ \A p \in Roller : pc[p] = "idle"
        /\ phase = "old" /\ filled = {} /\ ~changed /\ ~marker
    BY DEF RebuildInit, Init
  <2> QED
    BY <2>1, RebuildAssumption
    DEF RebuildInv, ArchivedBelowCursor, RangesNonEmpty, WipedUntilRewind, MarkerInv,
        BackfillInv
<1>2. RebuildTypeOK /\ RebuildInv /\ [RebuildNext]_allVars => RebuildInv'
  <2> SUFFICES ASSUME RebuildTypeOK, RebuildInv, [RebuildNext]_allVars PROVE RebuildInv'
    OBVIOUS
  <2>1. CASE MainLoop
    BY <2>1, CollectorIsRoller, CommitKeepsArchive, ReadingKeepsArchive, InsertKeepsArchive
    DEF MainLoop
  <2>2. CASE WebWorker
    BY <2>2, CommitKeepsArchive, ReadingKeepsArchive DEF WebWorker, Roller
  <2>3. ASSUME UNCHANGED <<db, pc, target, seen, startup>> PROVE RebuildInv'
    BY <2>3
    DEF RebuildInv, ArchivedBelowCursor, RangesNonEmpty, WipedUntilRewind, MarkerInv,
        BackfillInv, Rebuilt, db, startup
  <2> QED
    BY <2>1, <2>2, <2>3, StartKeepsArchive DEF RebuildNext, Tick, allVars, vars, db
<1> QED
  BY <1>1, <1>2, RebuildTypeCorrect, PTL DEF RebuildSpec

(* Rows summed once are the rows below the watermark through the wipe and  *)
(* the rewind, whatever stops between the two (main.rs:91-92), unless      *)
(* rollups overlapped.                                                     *)
THEOREM ArchivedBelowCursorHolds == RebuildSpec => []ArchivedBelowCursor
  BY RebuildInvariant, PTL DEF RebuildInv

(* A start that was never cut short with a rebuild owed leaves usage_hourly*)
(* in agreement with the rows the backfill corrected (main.rs:84-96).      *)
THEOREM RebuildConsistentHolds == RebuildSpec => []RebuildConsistent
<1>1. RebuildInv => RebuildConsistent
  BY DEF RebuildInv, RebuildConsistent
<1> QED
  BY <1>1, RebuildInvariant, PTL
=============================================================================
