------------------------- MODULE OpencodeReplayProofs -------------------------
(***************************************************************************)
(* Theorems about OpencodeReplay for every table size and window: type     *)
(* correctness; when opencode's database answers, rows from before the     *)
(* collector are never stored; when opencode fills a row at once, what is  *)
(* stored is final.  Neither depends on the collector keeping pace.        *)
(***************************************************************************)
EXTENDS OpencodeReplay, TLAPS

LEMMA NothingType == Nothing \in [Rowid -> Usage]
  BY DEF Nothing, Usage

(* The lower bound of the window is a rowid no lower than the baseline.    *)
LEMMA FloorRange ==
  ASSUME NEW base \in 0..top, NEW max \in 0..top, top \in 0..MaxRow
  PROVE  ReplayFloor(base, max) \in base..top
BY OpencodeAssumption DEF ReplayFloor

LEMMA TypeInductive == TypeOK /\ [Next]_vars => TypeOK'
<1> SUFFICES ASSUME TypeOK, [Next]_vars PROVE TypeOK'
  OBVIOUS
<1> USE OpencodeAssumption, NothingType DEF TypeOK, message, db, round
<1>1. CASE CreateRow
  BY <1>1 DEF CreateRow, Rowid, Tokens, NoCursor
<1>2. ASSUME NEW r \in Rowid, FillRow(r) PROVE TypeOK'
  BY <1>2 DEF FillRow, Tokens
<1>3. CASE BeginRound
  <2>1. PICK max \in MaxRowid :
          \/ cursor = NoCursor /\ RecordBaseline(max) /\ history' = top
          \/ /\ cursor # NoCursor /\ floor' = ReplayFloor(cursor, max)
             /\ UNCHANGED <<cursor, history>>
    BY <1>3 DEF BeginRound
  <2>2. max \in 0..top
    BY DEF MaxRowid
  <2>3. CASE cursor = NoCursor /\ RecordBaseline(max) /\ history' = top
    BY <1>3, <2>2, <2>3 DEF BeginRound, RecordBaseline
  <2>4. CASE /\ cursor # NoCursor /\ floor' = ReplayFloor(cursor, max)
             /\ UNCHANGED <<cursor, history>>
    <3>1. floor' \in 0..top
      BY <2>2, <2>4, FloorRange
    <3> QED
      BY <1>3, <2>4, <3>1 DEF BeginRound
  <2> QED
    BY <2>1, <2>3, <2>4
<1>4. CASE ReadWindow
  <2>1. \A r \in Rowid : Parsed(tokens[r]) \in Usage
    BY DEF Parsed, Tokens, Usage
  <2>2. batch' \in [Rowid -> Usage]
    BY <1>4, <2>1 DEF ReadWindow, Usage
  <2> QED
    BY <1>4, <2>2 DEF ReadWindow, Rowid
<1>5. CASE InsertEvents
  <2>1. stored' \in [Rowid -> Usage]
    BY <1>5 DEF InsertEvents
  <2> QED
    BY <1>5, <2>1 DEF InsertEvents
<1>6. CASE SaveOffset
  BY <1>6 DEF SaveOffset, Volatile
<1>7. CASE RoundFailed
  BY <1>7 DEF RoundFailed, Volatile
<1>8. CASE Crash
  BY <1>8 DEF Crash, Volatile
<1>9. CASE Resume
  BY <1>9 DEF Resume
<1>10. CASE UNCHANGED vars
  BY <1>10 DEF vars
<1> QED
  BY <1>1, <1>2, <1>3, <1>4, <1>5, <1>6, <1>7, <1>8, <1>9, <1>10 DEF Next

LEMMA InitTyped == Init => TypeOK
  BY OpencodeAssumption, NothingType DEF Init, TypeOK, Volatile

(* TypeOK holds throughout, whatever fails and however late rows fill.     *)
THEOREM OpencodeTypeCorrect == Spec => []TypeOK
  BY InitTyped, TypeInductive, PTL DEF Spec

-----------------------------------------------------------------------------
(* Everything a round holds, and everything stored, is above the baseline, *)
(* and the baseline is where the history ends.                             *)
AboveBaseline ==
  /\ cursor = NoCursor =>
       pc \in {"idle", "failed", "down"} /\ stored = Nothing /\ batch = Nothing
  /\ cursor # NoCursor => cursor = history
  /\ pc = "window" => cursor <= floor
  /\ \A r \in Rowid : batch[r] # "absent" \/ stored[r] # "absent" => history < r

LEMMA AboveBaselineInductive ==
  ASSUME ReadFails = FALSE
  PROVE  TypeOK /\ AboveBaseline /\ [Next]_vars => AboveBaseline'
<1> SUFFICES ASSUME TypeOK, AboveBaseline, [Next]_vars PROVE AboveBaseline'
  OBVIOUS
<1> USE DEF AboveBaseline, message, db, round
<1>1. CASE CreateRow
  BY <1>1 DEF CreateRow
<1>2. ASSUME NEW r \in Rowid, FillRow(r) PROVE AboveBaseline'
  BY <1>2 DEF FillRow
<1>3. CASE BeginRound
  <2>1. CASE cursor = NoCursor
    <3>1. cursor' = top /\ history' = top /\ floor' = top
      BY <1>3, <2>1 DEF BeginRound, RecordBaseline, MaxRowid
    <3>2. stored' = Nothing /\ batch' = batch /\ pc' = "window"
      BY <1>3, <2>1 DEF BeginRound
    <3> QED
      BY <2>1, <3>1, <3>2, OpencodeAssumption DEF Nothing, NoCursor, TypeOK
  <2>2. CASE cursor # NoCursor
    <3>1. cursor' = cursor /\ history' = history
          /\ floor' = ReplayFloor(cursor, top)
      BY <1>3, <2>2 DEF BeginRound, MaxRowid
    <3>2. cursor <= floor'
      BY <2>2, <3>1, FloorRange DEF TypeOK
    <3> QED
      BY <1>3, <2>2, <3>1, <3>2 DEF BeginRound
  <2> QED
    BY <2>1, <2>2
<1>4. CASE ReadWindow
  <2>1. \A r \in Rowid : batch'[r] # "absent" => history < r
    BY <1>4 DEF ReadWindow, TypeOK, NoCursor, Rowid
  <2> QED
    BY <1>4, <2>1 DEF ReadWindow
<1>5. CASE InsertEvents
  BY <1>5 DEF InsertEvents
<1>6. CASE SaveOffset
  BY <1>6 DEF SaveOffset, Volatile, Nothing
<1>7. CASE RoundFailed
  BY <1>7 DEF RoundFailed, Volatile, Nothing
<1>8. CASE Crash
  BY <1>8 DEF Crash, Volatile, Nothing
<1>9. CASE Resume
  BY <1>9 DEF Resume
<1>10. CASE UNCHANGED vars
  BY <1>10 DEF vars
<1> QED
  BY <1>1, <1>2, <1>3, <1>4, <1>5, <1>6, <1>7, <1>8, <1>9, <1>10 DEF Next

(* As long as opencode's database answers, nothing from before the first   *)
(* round is stored, however far back the window reaches in later rounds.   *)
THEOREM OpencodeNoHistory ==
  ASSUME ReadFails = FALSE
  PROVE  Spec => []NoHistory
<1>1. Init => AboveBaseline
  BY DEF Init, Volatile, Nothing, AboveBaseline
<1>2. TypeOK /\ AboveBaseline => NoHistory
  BY DEF TypeOK, AboveBaseline, NoHistory, Rowid
<1> QED
  BY <1>1, <1>2, InitTyped, TypeInductive, AboveBaselineInductive, PTL DEF Spec

-----------------------------------------------------------------------------
(* A row with tokens never changes when rows are filled in one step, so    *)
(* that a copy of it stays right, in the batch and in usage_event.         *)
Copies ==
  /\ \A r \in Rowid : tokens[r] # "partial" /\ (tokens[r] = "full" => r <= top)
  /\ \A r \in Rowid : batch[r] # "absent" => batch[r] = "full" /\ tokens[r] = "full"
  /\ \A r \in Rowid : stored[r] # "absent" => stored[r] = "full" /\ tokens[r] = "full"

LEMMA CopiesInductive ==
  ASSUME StepFills = FALSE
  PROVE  TypeOK /\ Copies /\ [Next]_vars => Copies'
<1> SUFFICES ASSUME TypeOK, Copies, [Next]_vars PROVE Copies'
  OBVIOUS
<1> USE DEF Copies, message, db, round
<1>1. CASE CreateRow
  <2>1. PICK t \in {"other", "zero"} : tokens' = [tokens EXCEPT ![top + 1] = t]
    BY <1>1 DEF CreateRow
  <2> QED
    BY <1>1, <2>1 DEF CreateRow, TypeOK, Rowid
<1>2. ASSUME NEW r \in Rowid, FillRow(r) PROVE Copies'
  BY <1>2 DEF FillRow, TypeOK
<1>3. CASE BeginRound
  BY <1>3 DEF BeginRound
<1>4. CASE ReadWindow
  <2>1. \A t \in Tokens : t # "partial" /\ Parsed(t) # "absent"
                          => t = "full" /\ Parsed(t) = "full"
    BY DEF Tokens, Parsed
  <2>2. ASSUME NEW r \in Rowid, batch'[r] # "absent"
        PROVE  batch'[r] = "full" /\ tokens[r] = "full"
    <3>1. tokens[r] \in Tokens /\ tokens[r] # "partial"
      BY DEF TypeOK
    <3>2. batch'[r] = Parsed(tokens[r])
      BY <1>4, <2>2 DEF ReadWindow
    <3> QED
      BY <2>1, <2>2, <3>1, <3>2
  <2> QED
    BY <1>4, <2>2 DEF ReadWindow
<1>5. CASE InsertEvents
  BY <1>5 DEF InsertEvents
<1>6. CASE SaveOffset
  BY <1>6 DEF SaveOffset, Volatile, Nothing
<1>7. CASE RoundFailed
  BY <1>7 DEF RoundFailed, Volatile, Nothing
<1>8. CASE Crash
  BY <1>8 DEF Crash, Volatile, Nothing
<1>9. CASE Resume
  BY <1>9 DEF Resume
<1>10. CASE UNCHANGED vars
  BY <1>10 DEF vars
<1> QED
  BY <1>1, <1>2, <1>3, <1>4, <1>5, <1>6, <1>7, <1>8, <1>9, <1>10 DEF Next

(* When opencode fills a row in one step, what is stored of it is final.   *)
THEOREM OpencodeStoredFinal ==
  ASSUME StepFills = FALSE
  PROVE  Spec => []StoredFinal
<1>1. Init => Copies
  BY DEF Init, Volatile, Nothing, Copies, Rowid
<1>2. Copies => StoredFinal
  BY DEF Copies, StoredFinal
<1> QED
  BY <1>1, <1>2, InitTyped, TypeInductive, CopiesInductive, PTL DEF Spec
=============================================================================
