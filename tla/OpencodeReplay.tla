---------------------------- MODULE OpencodeReplay ----------------------------
(***************************************************************************)
(* The opencode source (opencode.rs, round_opencode in sources/mod.rs).    *)
(* opencode keeps its messages in a database: a row is created with all    *)
(* tokens zero and filled in later.  The cursor is the highest rowid of    *)
(* the first round and never moves; every round reads again the rows above *)
(* it that are among the last REPLAY_WINDOW, and INSERT OR IGNORE keeps    *)
(* the first version of a row that had any tokens.                         *)
(***************************************************************************)
EXTENDS Integers

CONSTANTS
  MaxRow,     \* bound: rows of opencode's message table
  Window,     \* REPLAY_WINDOW
  Overrun,    \* rows may leave the window before a round has seen them filled
  StepFills,  \* opencode may write part of the tokens first
  ReadFails,  \* statements on opencode's database may fail
  DbFails     \* statements on the collector's database may fail

ASSUME OpencodeAssumption ==
  /\ MaxRow \in Nat /\ Window \in Nat \ {0}
  /\ {Overrun, StepFills, ReadFails, DbFails} \subseteq BOOLEAN

VARIABLES
  top,      \* MAX(rowid) of message
  tokens,   \* the tokens of each row
  cursor,   \* max_rowid of the cursor, or NoCursor before the first round
  stored,   \* the tokens of each row in usage_event
  pc,       \* the collector's step
  floor,    \* the rows of this round's window are above it
  batch,    \* rows and tokens parsed in this round
  history,  \* history: the rows there were at the first round
  ripe,     \* history: the full rows when this round read its window
  seen      \* history: the full rows that some completed round has read

message == <<top, tokens>>
db == <<cursor, stored>>
round == <<floor, batch, ripe>>
vars == <<message, db, pc, round, history, seen>>

Rowid == 1..MaxRow
NoCursor == -1

(* "other": not an assistant message.  "absent": no row in usage_event.    *)
Tokens == {"other", "zero", "partial", "full"}
Usage == {"absent", "zero", "partial", "full"}

TypeOK ==
  /\ top \in 0..MaxRow
  /\ tokens \in [Rowid -> Tokens]
  /\ cursor \in {NoCursor} \cup 0..top
  /\ stored \in [Rowid -> Usage]
  /\ pc \in {"idle", "window", "insert", "save", "failed", "down"}
  /\ floor \in 0..top
  /\ batch \in [Rowid -> Usage]
  /\ history \in 0..top
  /\ ripe \subseteq Rowid
  /\ seen \subseteq Rowid

Nothing == [r \in Rowid |-> "absent"]
Volatile(f, b, p) == f = 0 /\ b = Nothing /\ p = {}

Init ==
  /\ top \in 0..MaxRow
  /\ tokens \in [Rowid -> Tokens]
  /\ \A r \in Rowid : /\ r > top => tokens[r] = "zero"
                      /\ tokens[r] = "partial" => StepFills
  /\ cursor = NoCursor
  /\ stored = Nothing
  /\ pc = "idle"
  /\ Volatile(floor, batch, ripe)
  /\ history = 0
  /\ seen = {}

-----------------------------------------------------------------------------
(* opencode's side.  Unless the collector is overrun, a row is filled and  *)
(* read before Window more rows follow ("far beyond the 0.5h worst-case    *)
(* backfill lag", opencode.rs:28-29).                                      *)
Left == top + 1 - Window
CreateRow ==
  /\ top < MaxRow
  /\ \/ Overrun
     \/ cursor = NoCursor
     \/ Left <= history
     \/ Left \in seen \cup {r \in Rowid : tokens[r] = "other"}
  /\ top' = top + 1
  /\ \E t \in {"other", "zero"} : tokens' = [tokens EXCEPT ![top + 1] = t]
  /\ UNCHANGED <<db, pc, round, history, seen>>

FillRow(r) ==
  /\ r <= top
  /\ \/ /\ tokens[r] \in {"zero", "partial"}
        /\ tokens' = [tokens EXCEPT ![r] = "full"]
     \/ /\ StepFills /\ tokens[r] = "zero"
        /\ tokens' = [tokens EXCEPT ![r] = "partial"]
  /\ UNCHANGED <<top, db, pc, round, history, seen>>

-----------------------------------------------------------------------------
(* Mutant of ReplayFloor: the window starts one row late.                  *)
ReplayFloorLate(base, max) == IF base < max - Window + 1 THEN max - Window + 1 ELSE base

(* The exclusive lower bound of the rows to read.                          *)
ReplayFloor(base, max) == IF base < max - Window THEN max - Window ELSE base

(* Mutant of RecordBaseline: the first round reads the window as well.     *)
RecordBaselineOfWindow(max) == cursor' = 0 /\ floor' = ReplayFloor(0, max)

(* The first round records where it starts; the cursor is saved at once.   *)
RecordBaseline(max) == cursor' = max /\ floor' = max

(* max_rowid turns an error into 0.                                        *)
MaxRowid == {top} \cup (IF ReadFails THEN {0} ELSE {})

BeginRound ==
  /\ pc = "idle"
  /\ pc' = "window"
  /\ \E max \in MaxRowid :
       \/ /\ cursor = NoCursor
          /\ RecordBaseline(max)
          /\ history' = top
       \/ /\ cursor # NoCursor
          /\ floor' = ReplayFloor(cursor, max)
          /\ UNCHANGED <<cursor, history>>
  /\ UNCHANGED <<message, stored, batch, ripe, seen>>

(* Mutant of Parsed: rows without tokens are kept as well.                 *)
ParsedWithZeros(t) == IF t = "other" THEN "absent" ELSE t

(* parse_message: rows that are not filled yet give no event.              *)
Parsed(t) == IF t \in {"other", "zero"} THEN "absent" ELSE t

ReadWindow ==
  /\ pc = "window"
  /\ pc' = "insert"
  /\ batch' = [r \in Rowid |-> IF floor < r /\ r <= top THEN Parsed(tokens[r])
                               ELSE "absent"]
  /\ ripe' = {r \in 1..top : tokens[r] = "full"}
  /\ UNCHANGED <<message, db, floor, history, seen>>

(* INSERT OR IGNORE.                                                       *)
InsertEvents ==
  /\ pc = "insert"
  /\ pc' = "save"
  /\ stored' = [r \in Rowid |-> IF stored[r] = "absent" THEN batch[r] ELSE stored[r]]
  /\ UNCHANGED <<message, cursor, round, history, seen>>

(* The cursor is written again as it is.                                   *)
SaveOffset ==
  /\ pc = "save"
  /\ pc' = "idle"
  /\ seen' = seen \cup ripe
  /\ Volatile(floor', batch', ripe')
  /\ UNCHANGED <<message, db, history>>

(* opencode's database cannot be opened or read: the source is skipped.    *)
(* Or a statement on the collector's fails: the round is given up.         *)
RoundFailed ==
  /\ \/ ReadFails /\ pc \in {"idle", "window"}
     \/ DbFails /\ pc \in {"idle", "insert", "save"}
  /\ pc' = "failed"
  /\ Volatile(floor', batch', ripe')
  /\ UNCHANGED <<message, db, history, seen>>

Crash ==
  /\ pc # "down"
  /\ pc' = "down"
  /\ Volatile(floor', batch', ripe')
  /\ UNCHANGED <<message, db, history, seen>>

(* The next round after a failure, or the first one of a new process.      *)
Resume ==
  /\ pc \in {"failed", "down"}
  /\ pc' = "idle"
  /\ UNCHANGED <<message, db, round, history, seen>>

Next ==
  \/ CreateRow
  \/ \E r \in Rowid : FillRow(r)
  \/ BeginRound
  \/ ReadWindow
  \/ InsertEvents
  \/ SaveOffset
  \/ RoundFailed
  \/ Crash
  \/ Resume

Spec == Init /\ [][Next]_vars

(* A round every minute; failures and crashes end at some time.            *)
RoundStep == BeginRound \/ ReadWindow \/ InsertEvents \/ SaveOffset \/ Resume
Fairness == WF_vars(RoundStep) /\ <>[](pc \notin {"failed", "down"})

FairSpec == Spec /\ Fairness

-----------------------------------------------------------------------------
(* The first round "records the current top rowid and reads nothing"       *)
(* (sources/mod.rs:282-284): no row that was there before the collector is *)
(* ever stored, however far the window reaches back later.                 *)
NoHistory == \A r \in Rowid : r <= history => stored[r] = "absent"

(* A stored row has the row's final tokens, never those of an unfinished   *)
(* one that would "block the real values from landing" (opencode.rs:20-22).*)
StoredFinal == \A r \in Rowid : stored[r] # "absent" => stored[r] = tokens[r]

(* Every row created since the first round and filled, however late, is    *)
(* stored in the end: replay "re-reads the last REPLAY_WINDOW rows for     *)
(* late backfills" (sources/mod.rs:287-288).                               *)
FilledStored ==
  \A r \in Rowid :
    [](cursor # NoCursor /\ history < r /\ tokens[r] = "full"
       => <>(stored[r] # "absent"))
=============================================================================
