----------------------------- MODULE TailCollect -----------------------------
(***************************************************************************)
(* How a file source (omp, codex, grok) is collected: every round rebuilds *)
(* the OffsetStore from the cursor in collect_offset, walks the files,     *)
(* reads what was appended in chunks, keeps a trailing half line as a      *)
(* residue, inserts the events of complete lines and then saves the        *)
(* watermarks (tail.rs, sources/mod.rs, db.rs).  Meanwhile the agents      *)
(* append to the files, create, truncate and replace them, statements and  *)
(* reads fail, and the collector is killed and restarted.                  *)
(*                                                                         *)
(* Files are sequences of units, two to a line: line i is the units 2i and *)
(* 2i + 1, the second one ending with the newline.  Sizes and offsets      *)
(* count units, so that an odd offset is in the middle of a line.  A line  *)
(* is <<file, incarnation, i>>; each makes one event.                      *)
(***************************************************************************)
EXTENDS Integers, FiniteSets

CONSTANTS
  File,        \* the log files of the source
  MaxLine,     \* bound: lines of a file
  MaxGen,      \* bound: incarnations of a file (rotation, truncation)
  Chunk,       \* units read by one read_appended (READ_CHUNK)
  BatchLimit,  \* events that trigger an insert in the middle of a round
  TornLine,    \* lines an append may cut inside a multi-byte character
  PositionKey, \* event ids are path and offset (codex), not the line's own id
  Downtime,    \* the collector may be away for longer than SEED_ACTIVE
  ReadFails,   \* reads may fail with an I/O error
  DbFails      \* statements on the collector's database may fail

NoFile == "none"

ASSUME TailAssumption ==
  /\ NoFile \notin File
  /\ MaxLine \in Nat \ {0} /\ MaxGen \in Nat \ {0}
  /\ Chunk \in Nat \ {0} /\ BatchLimit \in Nat \ {0}
  /\ TornLine \subseteq Nat
  /\ {PositionKey, Downtime, ReadFails, DbFails} \subseteq BOOLEAN

VARIABLES
  gen,      \* the current incarnation of a file, 0 before it is created
  size,     \* its size
  recent,   \* its mtime is within SEED_ACTIVE
  rows,     \* usage_event: the lines whose event is stored
  resumed,  \* collect_offset has a cursor for this source
  saved,    \* the watermarks and residues in that cursor
  pc,       \* the collector's step
  todo,     \* the files still to visit in this round
  cur,      \* the file being read, or NoFile
  upto,     \* its size when it was looked at
  tail,     \* the OffsetStore of this round
  batch,    \* the lines parsed and not yet inserted
  ctx,      \* incarnation that the parser's state of a file comes from, or 0
  skipped   \* history: the lines passed over, because they were there before
            \* the collector, or before the offset in an incarnation that
            \* replaced a shorter one

files == <<gen, size, recent>>
db == <<rows, resumed, saved>>
round == <<todo, cur, upto, tail, batch>>
vars == <<files, db, pc, round, ctx, skipped>>

MaxSize == 2 * MaxLine
Line == File \X (1..MaxGen) \X (0..(MaxLine - 1))

(* A FileTail: offset, incarnation of the residue (0: none), and, for the  *)
(* properties only, the incarnation the offset was taken in.  at = -1: the *)
(* store has no entry for the file.                                        *)
Tail == [at : -1..MaxSize, part : 0..MaxGen, of : 0..MaxGen]
NoTail == [at |-> -1, part |-> 0, of |-> 0]

TypeOK ==
  /\ gen \in [File -> 0..MaxGen]
  /\ size \in [File -> 0..MaxSize]
  /\ recent \in [File -> BOOLEAN]
  /\ rows \subseteq Line
  /\ resumed \in BOOLEAN
  /\ saved \in [File -> Tail]
  /\ pc \in {"idle", "scan", "read", "flush", "insert", "save", "failed", "down"}
  /\ todo \subseteq File
  /\ cur \in File \cup {NoFile}
  /\ upto \in 0..MaxSize
  /\ tail \in [File -> Tail]
  /\ batch \subseteq Line
  /\ ctx \in [File -> 0..MaxGen]
  /\ skipped \subseteq Line

(* What a fresh process holds between rounds.                              *)
Volatile(d, c, u, t, b) ==
  /\ d = {} /\ c = NoFile /\ u = 0
  /\ t = [f \in File |-> NoTail]
  /\ b = {}

Init ==
  /\ gen \in [File -> {0, 1}]
  /\ size \in [File -> 0..MaxSize]
  /\ \A f \in File : gen[f] = 0 => size[f] = 0
  /\ recent \in [File -> BOOLEAN]
  /\ rows = {}
  /\ resumed = FALSE
  /\ saved = [f \in File |-> NoTail]
  /\ pc = "idle"
  /\ Volatile(todo, cur, upto, tail, batch)
  /\ ctx = [f \in File |-> 0]
  /\ skipped = {}

-----------------------------------------------------------------------------
(* The agents' side.                                                       *)

(* An agent appends the next half of a line, creating the file if need be. *)
Append(f) ==
  /\ size[f] < MaxSize
  /\ gen' = [gen EXCEPT ![f] = IF @ = 0 THEN 1 ELSE @]
  /\ size' = [size EXCEPT ![f] = @ + 1]
  /\ recent' = [recent EXCEPT ![f] = TRUE]
  /\ UNCHANGED <<db, pc, round, ctx, skipped>>

(* The file is truncated or replaced by another one of any size.           *)
Rotate(f, n) ==
  /\ gen[f] \in 1..(MaxGen - 1)
  /\ gen' = [gen EXCEPT ![f] = @ + 1]
  /\ size' = [size EXCEPT ![f] = n]
  /\ recent' = [recent EXCEPT ![f] = TRUE]
  /\ UNCHANGED <<db, pc, round, ctx, skipped>>

(* SEED_ACTIVE (two rounds) goes by without a write.  Unless the collector *)
(* was down, it has given the file a watermark by then.                    *)
GrowOld(f) ==
  /\ gen[f] > 0 /\ recent[f]
  /\ Downtime \/ saved[f].at >= 0 \/ (~resumed /\ pc = "idle")
  /\ recent' = [recent EXCEPT ![f] = FALSE]
  /\ UNCHANGED <<gen, size, db, pc, round, ctx, skipped>>

-----------------------------------------------------------------------------
(* The collector's round.                                                  *)

(* The files are listed and the store is rebuilt from the cursor.          *)
BeginRound ==
  /\ pc = "idle"
  /\ pc' = "scan"
  /\ todo' = {f \in File : gen[f] > 0}
  /\ tail' = saved
  /\ UNCHANGED <<files, db, cur, upto, batch, ctx, skipped>>

(* Mutants of Baseline: the rule for live files is missing; the end of the *)
(* file is counted inclusively.                                            *)
BaselineAtEnd(f) == size[f]
BaselinePastEnd(f) == size[f] + 1

(* Where a file without a watermark starts: a live file first seen after a *)
(* previous round is read from zero, anything else is history.             *)
Baseline(f) == IF resumed /\ recent[f] THEN 0 ELSE size[f]

LinesBefore(f, g, at) == {l \in Line : l[1] = f /\ l[2] = g /\ 2 * l[3] < at}

(* read_new_chunks looks at the file and finds or makes its watermark.     *)
OpenFile(f) ==
  /\ pc = "scan"
  /\ f \in todo
  /\ pc' = "read"
  /\ todo' = todo \ {f}
  /\ cur' = f
  /\ upto' = size[f]
  /\ IF tail[f].at >= 0
     THEN UNCHANGED <<tail, skipped>>
     ELSE /\ tail' = [tail EXCEPT ![f] =
                        [at |-> Baseline(f), part |-> 0, of |-> gen[f]]]
          /\ skipped' = skipped \cup LinesBefore(f, gen[f], Baseline(f))
  /\ UNCHANGED <<files, db, batch, ctx>>

(* read_appended restarts from zero when the file has shrunk.              *)
Rotated == upto < tail[cur].at
From == IF Rotated THEN 0 ELSE tail[cur].at
Held == IF Rotated THEN 0 ELSE tail[cur].part
Reset == [at |-> From, part |-> Held,
          of |-> IF Rotated THEN gen[cur] ELSE tail[cur].of]
UpTo(to) == IF to < From + Chunk THEN to ELSE From + Chunk

(* The lines that split_lines completes and the parser understands: a line *)
(* glued from halves of two incarnations, or without its first half, is    *)
(* not JSON.                                                               *)
Parsed(f, g, from, held, to) ==
  {l \in Line : /\ l[1] = f /\ l[2] = g
                /\ from <= 2 * l[3] + 1 /\ 2 * l[3] + 1 < to
                /\ from <= 2 * l[3] \/ held = g}

(* Mutant of Residue: what follows the last newline is thrown away.        *)
ResidueDropped(to, g) == 0

(* The half line at the end of what was read.                              *)
Residue(to, g) == IF to % 2 = 1 THEN g ELSE 0

(* After consume: an insert if the batch is large, then the same file      *)
(* again, or the next one.                                                 *)
Consumed(lines, done) ==
  /\ batch' = batch \cup lines
  /\ pc' = IF Cardinality(batch \cup lines) >= BatchLimit THEN "flush"
           ELSE IF done THEN "scan" ELSE "read"
  /\ cur' = IF done THEN NoFile ELSE cur

(* The parser's state of the file: dropped by forget on a rotation, and    *)
(* rebuilt from the incarnation whose lines it is given.                   *)
NextCtx(lines, g) ==
  LET kept == IF Rotated THEN 0 ELSE ctx[cur]
  IN  IF lines # {} /\ kept = 0 THEN g ELSE kept

(* read_appended finds nothing new; a rotation is still reported.          *)
NothingAppended ==
  /\ pc = "read"
  /\ upto = From
  /\ tail' = [tail EXCEPT ![cur] = Reset]
  /\ ctx' = [ctx EXCEPT ![cur] = NextCtx({}, 0)]
  /\ Consumed({}, TRUE)
  /\ UNCHANGED <<files, db, todo, upto, skipped>>

(* One chunk is read and its complete lines are parsed.                    *)
ReadChunk ==
  LET to == UpTo(upto)
      g == gen[cur]
      lines == Parsed(cur, g, From, Held, to)
  IN
  /\ pc = "read"
  /\ upto # From
  /\ to <= size[cur]
  /\ tail' = [tail EXCEPT ![cur] = [at |-> to, part |-> Residue(to, g), of |-> g]]
  /\ ctx' = [ctx EXCEPT ![cur] = NextCtx(lines, g)]
  /\ Consumed(lines, to >= upto)
  /\ skipped' = IF tail[cur].of = g THEN skipped
                ELSE skipped \cup LinesBefore(cur, g, From)
  /\ UNCHANGED <<files, db, todo, upto>>

(* The read fails, because the file has shrunk meanwhile or otherwise: the *)
(* reset of a rotation has been applied, but nobody calls forget.          *)
ReadError ==
  /\ pc = "read"
  /\ upto # From
  /\ ReadFails \/ size[cur] < UpTo(upto)
  /\ tail' = [tail EXCEPT ![cur] = Reset]
  /\ pc' = "scan"
  /\ cur' = NoFile
  /\ UNCHANGED <<files, db, todo, upto, batch, ctx, skipped>>

-----------------------------------------------------------------------------
(* The primary key of usage_event within this source.                      *)
Key(l) == IF PositionKey THEN <<l[1], l[3]>> ELSE l

(* INSERT OR IGNORE of the batch, in one transaction.                      *)
InsertRows ==
  /\ rows' = rows \cup {l \in batch : \A r \in rows : Key(r) # Key(l)}
  /\ batch' = {}
  /\ UNCHANGED <<files, resumed, saved, todo, cur, upto, tail, ctx, skipped>>

InsertMidRound ==
  /\ pc = "flush"
  /\ pc' = IF cur = NoFile THEN "scan" ELSE "read"
  /\ InsertRows

(* Mutant of EndOfFiles: the watermarks are saved before the last insert.  *)
EndOfFilesSavingFirst ==
  /\ pc = "scan"
  /\ todo = {}
  /\ pc' = "save"
  /\ UNCHANGED <<files, db, round, ctx, skipped>>

EndOfFiles ==
  /\ pc = "scan"
  /\ todo = {}
  /\ pc' = "insert"
  /\ UNCHANGED <<files, db, round, ctx, skipped>>

InsertLast ==
  /\ pc = "insert"
  /\ pc' = "save"
  /\ InsertRows

(* OffsetStore::cursor leaves out a residue that is not valid UTF-8.       *)
Cursor ==
  [f \in File |-> IF \E i \in TornLine : tail[f].at = 2 * i + 1
                  THEN [tail[f] EXCEPT !.part = 0] ELSE tail[f]]

SaveOffset ==
  /\ pc = "save"
  /\ pc' = "idle"
  /\ saved' = Cursor
  /\ resumed' = TRUE
  /\ Volatile(todo', cur', upto', tail', batch')
  /\ UNCHANGED <<files, rows, ctx, skipped>>

(* A statement fails: the round is given up, the process goes on.          *)
RoundFailed ==
  /\ DbFails
  /\ pc \in {"flush", "insert", "save"}
  /\ pc' = "failed"
  /\ Volatile(todo', cur', upto', tail', batch')
  /\ UNCHANGED <<files, db, ctx, skipped>>

(* The collector is killed anywhere.                                       *)
Crash ==
  /\ pc # "down"
  /\ pc' = "down"
  /\ ctx' = [f \in File |-> 0]
  /\ Volatile(todo', cur', upto', tail', batch')
  /\ UNCHANGED <<files, db, skipped>>

(* The next round after a failure, or the first one of a new process.      *)
Resume ==
  /\ pc \in {"failed", "down"}
  /\ pc' = "idle"
  /\ UNCHANGED <<files, db, round, ctx, skipped>>

Next ==
  \/ \E f \in File : Append(f) \/ GrowOld(f) \/ OpenFile(f)
  \/ \E f \in File, n \in 0..MaxSize : Rotate(f, n)
  \/ BeginRound
  \/ NothingAppended
  \/ ReadChunk
  \/ ReadError
  \/ InsertMidRound
  \/ EndOfFiles
  \/ InsertLast
  \/ SaveOffset
  \/ RoundFailed
  \/ Crash
  \/ Resume

Spec == Init /\ [][Next]_vars

(* A round is started every minute and its steps follow one another.       *)
RoundStep ==
  \/ BeginRound \/ (\E f \in File : OpenFile(f)) \/ NothingAppended \/ ReadChunk
  \/ InsertMidRound \/ EndOfFiles \/ InsertLast \/ SaveOffset
  \/ Resume

(* Crashes and errors interrupt rounds any number of times, not for ever.  *)
Fairness == WF_vars(RoundStep) /\ <>[](pc \notin {"failed", "down"})

FairSpec == Spec /\ Fairness

-----------------------------------------------------------------------------
(* A FileTail t of file f covers what it has passed: every complete line   *)
(* before the offset is in S or was history, and the half line at the      *)
(* offset is held as the residue.                                          *)
Covers(t, f, S) ==
  \A i \in 0..(MaxLine - 1) :
    /\ 2 * i + 2 <= t.at => <<f, t.of, i>> \in S \cup skipped
    /\ 2 * i + 1 = t.at => t.part = t.of \/ <<f, t.of, i>> \in skipped

(* The persisted watermark never runs ahead of the stored events (db.rs:   *)
(* "so a crash replays the batch rather than losing it"; README.md:118 for *)
(* the half line): whatever is before it is stored, or was history.        *)
WatermarkCovers ==
  \A f \in File : Covers(saved[f], f, rows)

(* Only a source's first round skips history.  "A restart resumes exactly  *)
(* where the previous process stopped" (sources/mod.rs:4-5): later rounds  *)
(* leave nothing out.                                                      *)
OnlyFirstRoundSkips == [][resumed => skipped' = skipped]_vars

(* A file read from its start is parsed without any state of an earlier    *)
(* incarnation (codex.rs:70, "MUST be called by the collector when a file  *)
(* is rotated or truncated").  Errors break it: ReadError applies the      *)
(* reset, and no later read reports the rotation; and a failed round takes *)
(* back a file's watermark, but not the parser's state of it.              *)
RotationForgets ==
  [][pc = "read" /\ From = 0 /\ batch' \ batch # {}
     => ctx'[cur] = gen[cur]]_vars

(* Every complete line that was not history is stored in the end, whatever *)
(* crashes, failures and replays happen on the way.                        *)
EveryLineStored ==
  \A f \in File, i \in 0..(MaxLine - 1) :
    [](resumed /\ gen[f] = 1 /\ size[f] >= 2 * i + 2
       => <>(<<f, 1, i>> \in rows \cup skipped))
=============================================================================
