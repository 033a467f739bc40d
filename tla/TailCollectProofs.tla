-------------------------- MODULE TailCollectProofs --------------------------
(***************************************************************************)
(* Theorems about TailCollect for every set of files and every size of     *)
(* file, chunk and batch: type correctness; that the saved watermark never *)
(* runs ahead of the stored events, but for torn lines; what rounds after  *)
(* the first may pass over; and what a parser forgets.  The second assumes *)
(* that events have keys of their own, the third that the collector is not *)
(* away for long, the last that nothing fails: they are false without.     *)
(***************************************************************************)
EXTENDS TailCollect, TLAPS

(* What a round relies on: the file being read exists and has a watermark, *)
(* and nothing is read outside the walk over the files.                    *)
RoundInv ==
  /\ NoFile \notin todo
  /\ \A f \in todo : gen[f] > 0
  /\ cur # NoFile => cur \in File /\ gen[cur] > 0 /\ tail[cur].at >= 0
  /\ pc = "read" => cur # NoFile
  /\ pc \in {"idle", "scan", "insert", "save", "failed", "down"}
       => cur = NoFile

TypeInv == TypeOK /\ RoundInv

LEMMA SizeIsNat == MaxSize \in Nat /\ MaxLine \in Nat /\ MaxGen \in Nat
  BY TailAssumption DEF MaxSize

LEMMA NoTailType == NoTail \in Tail
  BY SizeIsNat DEF NoTail, Tail

(* Where the running read starts and ends.                                 *)
LEMMA ReadRange ==
  ASSUME TypeInv, pc = "read"
  PROVE  /\ From \in 0..MaxSize /\ Held \in 0..MaxGen
         /\ gen[cur] \in 1..MaxGen /\ cur \in File
         /\ Reset \in Tail
         /\ UpTo(upto) \in Int
         /\ UpTo(upto) <= upto
  BY TailAssumption, SizeIsNat
  DEF TypeInv, TypeOK, RoundInv, From, Held, Rotated, Reset, Tail, UpTo

LEMMA ChunkType ==
  ASSUME TypeInv, ReadChunk
  PROVE  LET to == UpTo(upto)
             g == gen[cur]
         IN  /\ to \in 0..MaxSize
             /\ Residue(to, g) \in {0, g}
             /\ [at |-> to, part |-> Residue(to, g), of |-> g] \in Tail
             /\ Parsed(cur, g, From, Held, to) \subseteq Line
<1> USE SizeIsNat
<1>1. UpTo(upto) \in 0..MaxSize
  BY ReadRange, TailAssumption
  DEF ReadChunk, TypeInv, TypeOK, UpTo
<1>2. Residue(UpTo(upto), gen[cur]) \in {0, gen[cur]}
  BY DEF Residue
<1>3. gen[cur] \in 1..MaxGen
  BY ReadRange DEF ReadChunk
<1>4. [at |-> UpTo(upto), part |-> Residue(UpTo(upto), gen[cur]), of |-> gen[cur]]
        \in Tail
  BY <1>1, <1>2, <1>3 DEF Tail
<1>5. Parsed(cur, gen[cur], From, Held, UpTo(upto)) \subseteq Line
  BY DEF Parsed
<1> QED
  BY <1>1, <1>2, <1>4, <1>5

-----------------------------------------------------------------------------
(* The state of TailCollect is well typed, and a file that is being read   *)
(* has been created and given a watermark.                                 *)
LEMMA TypeInvInductive == TypeInv /\ [Next]_vars => TypeInv'
<1> SUFFICES ASSUME TypeInv, [Next]_vars PROVE TypeInv'
  OBVIOUS
<1> USE SizeIsNat, NoTailType DEF TypeInv, TypeOK, RoundInv, files, db, round
<1>1. ASSUME NEW f \in File, Append(f) PROVE TypeInv'
  BY <1>1, TailAssumption DEF Append
<1>2. ASSUME NEW f \in File, NEW n \in 0..MaxSize, Rotate(f, n) PROVE TypeInv'
  BY <1>2 DEF Rotate
<1>3. ASSUME NEW f \in File, GrowOld(f) PROVE TypeInv'
  BY <1>3 DEF GrowOld
<1>4. CASE BeginRound
  BY <1>4, TailAssumption DEF BeginRound
<1>5. ASSUME NEW f \in File, OpenFile(f) PROVE TypeInv'
  <2>1. f \in File /\ f # NoFile /\ gen[f] \in 1..MaxGen
    BY <1>5, TailAssumption DEF OpenFile
  <2>2. Baseline(f) \in 0..MaxSize
    BY <2>1 DEF Baseline
  <2>3. /\ tail' \in [File -> Tail] /\ tail'[f].at >= 0
        /\ skipped' \subseteq Line
    <3>1. CASE tail[f].at >= 0
      BY <1>5, <2>1, <3>1 DEF OpenFile
    <3>2. CASE ~(tail[f].at >= 0)
      <4>1. [at |-> Baseline(f), part |-> 0, of |-> gen[f]] \in Tail
        BY <2>1, <2>2 DEF Tail
      <4> QED
        BY <1>5, <2>1, <2>2, <3>2, <4>1 DEF OpenFile, LinesBefore
    <3> QED
      BY <3>1, <3>2
  <2> QED
    BY <1>5, <2>1, <2>3 DEF OpenFile
<1>6. CASE NothingAppended
  BY <1>6, ReadRange DEF NothingAppended, Consumed, NextCtx, Reset
<1>7. CASE ReadChunk
  BY <1>7, ReadRange, ChunkType DEF ReadChunk, Consumed, NextCtx, LinesBefore
<1>8. CASE ReadError
  BY <1>8, ReadRange DEF ReadError
<1>9. CASE InsertMidRound
  BY <1>9 DEF InsertMidRound, InsertRows
<1>10. CASE EndOfFiles
  BY <1>10 DEF EndOfFiles
<1>11. CASE InsertLast
  BY <1>11 DEF InsertLast, InsertRows
<1>12. CASE SaveOffset
  BY SMTT(30), <1>12 DEF SaveOffset, Cursor, Volatile, Tail
<1>13. CASE RoundFailed
  BY <1>13 DEF RoundFailed, Volatile
<1>14. CASE Crash
  BY <1>14 DEF Crash, Volatile
<1>15. CASE Resume
  BY <1>15 DEF Resume
<1>16. CASE UNCHANGED vars
  BY <1>16 DEF vars
<1> QED
  BY <1>1, <1>2, <1>3, <1>4, <1>5, <1>6, <1>7, <1>8, <1>9, <1>10, <1>11, <1>12,
     <1>13, <1>14, <1>15, <1>16 DEF Next

LEMMA InitTyped == Init => TypeInv
<1> SUFFICES ASSUME Init PROVE TypeInv
  OBVIOUS
<1> USE SizeIsNat, TailAssumption DEF Init, Volatile
<1>1. gen \in [File -> 0..MaxGen] /\ ctx \in [File -> 0..MaxGen]
  OBVIOUS
<1>2. saved \in [File -> Tail] /\ tail \in [File -> Tail]
  BY NoTailType
<1>3. upto \in 0..MaxSize
  OBVIOUS
<1> QED
  BY <1>1, <1>2, <1>3 DEF TypeInv, TypeOK, RoundInv

(* TypeOK holds throughout, for every file set, bounds and fault switches. *)
THEOREM TailTypeCorrect == Spec => []TypeOK
<1>1. TypeInv => TypeOK
  BY DEF TypeInv
<1> QED
  BY <1>1, InitTyped, TypeInvInductive, PTL DEF Spec

-----------------------------------------------------------------------------
(* What a FileTail has passed is in S or was history, torn lines apart.    *)
Passes(t, f, S) ==
  \A i \in (0..(MaxLine - 1)) \ TornLine :
    /\ 2 * i + 2 <= t.at => <<f, t.of, i>> \in S \cup skipped
    /\ 2 * i + 1 = t.at => t.part = t.of \/ <<f, t.of, i>> \in skipped

(* Every line has a key of its own: the line's id, or its place in a file  *)
(* that is never replaced.                                                 *)
OwnKeys == PositionKey = FALSE \/ MaxGen = 1

(* Both the saved and the running watermarks cover what they have passed:  *)
(* the first from the rows alone, the second from the rows and the batch.  *)
SavedCovers == \A f \in File : Passes(saved[f], f, rows)
TailCovers == \A f \in File : Passes(tail[f], f, rows \cup batch)
BatchInserted == pc = "save" => batch = {}

CoverInv == SavedCovers /\ TailCovers /\ BatchInserted

(* A store without an entry for a file, or at its start, has passed        *)
(* nothing.                                                                *)
LEMMA NothingPassed ==
  ASSUME NEW t, NEW f, NEW S, t.at \in Int, t.at <= 0
  PROVE  Passes(t, f, S)
BY SizeIsNat DEF Passes

(* Nor has a store that a round leaves behind.                             *)
LEMMA EmptyStoreCovers ==
  ASSUME tail' = [f \in File |-> NoTail]
  PROVE  TailCovers'
BY SizeIsNat DEF TailCovers, NoTail, Passes

(* A reset at a rotation, or none, leaves the file covered.                *)
LEMMA ResetCovers ==
  ASSUME TypeInv, pc = "read", NEW S, Passes(tail[cur], cur, S)
  PROVE  Passes(Reset, cur, S)
<1>1. CASE Rotated
  BY <1>1, NothingPassed DEF Reset, From
<1>2. CASE ~Rotated
  BY <1>2 DEF Reset, From, Held, Passes
<1> QED
  BY <1>1, <1>2

(* What a chunk passes is parsed into the batch, was there before, or is   *)
(* the beginning of an incarnation that the watermark takes for another.   *)
LEMMA ChunkCovers ==
  ASSUME TypeInv, TypeOK', ReadChunk, NEW CONSTANT c \in File, cur = c,
         Passes(tail[c], c, rows \cup batch)
  PROVE  Passes(tail[c], c, rows \cup batch)'
<1> DEFINE to == UpTo(upto)
           g == gen[cur]
           t == [at |-> to, part |-> Residue(to, g), of |-> g]
<1> USE SizeIsNat
<1>1. /\ cur \in File /\ g \in 1..MaxGen
      /\ From \in 0..MaxSize /\ to \in 0..MaxSize
      /\ tail[cur] \in Tail
  BY ReadRange, ChunkType DEF ReadChunk, TypeInv, TypeOK
<1>2. /\ rows' = rows /\ batch' = batch \cup Parsed(cur, g, From, Held, to)
      /\ tail'[cur] = t
      /\ skipped \subseteq skipped'
      /\ tail[cur].of # g => LinesBefore(cur, g, From) \subseteq skipped'
  BY <1>1 DEF ReadChunk, Consumed, db, TypeInv, TypeOK
<1> DEFINE kept == rows \cup (batch \cup Parsed(cur, g, From, Held, to)) \cup skipped'
<1>3. ASSUME NEW i \in (0..(MaxLine - 1)) \ TornLine
      PROVE  /\ 2 * i + 2 <= to => <<cur, g, i>> \in kept
             /\ 2 * i + 1 = to => Residue(to, g) = g
  <2> DEFINE l == <<cur, g, i>>
  <2>1. l \in Line /\ l[1] = cur /\ l[2] = g /\ l[3] = i
    BY <1>1, <1>3 DEF Line
  <2>2. 2 * i + 1 = to => Residue(to, g) = g
    BY <1>1, <1>3 DEF Residue
  <2>3. ASSUME 2 * i + 2 <= to, From <= 2 * i
        PROVE  l \in kept
    <3>1. l \in Parsed(cur, g, From, Held, to)
      BY <1>1, <1>3, <2>1, <2>3 DEF Parsed
    <3> QED
      BY <3>1
  <2>4. ASSUME 2 * i + 2 <= to, 2 * i < From, tail[cur].of # g
        PROVE  l \in kept
    <3>1. l \in LinesBefore(cur, g, From)
      BY <2>1, <2>4 DEF LinesBefore
    <3> QED
      BY <1>2, <2>4, <3>1
  <2>5. ASSUME 2 * i + 2 <= to, 2 * i < From, tail[cur].of = g
        PROVE  l \in kept
    <3>1. From = tail[cur].at /\ Held = tail[cur].part
      BY <1>1, <1>3, <2>5 DEF From, Held
    <3>2. CASE 2 * i + 2 <= From
      BY <1>2, <1>3, <2>5, <3>1, <3>2 DEF Passes
    <3>3. CASE 2 * i + 1 = From
      <4>1. Held = g \/ l \in skipped
        BY <1>3, <2>5, <3>1, <3>3 DEF Passes
      <4>2. Held = g => l \in Parsed(cur, g, From, Held, to)
        BY <1>1, <1>3, <2>1, <2>5, <3>3 DEF Parsed
      <4> QED
        BY <1>2, <4>1, <4>2
    <3> QED
      BY <1>1, <1>3, <2>5, <3>2, <3>3
  <2> QED
    BY <1>1, <1>3, <2>2, <2>3, <2>4, <2>5
<1>4. tail'[c].at = to /\ tail'[c].part = Residue(to, g) /\ tail'[c].of = g
  BY <1>2
<1> HIDE DEF to, g
<1> QED
  BY <1>2, <1>3, <1>4 DEF Passes

-----------------------------------------------------------------------------
(* A read that resets the watermark at most leaves every file covered.     *)
LEMMA ResetFileCovers ==
  ASSUME TypeInv, pc = "read", TailCovers, SavedCovers, cur \in File,
         tail' = [tail EXCEPT ![cur] = Reset],
         rows' = rows, saved' = saved, skipped' = skipped, batch' = batch
  PROVE  SavedCovers' /\ TailCovers'
<1>1. SavedCovers'
  BY DEF SavedCovers, Passes
<1>2. ASSUME NEW h \in File PROVE Passes(tail[h], h, rows \cup batch)'
  <2>1. CASE h = cur
    <3>1. Passes(Reset, cur, rows \cup batch)
      BY ResetCovers DEF TailCovers
    <3>2. tail'[h] = Reset
      BY <2>1 DEF TypeInv, TypeOK
    <3> QED
      BY <2>1, <3>1, <3>2 DEF Passes
  <2>2. CASE h # cur
    <3>1. tail'[h] = tail[h]
      BY <2>2 DEF TypeInv, TypeOK
    <3> QED
      BY <3>1 DEF TailCovers, Passes
  <2> QED
    BY <2>1, <2>2
<1> QED
  BY <1>1, <1>2 DEF TailCovers

(* With a key per line an insert stores the whole batch.                   *)
LEMMA InsertCovers ==
  ASSUME OwnKeys, TypeInv, InsertRows, TailCovers, SavedCovers
  PROVE  SavedCovers' /\ TailCovers'
<1>1. \A l, m \in Line : Key(l) = Key(m) => l = m
  <2>1. CASE PositionKey = FALSE
    BY <2>1 DEF Key
  <2>2. CASE PositionKey # FALSE /\ MaxGen = 1
    <3>1. \A l \in Line : l[2] = 1 /\ l = <<l[1], l[2], l[3]>>
      BY <2>2 DEF Line
    <3>2. \A l \in Line : Key(l) = <<l[1], l[3]>>
      BY <2>2, TailAssumption DEF Key
    <3> QED
      BY <3>1, <3>2
  <2> QED
    BY <2>1, <2>2 DEF OwnKeys
<1>2. rows \subseteq Line /\ batch \subseteq Line
  BY DEF TypeInv, TypeOK
<1>3. rows' \cup batch' = rows \cup batch /\ rows \subseteq rows'
  <2>1. /\ rows' = rows \cup {l \in batch : \A r \in rows : Key(r) # Key(l)}
        /\ batch' = {}
    BY DEF InsertRows
  <2>2. ASSUME NEW l \in batch, l \notin rows PROVE \A r \in rows : Key(r) # Key(l)
    BY <1>1, <1>2, <2>2
  <2> QED
    BY <2>1, <2>2
<1>4. saved' = saved /\ tail' = tail /\ skipped' = skipped
  BY DEF InsertRows
<1> QED
  BY <1>3, <1>4 DEF SavedCovers, TailCovers, Passes

(* No step lets a watermark pass a line that is neither stored (or in the  *)
(* batch) nor history.                                                     *)
LEMMA CoverInvInductive ==
  ASSUME OwnKeys
  PROVE  TypeInv /\ TypeInv' /\ CoverInv /\ [Next]_vars => CoverInv'
<1> SUFFICES ASSUME TypeInv, TypeInv', CoverInv, [Next]_vars
             PROVE  CoverInv'
  OBVIOUS
<1> USE DEF CoverInv, SavedCovers, TailCovers, BatchInserted
<1>1. ASSUME NEW f \in File, Append(f) PROVE CoverInv'
  BY <1>1 DEF Append, db, round, Passes
<1>2. ASSUME NEW f \in File, NEW n \in 0..MaxSize, Rotate(f, n) PROVE CoverInv'
  BY <1>2 DEF Rotate, db, round, Passes
<1>3. ASSUME NEW f \in File, GrowOld(f) PROVE CoverInv'
  BY <1>3 DEF GrowOld, db, round, Passes
<1>4. CASE BeginRound
  BY <1>4 DEF BeginRound, db, Passes
<1>5. ASSUME NEW f \in File, OpenFile(f) PROVE CoverInv'
  <2>1. /\ rows' = rows /\ batch' = batch /\ saved' = saved /\ pc' = "read"
        /\ skipped \subseteq skipped' /\ gen' = gen
    BY <1>5 DEF OpenFile, db, files
  <2>2. gen[f] \in 1..MaxGen
    BY <1>5 DEF OpenFile, TypeInv, TypeOK, RoundInv
  <2>3. ASSUME NEW h \in File PROVE Passes(tail[h], h, rows \cup batch)'
    <3>1. CASE tail'[h] = tail[h]
      BY <2>1, <3>1 DEF Passes
    <3>2. CASE tail'[h] # tail[h]
      <4>1. /\ h = f
            /\ tail'[h] = [at |-> Baseline(f), part |-> 0, of |-> gen[f]]
            /\ LinesBefore(f, gen[f], Baseline(f)) \subseteq skipped'
        BY <1>5, <3>2 DEF OpenFile, TypeInv, TypeOK
      <4>2. Baseline(f) \in 0..MaxSize
        BY SizeIsNat DEF Baseline, TypeInv, TypeOK
      <4>3. ASSUME NEW i \in 0..(MaxLine - 1), 2 * i < Baseline(f)
            PROVE  <<f, gen[f], i>> \in skipped'
        BY <2>2, <4>1, <4>2, <4>3 DEF LinesBefore, Line
      <4> QED
        BY SizeIsNat, <4>1, <4>2, <4>3 DEF Passes
    <3> QED
      BY <3>1, <3>2
  <2> QED
    BY <2>1, <2>3 DEF Passes
<1>6. CASE NothingAppended
  <2>1. /\ cur \in File /\ tail' = [tail EXCEPT ![cur] = Reset]
        /\ rows' = rows /\ saved' = saved /\ skipped' = skipped
        /\ batch' = batch /\ pc' # "save"
    BY <1>6, ReadRange DEF NothingAppended, Consumed, db
  <2> QED
    BY <1>6, <2>1, ResetFileCovers DEF NothingAppended
<1>7. CASE ReadChunk
  <2>1. /\ cur \in File /\ rows' = rows /\ saved' = saved
        /\ skipped \subseteq skipped' /\ batch \subseteq batch'
        /\ pc' # "save"
    BY <1>7, ReadRange DEF ReadChunk, Consumed, db
  <2>2. ASSUME NEW h \in File PROVE Passes(tail[h], h, rows \cup batch)'
    <3>1. CASE h = cur
      BY <1>7, <3>1, ChunkCovers DEF TypeInv
    <3>2. CASE h # cur
      <4>1. tail'[h] = tail[h]
        BY <1>7, <2>1, <3>2 DEF ReadChunk, TypeInv, TypeOK
      <4> QED
        BY <2>1, <4>1 DEF Passes
    <3> QED
      BY <3>1, <3>2
  <2> QED
    BY <2>1, <2>2 DEF Passes
<1>8. CASE ReadError
  <2>1. /\ cur \in File /\ tail' = [tail EXCEPT ![cur] = Reset]
        /\ rows' = rows /\ saved' = saved /\ skipped' = skipped
        /\ batch' = batch /\ pc' # "save"
    BY <1>8, ReadRange DEF ReadError, db
  <2> QED
    BY <1>8, <2>1, ResetFileCovers DEF ReadError
<1>9. CASE InsertMidRound
  <2>1. pc' # "save" /\ InsertRows
    BY <1>9 DEF InsertMidRound
  <2> QED
    BY <2>1, InsertCovers
<1>10. CASE EndOfFiles
  BY <1>10 DEF EndOfFiles, db, round, Passes
<1>11. CASE InsertLast
  <2>1. InsertRows /\ batch' = {}
    BY <1>11 DEF InsertLast, InsertRows
  <2> QED
    BY <2>1, InsertCovers
<1>12. CASE SaveOffset
  <2>1. saved' = Cursor /\ rows' = rows /\ skipped' = skipped /\ batch = {}
    BY <1>12 DEF SaveOffset
  <2>2. tail' = [f \in File |-> NoTail] /\ pc' # "save"
    BY <1>12 DEF SaveOffset, Volatile
  <2>3. ASSUME NEW f \in File PROVE Passes(Cursor[f], f, rows)
    <3>1. Passes(tail[f], f, rows)
      BY <2>1
    <3>2. CASE \E j \in TornLine : tail[f].at = 2 * j + 1
      <4>1. PICK j \in TornLine : tail[f].at = 2 * j + 1
        BY <3>2
      <4>2. j \in Nat /\ \A i \in (0..(MaxLine - 1)) \ TornLine : i \in Nat /\ i # j
        BY TailAssumption
      <4>3. \A i \in (0..(MaxLine - 1)) \ TornLine : 2 * i + 1 # tail[f].at
        BY <4>1, <4>2
      <4>4. /\ Cursor[f] = [tail[f] EXCEPT !.part = 0]
            /\ Cursor[f].at = tail[f].at /\ Cursor[f].of = tail[f].of
        BY <3>2 DEF Cursor, TypeInv, TypeOK, Tail
      <4> QED
        BY <3>1, <4>3, <4>4 DEF Passes
    <3>3. CASE ~\E j \in TornLine : tail[f].at = 2 * j + 1
      <4>1. Cursor[f] = tail[f]
        BY <3>3 DEF Cursor
      <4> QED
        BY <3>1, <4>1
    <3> QED
      BY <3>2, <3>3
  <2> QED
    BY <2>1, <2>2, <2>3, EmptyStoreCovers DEF Passes
<1>13. CASE RoundFailed
  <2>1. saved' = saved /\ rows' = rows /\ skipped' = skipped
    BY <1>13 DEF RoundFailed, db
  <2>2. tail' = [f \in File |-> NoTail] /\ pc' # "save"
    BY <1>13 DEF RoundFailed, Volatile
  <2> QED
    BY <2>1, <2>2, EmptyStoreCovers DEF Passes
<1>14. CASE Crash
  <2>1. saved' = saved /\ rows' = rows /\ skipped' = skipped
    BY <1>14 DEF Crash, db
  <2>2. tail' = [f \in File |-> NoTail] /\ pc' # "save"
    BY <1>14 DEF Crash, Volatile
  <2> QED
    BY <2>1, <2>2, EmptyStoreCovers DEF Passes
<1>15. CASE Resume
  BY <1>15 DEF Resume, db, round, Passes
<1>16. CASE UNCHANGED vars
  BY <1>16 DEF vars, db, round, Passes
<1> QED
  BY <1>1, <1>2, <1>3, <1>4, <1>5, <1>6, <1>7, <1>8, <1>9, <1>10, <1>11, <1>12,
     <1>13, <1>14, <1>15, <1>16 DEF Next

(* Whatever residues an append leaves, a persisted watermark passes no     *)
(* line but a torn one that is not stored, however appends, rotations,     *)
(* failures, crashes and replays interleave (tail.rs, OffsetStore::cursor).*)
OnlyTornLost == \A f \in File : Passes(saved[f], f, rows)

THEOREM OnlyTornLostHolds ==
  ASSUME OwnKeys
  PROVE  Spec => []OnlyTornLost
<1>1. Init => CoverInv
  BY NothingPassed
  DEF Init, Volatile, NoTail, CoverInv, SavedCovers, TailCovers, BatchInserted
<1>2. CoverInv => OnlyTornLost
  BY DEF CoverInv, SavedCovers, OnlyTornLost
<1> QED
  BY <1>1, <1>2, InitTyped, TypeInvInductive, CoverInvInductive, PTL DEF Spec

(* As long as residues are valid UTF-8 as well, none at all.               *)
THEOREM WatermarkNeverAhead ==
  ASSUME TornLine = {}, OwnKeys
  PROVE  Spec => []WatermarkCovers
<1>1. OnlyTornLost => WatermarkCovers
  BY DEF OnlyTornLost, WatermarkCovers, Passes, Covers
<1> QED
  BY <1>1, OnlyTornLostHolds, PTL

-----------------------------------------------------------------------------
(* A file without a watermark is live once a round has been over, and so   *)
(* is one that appears behind the walk; a watermark was taken in an        *)
(* incarnation that there was.                                             *)
InWalk == pc \in {"scan", "read", "flush", "insert", "save"}
TakenIn(t, f) == t.at >= 0 => 1 <= t.of /\ t.of <= gen[f]
FileInv(f) ==
  /\ TakenIn(saved[f], f) /\ TakenIn(tail[f], f)
  /\ resumed /\ gen[f] > 0 /\ saved[f].at < 0 => recent[f]
  /\ InWalk /\ saved[f].at >= 0 => tail[f].at >= 0
  /\ InWalk /\ gen[f] > 0 /\ f \notin todo /\ tail[f].at < 0 => recent[f]
SkipInv ==
  /\ \A f \in File : FileInv(f)
  /\ pc \in {"insert", "save"} => todo = {}

LEMMA FileTypes ==
  ASSUME TypeOK, NEW f \in File
  PROVE  /\ gen[f] \in Nat /\ size[f] \in Nat
         /\ saved[f].at \in Int /\ saved[f].of \in Nat
         /\ tail[f].at \in Int /\ tail[f].of \in Nat
BY SizeIsNat DEF TypeOK, Tail

(* A step that leaves a file, its watermarks and its turn alone.           *)
LEMMA SameFile ==
  ASSUME NEW f \in File, FileInv(f), UNCHANGED <<gen[f], recent[f], saved[f], tail[f], resumed>>,
         InWalk' => InWalk /\ (f \in todo => f \in todo')
  PROVE  FileInv(f)'
BY DEF FileInv, TakenIn

LEMMA SkipInvStep ==
  ASSUME Downtime = FALSE, TypeInv, TypeOK', SkipInv, [Next]_vars
  PROVE  SkipInv'
<1>0. TypeOK /\ \A g \in File : FileInv(g)
  BY DEF TypeInv, SkipInv
<1>1. ASSUME NEW f \in File, Append(f) PROVE SkipInv'
  <2>1. /\ gen'[f] >= gen[f] /\ gen'[f] \in Nat /\ recent'[f] /\ UNCHANGED <<db, pc, todo, tail>>
        /\ gen[f] \in Nat /\ \A g \in File \ {f} : gen'[g] = gen[g] /\ recent'[g] = recent[g]
    BY <1>0, <1>1, FileTypes DEF Append, TypeOK, round
  <2>2. FileInv(f)'
    BY <1>0, <2>1, FileTypes DEF FileInv, TakenIn, InWalk, db
  <2>3. \A g \in File \ {f} : FileInv(g)'
    BY <1>0, <2>1, SameFile DEF InWalk, db
  <2> QED
    BY <2>1, <2>2, <2>3 DEF SkipInv
<1>2. ASSUME NEW f \in File, NEW n \in 0..MaxSize, Rotate(f, n) PROVE SkipInv'
  <2>1. /\ gen'[f] >= gen[f] /\ gen'[f] \in Nat /\ recent'[f] /\ UNCHANGED <<db, pc, todo, tail>>
        /\ gen[f] \in Nat /\ \A g \in File \ {f} : gen'[g] = gen[g] /\ recent'[g] = recent[g]
    BY <1>0, <1>2, FileTypes DEF Rotate, TypeOK, round
  <2>2. FileInv(f)'
    BY <1>0, <2>1, FileTypes DEF FileInv, TakenIn, InWalk, db
  <2>3. \A g \in File \ {f} : FileInv(g)'
    BY <1>0, <2>1, SameFile DEF InWalk, db
  <2> QED
    BY <2>1, <2>2, <2>3 DEF SkipInv
<1>3. ASSUME NEW f \in File, GrowOld(f) PROVE SkipInv'
  <2>1. /\ UNCHANGED <<gen, db, pc, todo, tail>> /\ \A g \in File \ {f} : recent'[g] = recent[g]
        /\ saved[f].at >= 0 \/ (~resumed /\ pc = "idle")
    BY <1>0, <1>3 DEF GrowOld, TypeOK, round
  <2>2. FileInv(f)'
    BY <1>0, <2>1, FileTypes DEF FileInv, TakenIn, InWalk, db
  <2>3. \A g \in File \ {f} : FileInv(g)'
    BY <1>0, <2>1, SameFile DEF InWalk, db
  <2> QED
    BY <2>1, <2>2, <2>3 DEF SkipInv
<1>4. CASE BeginRound
  <2>1. /\ UNCHANGED <<gen, recent, saved, resumed>> /\ tail' = saved /\ pc' = "scan"
        /\ \A g \in File : g \notin todo' => ~(gen[g] > 0)
    BY <1>4 DEF BeginRound, files, db
  <2>2. ASSUME NEW g \in File PROVE FileInv(g)'
    BY <1>0, <2>1 DEF FileInv, TakenIn, InWalk
  <2> QED
    BY <2>1, <2>2 DEF SkipInv
<1>5. ASSUME NEW f \in File, OpenFile(f) PROVE SkipInv'
  <2>1. /\ UNCHANGED <<gen, recent, saved, resumed>> /\ pc = "scan" /\ pc' = "read"
        /\ todo' = todo \ {f} /\ gen[f] >= 1
        /\ \A g \in File \ {f} : tail'[g] = tail[g]
    BY <1>0, <1>5, FileTypes DEF OpenFile, TypeOK, TypeInv, RoundInv, files, db
  <2>2. tail'[f].at >= 0 /\ 1 <= tail'[f].of /\ tail'[f].of <= gen[f]
    <3>1. CASE tail[f].at >= 0
      BY <1>0, <1>5, <3>1 DEF OpenFile, FileInv, TakenIn
    <3>2. CASE ~(tail[f].at >= 0)
      <4>1. tail'[f] = [at |-> Baseline(f), part |-> 0, of |-> gen[f]] /\ Baseline(f) >= 0
        BY <1>0, <1>5, <3>2, FileTypes DEF OpenFile, TypeOK, Baseline
      <4> QED
        BY <1>0, <2>1, <4>1, FileTypes
    <3> QED
      BY <3>1, <3>2
  <2>3. FileInv(f)'
    <3>1. TakenIn(saved[f], f)' /\ TakenIn(tail[f], f)'
      BY <1>0, <2>1, <2>2 DEF FileInv, TakenIn
    <3>2. (resumed /\ gen[f] > 0 /\ saved[f].at < 0 => recent[f])'
      BY <1>0, <2>1 DEF FileInv
    <3>3. tail'[f].at \in Int
      BY <1>0, FileTypes, SizeIsNat DEF TypeOK, Tail
    <3>4. ~(tail'[f].at < 0)
      BY <2>2, <3>3
    <3> QED
      BY <2>2, <3>1, <3>2, <3>4 DEF FileInv
  <2>4. \A g \in File \ {f} : FileInv(g)'
    BY <1>0, <2>1, SameFile DEF InWalk
  <2> QED
    BY <2>1, <2>3, <2>4 DEF SkipInv
<1>6. ASSUME NothingAppended \/ ReadChunk \/ ReadError PROVE SkipInv'
  <2>1. /\ pc = "read" /\ pc' \in {"flush", "scan", "read"} /\ todo' = todo
        /\ UNCHANGED <<gen, recent, saved, resumed>>
    BY <1>6 DEF NothingAppended, ReadChunk, ReadError, Consumed, files, db
  <2>2. \E f \in File : f = cur
    BY <2>1, ReadRange
  <2>3. PICK f \in File : f = cur
    BY <2>2
  <2>4. gen[f] >= 1 /\ tail[f].at >= 0 /\ From >= 0 /\ UpTo(upto) \in Int
    BY <1>0, <2>1, <2>3, ReadRange DEF TypeInv, RoundInv
  <2>5. \A g \in File \ {f} : tail'[g] = tail[g]
    BY <1>0, <1>6, <2>3 DEF NothingAppended, ReadChunk, ReadError, TypeOK
  <2>6. tail'[f].at >= 0 /\ 1 <= tail'[f].of /\ tail'[f].of <= gen[f]
    <3>1. CASE NothingAppended \/ ReadError
      <4>1. tail'[f] = Reset
        BY <1>0, <2>3, <3>1 DEF NothingAppended, ReadError, TypeOK
      <4>2. tail'[f].at = From /\ (tail'[f].of = gen[f] \/ tail'[f].of = tail[f].of)
        BY <2>3, <4>1 DEF Reset
      <4> QED
        BY <1>0, <2>4, <4>2, FileTypes DEF FileInv, TakenIn
    <3>2. CASE ReadChunk
      <4>1. tail'[f].at = UpTo(upto) /\ tail'[f].of = gen[f]
        BY <1>0, <2>3, <3>2 DEF ReadChunk, TypeOK
      <4>2. UpTo(upto) >= 0
        BY <3>2, ChunkType, SizeIsNat
      <4> QED
        BY <1>0, <2>4, <4>1, <4>2, FileTypes
    <3> QED
      BY <1>6, <3>1, <3>2
  <2>7. FileInv(f)'
    <3>1. TakenIn(saved[f], f)' /\ TakenIn(tail[f], f)'
      BY <1>0, <2>1, <2>6 DEF FileInv, TakenIn
    <3>2. (resumed /\ gen[f] > 0 /\ saved[f].at < 0 => recent[f])'
      BY <1>0, <2>1 DEF FileInv
    <3>3. tail'[f].at \in Int
      BY <1>0, FileTypes, SizeIsNat DEF TypeOK, Tail
    <3>4. ~(tail'[f].at < 0)
      BY <2>6, <3>3
    <3> QED
      BY <2>6, <3>1, <3>2, <3>4 DEF FileInv
  <2>8. \A g \in File \ {f} : FileInv(g)'
    BY <1>0, <2>1, <2>5, SameFile DEF InWalk
  <2> QED
    BY <2>1, <2>7, <2>8 DEF SkipInv
<1>7. ASSUME InsertMidRound \/ EndOfFiles \/ InsertLast \/ Resume \/ UNCHANGED vars PROVE SkipInv'
  <2>1. UNCHANGED <<gen, recent, saved, resumed, tail, todo>> /\ (InWalk' => InWalk)
    BY <1>7 DEF InsertMidRound, EndOfFiles, InsertLast, InsertRows, Resume, vars, files, db,
                round, InWalk
  <2>2. \A g \in File : FileInv(g)'
    BY <1>0, <2>1, SameFile
  <2>3. pc' \in {"insert", "save"} => todo' = {}
    BY <1>7, <2>1 DEF InsertMidRound, EndOfFiles, InsertLast, Resume, vars, SkipInv
  <2> QED
    BY <2>2, <2>3 DEF SkipInv
<1>8. CASE SaveOffset
  <2>1. /\ UNCHANGED <<gen, recent>> /\ pc = "save" /\ pc' = "idle" /\ saved' = Cursor
        /\ todo = {} /\ \A g \in File : tail'[g] = NoTail
    BY <1>8 DEF SaveOffset, Volatile, files, SkipInv
  <2>2. ASSUME NEW g \in File PROVE FileInv(g)'
    <3>1. saved'[g].at = tail[g].at /\ saved'[g].of = tail[g].of
      BY <1>0, <2>1 DEF Cursor, TypeOK, Tail
    <3>2. tail'[g].at = -1
      BY <2>1 DEF NoTail
    <3>3. gen[g] > 0 /\ tail[g].at < 0 => recent[g]
      BY <1>0, <2>1 DEF FileInv, InWalk
    <3>4. TakenIn(tail[g], g)
      BY <1>0 DEF FileInv
    <3>5. TakenIn(saved[g], g)' /\ TakenIn(tail[g], g)'
      BY <2>1, <3>1, <3>2, <3>4 DEF TakenIn
    <3> QED
      BY <2>1, <3>1, <3>2, <3>3, <3>5 DEF FileInv, InWalk
  <2> QED
    BY <2>1, <2>2 DEF SkipInv
<1>9. CASE RoundFailed \/ Crash
  <2>1. /\ UNCHANGED <<gen, recent, saved, resumed>> /\ pc' \in {"failed", "down"}
        /\ \A g \in File : tail'[g] = NoTail
    BY <1>9 DEF RoundFailed, Crash, Volatile, files, db
  <2>2. ASSUME NEW g \in File PROVE FileInv(g)'
    <3>1. tail'[g].at = -1
      BY <2>1 DEF NoTail
    <3> QED
      BY <1>0, <2>1, <3>1 DEF FileInv, TakenIn, InWalk
  <2> QED
    BY <2>1, <2>2 DEF SkipInv
<1> QED
  BY <1>1, <1>2, <1>3, <1>4, <1>5, <1>6, <1>7, <1>8, <1>9 DEF Next

LEMMA SkipInvInitial == Init => SkipInv
BY DEF Init, Volatile, NoTail, SkipInv, FileInv, TakenIn, InWalk

(* While the collector is not away for longer than SEED_ACTIVE, no round   *)
(* after the first passes a line over, but of a file that another one has  *)
(* replaced (sources/mod.rs:424-441, tail.rs:57-63).                       *)
THEOREM LaterSkipsAreReplacements ==
  ASSUME Downtime = FALSE
  PROVE  Spec => [][resumed => \A l \in skipped' \ skipped : l[2] > 1]_vars
<1> DEFINE Replaced == resumed => \A l \in skipped' \ skipped : l[2] > 1
<1>1. TypeInv /\ SkipInv /\ [Next]_vars => [Replaced]_vars
  <2> SUFFICES ASSUME TypeInv, SkipInv, [Next]_vars, resumed, NEW l \in skipped' \ skipped
               PROVE  l[2] > 1
    OBVIOUS
  <2>0. TypeOK /\ \A f \in File : FileInv(f)
    BY DEF TypeInv, SkipInv
  <2>1. ASSUME NEW f \in File, OpenFile(f) PROVE FALSE
    <3>1. /\ ~(tail[f].at >= 0) /\ pc = "scan" /\ gen[f] > 0
          /\ l \in LinesBefore(f, gen[f], Baseline(f))
      BY <2>1 DEF OpenFile, TypeInv, RoundInv
    <3>2. recent[f]
      BY <2>0, <3>1, FileTypes DEF FileInv, InWalk
    <3>3. l \in Line /\ 2 * l[3] < 0
      BY <3>1, <3>2 DEF Baseline, LinesBefore
    <3> QED
      BY <3>3, SizeIsNat DEF Line
  <2>2. CASE ReadChunk
    <3>1. \E f \in File : f = cur /\ gen[f] > 0 /\ tail[f].at >= 0
      BY <2>2 DEF ReadChunk, TypeInv, RoundInv
    <3>2. PICK f \in File : f = cur /\ gen[f] > 0 /\ tail[f].at >= 0
      BY <3>1
    <3>3. tail[f].of # gen[f] /\ l[2] = gen[f]
      BY <2>2, <3>2 DEF ReadChunk, LinesBefore
    <3>4. 1 <= tail[f].of /\ tail[f].of <= gen[f]
      BY <2>0, <3>2 DEF FileInv, TakenIn
    <3> QED
      BY <2>0, <3>3, <3>4, FileTypes
  <2>3. CASE ~(\E f \in File : OpenFile(f)) /\ ~ReadChunk
    <3>1. skipped' = skipped
      BY <2>3
      DEF Next, vars, Append, Rotate, GrowOld, BeginRound, NothingAppended, ReadError,
          InsertMidRound, InsertRows, EndOfFiles, InsertLast, SaveOffset, RoundFailed,
          Crash, Resume
    <3> QED
      BY <3>1
  <2> QED
    BY <2>1, <2>2, <2>3
<1>2. TypeInv /\ TypeInv' /\ SkipInv /\ [Next]_vars => SkipInv'
  BY SkipInvStep DEF TypeInv
<1> QED
  BY <1>1, <1>2, InitTyped, TypeInvInductive, SkipInvInitial, PTL DEF Spec

(* Only the first round skips history, of files that are not replaced.     *)
THEOREM OnlyFirstRoundSkipsHolds ==
  ASSUME Downtime = FALSE, MaxGen = 1
  PROVE  Spec => OnlyFirstRoundSkips
<1>1. ASSUME TypeOK, TypeOK', [resumed => \A l \in skipped' \ skipped : l[2] > 1]_vars,
             [Next]_vars
      PROVE  [resumed => skipped' = skipped]_vars
  <2>1. \A l \in skipped' : l[2] <= 1
    BY <1>1, SizeIsNat DEF TypeOK, Line
  <2>2. skipped \subseteq skipped'
    BY <1>1
    DEF Next, vars, Append, Rotate, GrowOld, OpenFile, BeginRound, NothingAppended,
        ReadChunk, ReadError, InsertMidRound, InsertRows, EndOfFiles, InsertLast,
        SaveOffset, RoundFailed, Crash, Resume
  <2>3. \A l \in skipped' \ skipped : l[2] \in Int
    BY <1>1, SizeIsNat DEF TypeOK, Line
  <2> QED
    BY <1>1, <2>1, <2>2, <2>3
<1> QED
  BY <1>1, TailTypeCorrect, LaterSkipsAreReplacements, PTL DEF Spec, OnlyFirstRoundSkips

-----------------------------------------------------------------------------
(* A parser that has seen nothing of a file, or only what a rotation made  *)
(* it forget, has no state of it: while a round runs, where its own place  *)
(* is the start of the file, and between rounds where the saved one is.    *)
Between == pc \in {"idle", "failed", "down"}
PlaceOf(f) == IF Between THEN saved[f].at ELSE tail[f].at
CtxInv == \A f \in File : PlaceOf(f) <= 0 => ctx[f] = 0

(* A chunk read from the start of a file finds the parser without a state  *)
(* of it, and leaves the place behind the start.                           *)
LEMMA StartOfFile ==
  ASSUME TypeInv, CtxInv, ReadChunk
  PROVE  /\ UpTo(upto) > From
         /\ From = 0 => (IF Rotated THEN 0 ELSE ctx[cur]) = 0
<1> USE SizeIsNat, TailAssumption
<1>1. cur \in File /\ tail[cur] \in Tail /\ upto \in Nat /\ From \in Nat
  BY ReadRange DEF ReadChunk, TypeInv, TypeOK
<1>2. upto >= From
  BY <1>1 DEF From, Rotated, Tail
<1>3. UpTo(upto) > From
  BY <1>1, <1>2 DEF ReadChunk, UpTo
<1>4. ASSUME From = 0, ~Rotated PROVE ctx[cur] = 0
  <2>1. PlaceOf(cur) <= 0
    BY <1>1, <1>4 DEF From, PlaceOf, Between, ReadChunk
  <2> QED
    BY <1>1, <2>1 DEF CtxInv
<1> QED
  BY <1>3, <1>4

LEMMA CtxInvStep ==
  ASSUME DbFails = FALSE, TypeInv, CtxInv, [Next /\ ~ReadError]_vars
  PROVE  CtxInv'
<1> USE DEF CtxInv, PlaceOf, Between
<1>1. ASSUME NEW f \in File, OpenFile(f) PROVE CtxInv'
  <2>1. \A h \in File : tail'[h] = tail[h] \/ tail[h].at <= 0
    BY <1>1, SizeIsNat DEF OpenFile, TypeInv, TypeOK, Tail
  <2> QED
    BY <1>1, <2>1 DEF OpenFile
<1>2. CASE NothingAppended
  <2>1. cur \in File /\ tail[cur] \in Tail /\ pc' \in {"flush", "scan"}
    BY <1>2, ReadRange DEF NothingAppended, Consumed, TypeInv, TypeOK
  <2>2. Rotated \/ From = tail[cur].at
    BY DEF From
  <2>3. /\ tail'[cur].at = From /\ ctx'[cur] = IF Rotated THEN 0 ELSE ctx[cur]
        /\ \A h \in File \ {cur} : tail'[h] = tail[h] /\ ctx'[h] = ctx[h]
    BY <1>2, <2>1 DEF NothingAppended, Reset, NextCtx, TypeInv, TypeOK
  <2> QED
    BY <1>2, <2>1, <2>2, <2>3 DEF NothingAppended
<1>3. CASE ReadChunk
  <2>1. cur \in File /\ pc' \in {"flush", "scan", "read"} /\ From \in Nat
    BY <1>3, ReadRange DEF ReadChunk, Consumed
  <2>2. /\ tail'[cur].at = UpTo(upto)
        /\ \A h \in File \ {cur} : tail'[h] = tail[h] /\ ctx'[h] = ctx[h]
    BY <1>3, <2>1 DEF ReadChunk, TypeInv, TypeOK
  <2>3. ~(tail'[cur].at <= 0)
    BY <1>3, <2>1, <2>2, StartOfFile, ReadRange DEF ReadChunk
  <2> QED
    BY <1>3, <2>1, <2>2, <2>3 DEF ReadChunk
<1>4. CASE SaveOffset
  <2>1. \A f \in File : saved'[f].at = tail[f].at
    BY <1>4 DEF SaveOffset, Cursor, TypeInv, TypeOK, Tail
  <2> QED
    BY <1>4, <2>1 DEF SaveOffset
<1>5. CASE Crash
  BY <1>5 DEF Crash
<1>6. CASE ~(\E f \in File : OpenFile(f)) /\ ~NothingAppended /\ ~ReadChunk
           /\ ~SaveOffset /\ ~Crash
  BY <1>6
  DEF Next, vars, files, db, round, Append, Rotate, GrowOld, BeginRound, InsertMidRound,
      InsertRows, EndOfFiles, InsertLast, RoundFailed, Resume
<1> QED
  BY <1>1, <1>2, <1>3, <1>4, <1>5, <1>6

(* Where no read and no statement fails, a file read from its start is     *)
(* parsed without any state of an earlier incarnation, also when it is     *)
(* replaced between any two steps of a round, and after crashes.           *)
THEOREM RotationForgetsHolds ==
  ASSUME DbFails = FALSE
  PROVE  Init /\ [][Next /\ ~ReadError]_vars => RotationForgets
<1>1. Init => CtxInv
  BY DEF Init, CtxInv, PlaceOf
<1>2. TypeInv /\ CtxInv /\ [Next /\ ~ReadError]_vars => CtxInv'
  BY CtxInvStep
<1>3. ASSUME TypeInv, CtxInv, [Next /\ ~ReadError]_vars
      PROVE  [pc = "read" /\ From = 0 /\ batch' \ batch # {}
                => ctx'[cur] = gen[cur]]_vars
  <2> SUFFICES ASSUME Next, ~ReadError, pc = "read", From = 0,
                      NEW l, l \in batch', l \notin batch
               PROVE  ctx'[cur] = gen[cur]
    BY <1>3
  <2>1. ReadChunk
    BY DEF Next, files, db, round, Append, Rotate, GrowOld, OpenFile, BeginRound,
           NothingAppended, Consumed, InsertMidRound, InsertRows, EndOfFiles,
           InsertLast, SaveOffset, RoundFailed, Crash, Resume, Volatile
  <2> DEFINE lines == Parsed(cur, gen[cur], From, Held, UpTo(upto))
  <2>2. /\ ctx' = [ctx EXCEPT ![cur] = NextCtx(lines, gen[cur])]
        /\ batch' = batch \cup lines
    BY <2>1 DEF ReadChunk, Consumed
  <2> HIDE DEF lines
  <2>3. lines # {} /\ cur \in File
    BY <1>3, <2>1, <2>2, ReadRange
  <2> QED
    BY <1>3, <2>1, <2>2, <2>3, StartOfFile DEF NextCtx, TypeInv, TypeOK
<1>4. [Next /\ ~ReadError]_vars => [Next]_vars
  OBVIOUS
<1> QED
  BY <1>1, <1>2, <1>3, <1>4, InitTyped, TypeInvInductive, PTL DEF RotationForgets
=============================================================================
