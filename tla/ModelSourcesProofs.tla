-------------------------- MODULE ModelSourcesProofs --------------------------
(***************************************************************************)
(* Theorems about the two sources that know a request's model from an      *)
(* earlier line, for logs of any length and any faults.                    *)
(*                                                                         *)
(* Codex: no inference the watermark has passed is lost but for the stated *)
(* exceptions; rows carry the model of their turn and none is counted      *)
(* twice, unless a process knows no more than the head of the file, or not *)
(* even that.  Grok: a request carries the last model of its own session   *)
(* that the memory can know, or the default.                               *)
(***************************************************************************)
EXTENDS CodexSource, GrokSource, SequenceTheorems, FiniteSetTheorems,
        WellFoundedInduction, TLAPS

Usage == {"token_usage_record", "token_count"}

-----------------------------------------------------------------------------
(* The rollout: its first line is the only session_meta, calls are         *)
(* numbered in order, and one is reported by a record, by a count, or by a *)
(* record and a later count; a count without a record precedes all records.*)
LogShape ==
  /\ \A i \in 1..Len(log) : log[i].call # 0 <=> log[i].kind \in Usage
  /\ \A i \in 1..Len(log) : log[i].kind = "session_meta" <=> i = 1

CallsNumbered == \E k \in 0..Len(log) : Calls = 1..k

ReportedInOrder ==
  \A i, j \in 1..Len(log) :
    i < j /\ log[i].call = log[j].call /\ log[i].call # 0
    => log[i].kind = "token_usage_record" /\ log[j].kind = "token_count"

CountsExplained ==
  \A j \in 1..Len(log) : log[j].kind = "token_count" =>
    \/ \E i \in 1..(j - 1) : log[i].kind = "token_usage_record" /\ log[i].call = log[j].call
    \/ \A i \in 1..(j - 1) : log[i].kind # "token_usage_record"

LogInv == LogShape /\ CallsNumbered /\ ReportedInOrder /\ CountsExplained

(* The collector's place in the file.                                      *)
RoundInv ==
  /\ base <= saved
  /\ pc \in {"new", "idle"} => pos = 0 /\ upto = 0 /\ batch = {}
  /\ pc \notin {"new", "idle"} => saved <= pos
  /\ pc = "new" => Forgotten(model, session, scanned, recorded) /\ saved = 0
  /\ pc = "parse" => pos < upto
  /\ pc = "save" => batch = {}
  /\ \A r \in batch : r.at <= pos
  /\ \A r \in rows \cup batch : r.at <= Len(log) /\ r.call = log[r.at].call
  /\ scanned # 0 => session

(* The lines the parser has behind it.                                     *)
At == IF pc \in {"new", "idle"} THEN saved ELSE pos

CodexInv == TypeOK /\ LogInv /\ RoundInv

-----------------------------------------------------------------------------
(* Why counts are passed over: a record or a quotation of its name, behind *)
(* the parser or among the lines a failed round had read.                  *)
RecordedWhy ==
  recorded => \E q \in 1..Len(log) :
    log[q].kind \in {"token_usage_record", "quote"} /\ (q <= At \/ q \in reread)

(* A line that is due to be stored: a record always is.                    *)
Due(i) ==
  /\ log[i].call # 0 /\ (\A j \in 1..base : log[j].call # log[i].call)
  /\ \/ log[i].kind = "token_usage_record"
     \/ ~Overtaken(i, "token_usage_record") /\ ~Misled(i)

SavedStored ==
  \A i \in (base + 1)..saved : Due(i) => \E r \in rows : r.call = log[i].call
RoundStored ==
  \A i \in (base + 1)..pos : Due(i) => \E r \in rows \cup batch : r.call = log[i].call

LossInv == RecordedWhy /\ SavedStored /\ RoundStored

-----------------------------------------------------------------------------
(* The parser's model is that of the lines behind it, or not known since   *)
(* the restart, or of a later line that a failed round had read, or what   *)
(* the head told a process that started behind it.                         *)
OfHeadOnly(n) ==
  /\ HeadLines < scanned /\ scanned <= Len(log)
  /\ model = LatestModel(HeadLines)
  /\ \A i \in (scanned + 1)..n : log[i].kind # "turn_context" \/ log[i].model = NoModel

ModelInv ==
  \/ \E n \in {At} : model = LatestModel(n)
  \/ model = NoModel /\ scanned = 0
  \/ \E j \in reread : j > At /\ log[j].kind = "turn_context" /\ log[j].model # NoModel
  \/ \E n \in {At} : OfHeadOnly(n)

RowAttributed(r) ==
  /\ r.session \/ r.blind
  /\ \/ r.model = LatestModel(r.at) \/ Overtaken(r.at, "turn_context")
     \/ HeadOnly(r) /\ r.scan <= Len(log)
     \/ r.blind /\ r.model = NoModel

AttrInv == ModelInv /\ \A r \in rows \cup batch : RowAttributed(r)

(* A process that knows its session, or has scanned, knows of every record *)
(* behind it but for those between the head and the row it scanned at.     *)
OutOfSight(i, scan) == HeadLines < i /\ i <= scan

RecordsKnown ==
  (session \/ scanned # 0) /\ ~recorded
  => \A i \in 1..At : log[i].kind = "token_usage_record" => OutOfSight(i, scanned)

(* So only these, or the row that scans or cannot, can be the count of a   *)
(* record behind it.                                                       *)
CountsFirst ==
  \A r \in rows \cup batch :
    log[r.at].kind = "token_count" /\ ~r.blind /\ r.scan # r.at - 1
    => \A i \in 1..r.at : log[i].kind = "token_usage_record" => OutOfSight(i, r.scan)

CountInv == RecordsKnown /\ CountsFirst
-----------------------------------------------------------------------------
(* Numbers below another are well founded, which is why a set of them has  *)
(* a greatest.                                                             *)
LEMMA LessWellFounded == IsWellFoundedOn({r \in Nat \X Nat : r[1] < r[2]}, Nat)
BY NatLessThanWellFounded DEF OpToRel

(* The greatest of a bounded set is in it (extract_latest_model).          *)
LEMMA MaxOfBounded ==
  ASSUME NEW n \in Nat, NEW S \in SUBSET (1..n), S # {}
  PROVE  Max(S) \in S /\ \A i \in S : i <= Max(S)
<1> DEFINE R == {r \in Nat \X Nat : r[1] < r[2]}
           T == {k \in Nat : n - k \in S}
<1>1. T # {}
  <2>1. PICK i \in S : TRUE
    OBVIOUS
  <2>2. i \in Nat /\ n - i \in Nat /\ n - (n - i) = i
    BY <2>1
  <2>3. n - i \in T
    BY <2>1, <2>2
  <2> QED
    BY <2>3
<1>2. PICK x \in T : \A y \in T : <<y, x>> \notin R
  <2>1. IsWellFoundedOn(R, Nat)
    BY LessWellFounded
  <2>2. T \subseteq Nat
    OBVIOUS
  <2> HIDE DEF R, T
  <2> QED
    BY <1>1, <2>1, <2>2, WFMin
<1>3. x \in Nat /\ n - x \in S
  OBVIOUS
<1>4. ASSUME NEW j \in S PROVE n - x >= j
  <2>1. j \in Nat /\ n - j \in Nat /\ n - (n - j) = j
    OBVIOUS
  <2>2. n - j \in T
    BY <2>1
  <2>3. ~(n - j < x)
    BY <1>2, <1>3, <2>1, <2>2
  <2> QED
    BY <1>3, <2>1, <2>3
<1>5. \E m \in S : \A j \in S : m >= j
  BY <1>3, <1>4
<1>6. Max(S) \in S /\ \A j \in S : Max(S) >= j
  BY <1>5 DEF Max
<1> QED
  BY <1>6

Turns(n) == {i \in 1..n : log[i].kind = "turn_context" /\ log[i].model # NoModel}

(* The latest model is the one of a turn at or before the line, or none.   *)
LEMMA LatestModelIs ==
  ASSUME NEW n \in Nat
  PROVE  /\ Turns(n) = {} => LatestModel(n) = NoModel
         /\ Turns(n) # {} => \E i \in Turns(n) :
              (\A j \in Turns(n) : j <= i) /\ LatestModel(n) = log[i].model
<1>1. ASSUME Turns(n) # {}
      PROVE  Max(Turns(n)) \in Turns(n) /\ \A i \in Turns(n) : i <= Max(Turns(n))
  <2>1. Turns(n) \in SUBSET (1..n)
    BY DEF Turns
  <2> QED
    BY ONLY <1>1, <2>1, MaxOfBounded, n \in Nat
<1>2. LatestModel(n) = IF Turns(n) = {} THEN NoModel ELSE log[Max(Turns(n))].model
  BY DEF LatestModel, Turns
<1> QED
  BY <1>1, <1>2

(* A turn with a model is the latest one at its line.                      *)
LEMMA LatestModelAtTurn ==
  ASSUME NEW n \in Nat \ {0}, n \in Turns(n)
  PROVE  LatestModel(n) = log[n].model
<1>1. PICK i \in Turns(n) :
        (\A j \in Turns(n) : j <= i) /\ LatestModel(n) = log[i].model
  BY LatestModelIs
<1>2. n <= i /\ i <= n /\ i \in Nat
  BY <1>1 DEF Turns
<1> QED
  BY <1>1, <1>2

(* Lines without a turn leave the latest model as it was.                  *)
LEMMA LatestModelKept ==
  ASSUME NEW n \in Nat, NEW k \in Nat, n <= k,
         \A i \in (n + 1)..k : i \notin Turns(k)
  PROVE  LatestModel(k) = LatestModel(n)
<1>1. Turns(k) = Turns(n)
  BY DEF Turns
<1> QED
  BY <1>1 DEF LatestModel, Turns

(* A line appended to the rollout leaves the lines before it in place.     *)
LEMMA Appended ==
  ASSUME TypeOK, NEW line \in Lines, Write(line)
  PROVE  /\ Len(log) \in Nat
         /\ log' \in Seq(Lines) /\ Len(log') = Len(log) + 1 /\ Len(log') <= MaxLine
         /\ \A i \in 1..Len(log) : log'[i] = log[i]
         /\ log'[Len(log) + 1] = line
         /\ UNCHANGED <<rows, saved, base, pc, pos, upto, batch, model, session,
                        scanned, recorded, reread>>
<1> USE CodexAssumption
<1>1. log \in Seq(Lines) /\ Len(log) < MaxLine /\ log' = Append(log, line)
  BY DEF TypeOK, Write
<1>2. Len(log) \in Nat
  BY <1>1, LenProperties
<1>3. /\ log' \in Seq(Lines) /\ Len(log') = Len(log) + 1
      /\ \A i \in 1..Len(log) : log'[i] = log[i]
      /\ log'[Len(log) + 1] = line
  BY <1>1, AppendProperties
<1>4. UNCHANGED <<rows, saved, base, pc, pos, upto, batch, model, session,
                  scanned, recorded, reread>>
  BY DEF Write, round, state
<1>5. Len(log') <= MaxLine
  BY <1>1, <1>2, <1>3
<1> QED
  BY <1>2, <1>3, <1>4, <1>5

LEMMA LatestModelPrefix ==
  ASSUME NEW n \in 0..Len(log), Len(log) \in Nat,
         \A i \in 1..Len(log) : log'[i] = log[i]
  PROVE  LatestModel(n)' = LatestModel(n)
<1>1. Turns(n)' = Turns(n)
  BY DEF Turns
<1>2. LatestModel(n)' = IF Turns(n)' = {} THEN NoModel ELSE log'[Max(Turns(n)')].model
  BY DEF LatestModel, Turns
<1>3. LatestModel(n) = IF Turns(n) = {} THEN NoModel ELSE log[Max(Turns(n))].model
  BY DEF LatestModel, Turns
<1>4. CASE Turns(n) = {}
  BY <1>1, <1>2, <1>3, <1>4
<1>5. CASE Turns(n) # {}
  <2>1. Turns(n) \in SUBSET (1..n) /\ n \in Nat
    BY DEF Turns
  <2>2. Max(Turns(n)) \in Turns(n)
    BY ONLY <1>5, <2>1, MaxOfBounded
  <2>3. log'[Max(Turns(n))] = log[Max(Turns(n))]
    BY <2>1, <2>2
  <2> QED
    BY <1>1, <1>2, <1>3, <2>3
<1> QED
  BY <1>4, <1>5

LEMMA LatestModelType ==
  ASSUME TypeOK, NEW n \in 0..Len(log)
  PROVE  LatestModel(n) \in Model \cup {NoModel}
<1>1. log \in Seq(Lines) /\ Len(log) \in Nat
  BY LenProperties DEF TypeOK
<1>2. \A i \in 1..Len(log) : log[i] \in Lines
  BY <1>1, ElementOfSeq
<1>3. Turns(n) \subseteq 1..Len(log) /\ n \in Nat
  BY <1>1 DEF Turns
<1> QED
  BY <1>2, <1>3, LatestModelIs DEF Lines

-----------------------------------------------------------------------------
(* What is known of a line when it is written.                             *)
Fits(line) ==
  /\ line.call # 0 <=> line.kind \in Usage
  /\ line.kind = "session_meta" <=> log = <<>>
  /\ \E k \in 0..Len(log) : Calls = 1..k /\ line.call \in 0..(k + 1)
  /\ line.call # 0 => \A i \in 1..Len(log) : log[i].call = line.call =>
       log[i].kind = "token_usage_record" /\ line.kind = "token_count"
  /\ line.kind = "token_count" =>
       \/ \E i \in 1..Len(log) : log[i].kind = "token_usage_record" /\ log[i].call = line.call
       \/ \A i \in 1..Len(log) : log[i].kind # "token_usage_record"

WriteStep == \E line \in Lines : Fits(line) /\ Write(line)

LEMMA CallNumber ==
  ASSUME LogInv, TypeOK
  PROVE  \E k \in 0..Len(log) : Calls = 1..k /\ NextCall = k + 1
<1>1. Len(log) \in Nat
  BY LenProperties DEF TypeOK
<1>2. PICK k \in 0..Len(log) : Calls = 1..k
  BY DEF LogInv, CallsNumbered
<1>3. k \in Nat /\ Cardinality(1..k) = k
  <2>1. k \in Nat
    BY <1>1
  <2>2. Cardinality(1..k) = IF 1 > k THEN 0 ELSE k - 1 + 1
    BY <2>1, FS_Interval
  <2> QED
    BY <2>1, <2>2
<1> QED
  BY <1>2, <1>3 DEF NextCall

(* Whatever Codex writes fits.                                             *)
LEMMA WrittenFits ==
  ASSUME LogInv, TypeOK,
         \/ WriteMeta \/ WriteQuote \/ WriteRecord \/ WriteCount
         \/ \E m \in Model \cup {NoModel} : WriteTurn(m)
  PROVE  WriteStep
<1> USE CodexAssumption
<1>1. Len(log) \in Nat /\ log \in Seq(Lines) /\ (log = <<>> <=> Len(log) = 0)
  BY LenProperties, EmptySeq DEF TypeOK
<1>2. PICK k \in 0..Len(log) : Calls = 1..k /\ NextCall = k + 1
  BY CallNumber
<1>3. \A i \in 1..Len(log) :
        /\ log[i] \in Lines
        /\ log[i].call # 0 => log[i].call \in 1..k
        /\ log[i].call # 0 <=> log[i].kind \in Usage
  BY <1>1, <1>2, ElementOfSeq DEF LogInv, LogShape, Calls
<1>4. ASSUME NEW kind \in {"session_meta", "turn_context", "quote"},
             NEW m \in Model \cup {NoModel}, kind = "session_meta" <=> log = <<>>,
             Write([kind |-> kind, call |-> 0, model |-> m])
      PROVE  WriteStep
  <2> DEFINE line == [kind |-> kind, call |-> 0, model |-> m]
  <2>1. line \in Lines
    BY <1>4 DEF Lines, Kind
  <2>2. Fits(line)
    BY <1>1, <1>2, <1>4 DEF Fits, Usage
  <2> QED
    BY <1>4, <2>1, <2>2 DEF WriteStep
<1>5. CASE WriteMeta
  BY <1>4, <1>5 DEF WriteMeta
<1>6. CASE WriteQuote
  BY <1>4, <1>6 DEF WriteQuote
<1>7. CASE \E m \in Model \cup {NoModel} : WriteTurn(m)
  BY <1>4, <1>7 DEF WriteTurn
<1>8. ASSUME NEW kind \in Usage, NEW n \in {k, k + 1}, n # 0,
             Write([kind |-> kind, call |-> n, model |-> NoModel]),
             Wrote("turn_context"),
             n = k => kind = "token_count" /\ Reported(k, "token_usage_record")
                      /\ ~Reported(k, "token_count"),
             n = k + 1 /\ kind = "token_count" => ~Wrote("token_usage_record")
      PROVE  WriteStep
  <2> DEFINE line == [kind |-> kind, call |-> n, model |-> NoModel]
  <2>1. Len(log) < MaxLine /\ log # <<>>
    BY <1>1, <1>8 DEF Write, Wrote
  <2>2. line \in Lines
    BY <1>1, <1>2, <1>8, <2>1 DEF Lines, Kind, Usage
  <2>3. line.call # 0 => \A i \in 1..Len(log) : log[i].call = line.call =>
          log[i].kind = "token_usage_record" /\ line.kind = "token_count"
    BY <1>2, <1>3, <1>8 DEF Reported, Usage
  <2>4. line.kind = "token_count" =>
          \/ \E i \in 1..Len(log) : log[i].kind = "token_usage_record"
                                    /\ log[i].call = line.call
          \/ \A i \in 1..Len(log) : log[i].kind # "token_usage_record"
    BY <1>2, <1>8 DEF Reported, Wrote
  <2>5. \E l \in 0..Len(log) : Calls = 1..l /\ line.call \in 0..(l + 1)
    BY <1>1, <1>2, <1>8
  <2>6. (line.call # 0 <=> line.kind \in Usage) /\ ~(line.kind = "session_meta")
    BY <1>8 DEF Usage
  <2> HIDE DEF line
  <2>7. Fits(line)
    BY ONLY <2>1, <2>3, <2>4, <2>5, <2>6 DEF Fits
  <2>8. Write(line)
    BY <1>8 DEF line
  <2> QED
    BY <2>2, <2>7, <2>8 DEF WriteStep
<1>9. CASE WriteRecord
  BY <1>1, <1>2, <1>8, <1>9 DEF WriteRecord, Usage
<1>10. CASE WriteCount
  <2>1. CASE /\ Reported(NextCall - 1, "token_usage_record")
             /\ ~Reported(NextCall - 1, "token_count")
             /\ Write([kind |-> "token_count", call |-> NextCall - 1, model |-> NoModel])
    <3>1. NextCall - 1 = k
      BY <1>1, <1>2
    <3>2. k # 0
      BY <1>3, <2>1, <3>1 DEF Reported, Usage
    <3> QED
      BY <1>1, <1>8, <1>10, <2>1, <3>1, <3>2 DEF WriteCount, Usage
  <2>2. CASE /\ ~Wrote("token_usage_record")
             /\ Write([kind |-> "token_count", call |-> NextCall, model |-> NoModel])
    BY <1>1, <1>2, <1>8, <1>10, <2>2 DEF WriteCount, Usage
  <2> QED
    BY <1>10, <2>1, <2>2 DEF WriteCount
<1> QED
  BY <1>5, <1>6, <1>7, <1>9, <1>10

LEMMA SameLog ==
  ASSUME LogInv, log' = log
  PROVE  LogInv'
<1>1. LogShape' /\ ReportedInOrder'
  BY DEF LogInv, LogShape, ReportedInOrder
<1>2. CallsNumbered'
  BY DEF LogInv, CallsNumbered, Calls
<1>3. CountsExplained'
  BY DEF LogInv, CountsExplained
<1> QED
  BY <1>1, <1>2, <1>3 DEF LogInv

LEMMA WriteKeepsLog ==
  ASSUME LogInv, TypeOK, NEW line \in Lines, Fits(line), Write(line)
  PROVE  LogInv'
<1> DEFINE n == Len(log)
<1>0. /\ n \in Nat /\ log' \in Seq(Lines) /\ Len(log') = n + 1
      /\ \A i \in 1..n : log'[i] = log[i]
      /\ log'[n + 1] = line
  BY Appended
<1>1. \A i \in 1..Len(log') : i \in 1..n \/ i = n + 1
  BY <1>0
<1>2. log = <<>> <=> n = 0
  BY EmptySeq DEF TypeOK
<1> HIDE DEF n
<1>3. LogShape'
  BY <1>0, <1>1, <1>2 DEF LogInv, LogShape, Fits, n
<1>4. CallsNumbered'
  <2>1. PICK k \in 0..n : Calls = 1..k /\ line.call \in 0..(k + 1)
    BY DEF Fits, n
  <2>2. Calls' = (Calls \cup {line.call}) \ {0}
    <3>1. Calls' = {log'[i].call : i \in 1..(n + 1)} \ {0}
      BY <1>0 DEF Calls
    <3>2. {log'[i].call : i \in 1..(n + 1)} = {log[i].call : i \in 1..n} \cup {line.call}
      BY <1>0
    <3> QED
      BY <3>1, <3>2 DEF Calls, n
  <2>3. CASE line.call = k + 1
    <3>1. Calls' = 1..(k + 1) /\ k + 1 \in 0..(n + 1)
      BY <1>0, <2>1, <2>2, <2>3
    <3> QED
      BY <1>0, <3>1 DEF CallsNumbered
  <2>4. CASE line.call # k + 1
    <3>1. Calls' = 1..k /\ k \in 0..(n + 1)
      BY <1>0, <2>1, <2>2, <2>4
    <3> QED
      BY <1>0, <3>1 DEF CallsNumbered
  <2> QED
    BY <2>3, <2>4
<1>5. ReportedInOrder'
  <2> SUFFICES ASSUME NEW i \in 1..(n + 1), NEW j \in 1..(n + 1),
                      i < j, log'[i].call = log'[j].call, log'[i].call # 0
               PROVE  log'[i].kind = "token_usage_record" /\ log'[j].kind = "token_count"
    BY <1>0 DEF ReportedInOrder
  <2>1. i \in 1..n
    BY <1>0
  <2> QED
    BY <1>0, <1>1, <2>1 DEF LogInv, ReportedInOrder, Fits, n
<1>6. CountsExplained'
  <2> SUFFICES ASSUME NEW j \in 1..(n + 1), log'[j].kind = "token_count"
               PROVE  \/ \E i \in 1..(j - 1) : log'[i].kind = "token_usage_record"
                                               /\ log'[i].call = log'[j].call
                      \/ \A i \in 1..(j - 1) : log'[i].kind # "token_usage_record"
    BY <1>0 DEF CountsExplained
  <2>1. CASE j \in 1..n
    <3>1. 1..(j - 1) \subseteq 1..n
      BY <1>0, <2>1
    <3> QED
      BY <1>0, <2>1, <3>1 DEF LogInv, CountsExplained, n
  <2>2. CASE j = n + 1
    <3>1. j - 1 = n
      BY <1>0, <2>2
    <3> QED
      BY <1>0, <2>2, <3>1 DEF Fits, n
  <2> QED
    BY <1>0, <2>1, <2>2
<1> QED
  BY <1>3, <1>4, <1>5, <1>6 DEF LogInv

(* What the collector knows is about lines that stay as they are.          *)
LEMMA WriteKeepsCodex ==
  ASSUME CodexInv, WriteStep
  PROVE  CodexInv'
<1> USE CodexAssumption
<1>0. PICK line \in Lines : Fits(line) /\ Write(line)
  BY DEF WriteStep
<1>1. /\ Len(log) \in Nat
      /\ log' \in Seq(Lines) /\ Len(log') = Len(log) + 1 /\ Len(log') <= MaxLine
      /\ \A i \in 1..Len(log) : log'[i] = log[i]
      /\ UNCHANGED <<rows, saved, base, pc, pos, upto, batch, model, session,
                     scanned, recorded, reread>>
  BY <1>0, Appended DEF CodexInv
<1>2. TypeOK'
  BY <1>1 DEF CodexInv, TypeOK
<1>3. LogInv'
  BY <1>0, WriteKeepsLog DEF CodexInv
<1>4. RoundInv'
  <2>1. \A r \in rows \cup batch : r.at \in 1..Len(log)
    BY <1>1 DEF CodexInv, TypeOK, RoundInv, Row
  <2>2. \A r \in rows \cup batch : r.at <= Len(log') /\ r.call = log'[r.at].call
    BY <1>1, <2>1 DEF CodexInv, RoundInv
  <2> QED
    BY <1>1, <2>2 DEF CodexInv, RoundInv, Forgotten
<1> QED
  BY <1>2, <1>3, <1>4 DEF CodexInv

-----------------------------------------------------------------------------
(* The numbers and values that a step of the parser is about.              *)
LEMMA ParseTypes ==
  ASSUME CodexInv, pc = "parse"
  PROVE  /\ Len(log) \in Nat /\ pos \in Nat /\ saved \in Nat /\ base \in Nat
         /\ base <= saved /\ saved <= pos /\ pos < upto /\ upto <= Len(log)
         /\ upto \in Nat
         /\ pos + 1 \in 1..Len(log) /\ pos + 1 \in 1..MaxLine /\ log[pos + 1] \in Lines
         /\ \A i \in 1..Len(log) : log[i] \in Lines
<1> USE CodexAssumption
<1>1. log \in Seq(Lines) /\ Len(log) \in Nat
  BY LenProperties DEF CodexInv, TypeOK
<1>2. \A i \in 1..Len(log) : log[i] \in Lines
  BY <1>1, ElementOfSeq
<1>3. /\ pos \in Nat /\ saved \in Nat /\ base \in Nat /\ upto \in Nat
      /\ base <= saved /\ saved <= pos /\ pos < upto /\ upto <= Len(log)
      /\ Len(log) <= MaxLine
  BY <1>1 DEF CodexInv, TypeOK, RoundInv
<1> QED
  BY <1>1, <1>2, <1>3

(* A usage line becomes a row: the head is scanned for it, or could not be *)
(* read, or need not be scanned.                                           *)
HeadScanned(record) ==
  /\ scanned = 0 /\ scanned' = pos /\ session' = TRUE
  /\ model' = IF LatestModel(HeadEnd) # NoModel THEN LatestModel(HeadEnd) ELSE model
  /\ recorded' = (recorded \/ record \/ Quoted)
HeadUnread(record) ==
  /\ scanned = 0 /\ scanned' = 0 /\ session' = (session \/ record)
  /\ model' = model /\ recorded' = (recorded \/ record)
NotScanned(record) ==
  /\ scanned # 0 \/ (model # NoModel /\ (session \/ record))
  /\ scanned' = scanned /\ session' = TRUE
  /\ model' = model /\ recorded' = (recorded \/ record)

Collected(record) ==
  /\ pos >= 1 /\ HeadEnd \in 1..pos
  /\ \E r \in Row :
       /\ batch' = batch \cup {r}
       /\ r.at = pos + 1 /\ r.call = log[pos + 1].call
       /\ r.model = model' /\ r.session = session' /\ r.scan = scanned'
       /\ \/ HeadScanned(record) /\ r.blind = FALSE
          \/ HeadUnread(record) /\ r.blind = TRUE
          \/ NotScanned(record) /\ r.blind = FALSE

LEMMA CollectStep ==
  ASSUME CodexInv, pc = "parse", NEW record \in BOOLEAN,
         log[pos + 1].call # 0, Collect(log[pos + 1], record)
  PROVE  /\ Collected(record) /\ model' \in Model \cup {NoModel}
         /\ {session', recorded'} \subseteq BOOLEAN /\ scanned' \in 0..Len(log)
         /\ scanned' # 0 => session'
<1> USE CodexAssumption
<1>0. /\ Len(log) \in Nat /\ pos \in Nat /\ pos + 1 \in 1..MaxLine /\ pos <= Len(log)
      /\ pos + 1 \in 1..Len(log) /\ log[pos + 1] \in Lines /\ HeadLines \in Nat \ {0}
      /\ model \in Model \cup {NoModel} /\ session \in BOOLEAN
      /\ scanned \in 0..Len(log) /\ recorded \in BOOLEAN /\ Len(log) <= MaxLine
      /\ scanned # 0 => session
  BY ParseTypes DEF CodexInv, TypeOK, RoundInv
<1>1. pos # 0 /\ log[1].kind = "session_meta" /\ 1 \in 1..Len(log)
  <2>1. 1 \in 1..Len(log)
    BY <1>0
  <2>2. log[1].kind = "session_meta"
    BY <2>1 DEF CodexInv, LogInv, LogShape
  <2>3. pos = 0 => log[pos + 1].call = 0
    BY <2>1, <2>2 DEF CodexInv, LogInv, LogShape, Usage
  <2> QED
    BY <2>1, <2>2, <2>3
<1>2. pos >= 1 /\ HeadEnd \in 1..pos
  BY <1>0, <1>1 DEF HeadEnd
<1>3. HasSession
  <2>1. 1 \in 1..HeadEnd
    BY <1>0, <1>2
  <2> QED
    BY <1>1, <2>1 DEF HasSession
<1>4. LatestModel(HeadEnd) \in Model \cup {NoModel}
  <2>1. HeadEnd \in 0..Len(log)
    BY <1>0, <1>2
  <2> QED
    BY <2>1, LatestModelType DEF CodexInv
<1>5. log[pos + 1].call \in 1..MaxLine
  BY <1>0 DEF Lines
<1>6. PICK readable \in BOOLEAN :
        LET known == Recovered(session \/ record, readable) IN
        /\ batch' = batch \cup {[at |-> pos + 1, call |-> log[pos + 1].call,
                                 model |-> known.model, session |-> known.session,
                                 scan |-> known.scanned,
                                 blind |-> Scans(session \/ record) /\ known.scanned = 0]}
        /\ model' = known.model
        /\ session' = known.session
        /\ scanned' = known.scanned
        /\ recorded' = (recorded \/ record \/ known.recorded)
  BY DEF Collect
<1> DEFINE known == Recovered(session \/ record, readable)
           due == Scans(session \/ record)
           r == [at |-> pos + 1, call |-> log[pos + 1].call, model |-> model',
                 session |-> session', scan |-> scanned',
                 blind |-> due /\ scanned' = 0]
<1>7. /\ batch' = batch \cup {r}
      /\ model' = known.model /\ session' = known.session /\ scanned' = known.scanned
      /\ recorded' = (recorded \/ record \/ known.recorded)
  BY <1>6
<1>8. CASE due /\ readable
  <2>1. known = [model    |-> IF LatestModel(HeadEnd) # NoModel
                              THEN LatestModel(HeadEnd) ELSE model,
                 session  |-> (session \/ record) \/ HasSession,
                 scanned  |-> pos,
                 recorded |-> Quoted]
    BY <1>0, <1>1, <1>8 DEF Recovered
  <2>2. /\ known.model = IF LatestModel(HeadEnd) # NoModel THEN LatestModel(HeadEnd)
                         ELSE model
        /\ known.session = ((session \/ record) \/ HasSession)
        /\ known.scanned = pos /\ known.recorded = Quoted
    BY <2>1
  <2> HIDE DEF known
  <2>3. scanned = 0
    BY <1>8 DEF Scans
  <2>4. session' = TRUE
    BY ONLY <1>3, <1>7, <2>2
  <2>5. /\ scanned' = pos /\ pos # 0
        /\ model' = IF LatestModel(HeadEnd) # NoModel THEN LatestModel(HeadEnd) ELSE model
        /\ recorded' = (recorded \/ record \/ Quoted)
    BY <1>1, <1>7, <2>2
  <2>6. /\ r.at = pos + 1 /\ r.call = log[pos + 1].call /\ r.model = model'
        /\ r.session = session' /\ r.scan = scanned' /\ r.blind = FALSE
    BY <2>5
  <2>7. model' \in Model \cup {NoModel} /\ scanned' \in 0..Len(log)
    BY <1>0, <1>4, <2>5
  <2>8. r \in Row
    BY <1>0, <1>5, <2>4, <2>5, <2>7 DEF Row
  <2>9. HeadScanned(record)
    BY <2>3, <2>4, <2>5 DEF HeadScanned
  <2>10. recorded' \in BOOLEAN
    BY <2>5
  <2> HIDE DEF r
  <2> QED
    BY <1>2, <1>7, <2>4, <2>6, <2>7, <2>8, <2>9, <2>10 DEF Collected
<1>9. CASE ~(due /\ readable)
  <2>1. known = [model |-> model, session |-> session \/ record, scanned |-> scanned,
                 recorded |-> FALSE]
    BY <1>9 DEF Recovered
  <2>2. /\ known.model = model /\ known.session = (session \/ record)
        /\ known.scanned = scanned /\ known.recorded = FALSE
    BY <2>1
  <2> HIDE DEF known
  <2>3. /\ model' = model /\ session' = (session \/ record)
        /\ scanned' = scanned /\ recorded' = (recorded \/ record)
    BY <1>7, <2>2
  <2>4. /\ r.at = pos + 1 /\ r.call = log[pos + 1].call /\ r.model = model'
        /\ r.session = session' /\ r.scan = scanned'
        /\ r.blind = (due /\ scanned' = 0)
    OBVIOUS
  <2>5. session' \in BOOLEAN /\ recorded' \in BOOLEAN
    BY <2>3
  <2>6. r \in Row
    BY <1>0, <1>5, <2>3, <2>5 DEF Row
  <2>7. scanned' # 0 => session'
    BY <1>0, <2>3
  <2>8. \/ HeadUnread(record) /\ r.blind = TRUE
        \/ NotScanned(record) /\ r.blind = FALSE
    <3>1. CASE due
      <4>1. scanned = 0
        BY <3>1 DEF Scans
      <4>2. (due /\ scanned' = 0) = TRUE
        BY <2>3, <3>1, <4>1
      <4> QED
        BY <2>3, <2>4, <4>1, <4>2 DEF HeadUnread
    <3>2. CASE ~due
      <4>1. scanned # 0 \/ (model # NoModel /\ (session \/ record))
        BY <3>2 DEF Scans
      <4>2. session' = TRUE
        BY <1>0, <2>3, <4>1
      <4>3. (due /\ scanned' = 0) = FALSE
        BY <3>2
      <4> QED
        BY <2>3, <2>4, <4>1, <4>2, <4>3 DEF NotScanned
    <3> QED
      BY <3>1, <3>2
  <2> HIDE DEF r
  <2> QED
    BY <1>0, <1>2, <1>7, <2>3, <2>4, <2>5, <2>6, <2>7, <2>8 DEF Collected
<1> QED
  BY <1>8, <1>9

(* The five ways a line is taken.                                          *)
ParsedMeta ==
  /\ log[pos + 1].kind = "session_meta"
  /\ session' = TRUE
  /\ UNCHANGED <<batch, model, scanned, recorded>>
ParsedTurn ==
  /\ log[pos + 1].kind = "turn_context"
  /\ model' = IF log[pos + 1].model # NoModel THEN log[pos + 1].model ELSE model
  /\ UNCHANGED <<batch, session, scanned, recorded>>
ParsedRecord == log[pos + 1].kind = "token_usage_record" /\ Collected(TRUE)
ParsedCount == log[pos + 1].kind = "token_count" /\ ~recorded /\ Collected(FALSE)
PassedOver ==
  /\ log[pos + 1].kind = "quote" \/ (log[pos + 1].kind = "token_count" /\ recorded)
  /\ UNCHANGED <<batch, model, session, scanned, recorded>>

LEMMA ParseCases ==
  ASSUME CodexInv, ParseLine
  PROVE  /\ ParsedMeta \/ ParsedTurn \/ ParsedRecord \/ ParsedCount \/ PassedOver
         /\ model' \in Model \cup {NoModel} /\ {session', recorded'} \subseteq BOOLEAN
         /\ scanned' \in 0..Len(log) /\ (scanned' # 0 => session')
         /\ pos' = pos + 1 /\ pc' \in {"parse", "flush", "insert"}
         /\ pc' = "parse" => pos + 1 < upto
         /\ UNCHANGED <<log, rows, saved, base, upto, reread>>
<1> DEFINE line == log[pos + 1]
<1>1. /\ pc = "parse" /\ line \in Lines /\ pos + 1 \in 1..Len(log)
      /\ line.call # 0 <=> line.kind \in Usage
  BY ParseTypes DEF ParseLine, CodexInv, LogInv, LogShape
<1>2. /\ model \in Model \cup {NoModel} /\ session \in BOOLEAN
      /\ scanned \in 0..Len(log) /\ recorded \in BOOLEAN /\ (scanned # 0 => session)
  BY DEF CodexInv, TypeOK, RoundInv
<1>3. /\ pos' = pos + 1 /\ pc' \in {"parse", "flush", "insert"}
      /\ pc' = "parse" => pos + 1 < upto
      /\ UNCHANGED <<log, rows, saved, base, upto, reread>>
  BY DEF ParseLine
<1>4. Parse(line)
  BY DEF ParseLine
<1>6. CASE line.kind = "session_meta"
  <2>1. session' = TRUE /\ UNCHANGED <<batch, model, scanned, recorded>>
    BY <1>1, <1>4, <1>6 DEF Parse
  <2> QED
    BY <1>2, <1>3, <1>6, <2>1 DEF ParsedMeta
<1>7. CASE line.kind = "turn_context"
  <2>1. /\ model' = IF line.model # NoModel THEN line.model ELSE model
        /\ UNCHANGED <<batch, session, scanned, recorded>>
    BY <1>1, <1>4, <1>7 DEF Parse
  <2>2. model' \in Model \cup {NoModel}
    BY <1>1, <1>2, <2>1 DEF Lines
  <2> QED
    BY <1>2, <1>3, <1>7, <2>1, <2>2 DEF ParsedTurn
<1>8. CASE line.kind = "token_usage_record"
  <2>1. Collect(line, TRUE) /\ line.call # 0
    BY <1>1, <1>4, <1>8 DEF Parse, Usage
  <2> QED
    BY <1>1, <1>3, <1>8, <2>1, CollectStep DEF ParsedRecord
<1>9. CASE line.kind = "token_count" /\ ~recorded
  <2>1. Collect(line, FALSE) /\ line.call # 0
    BY <1>1, <1>4, <1>9 DEF Parse, Usage
  <2> QED
    BY <1>1, <1>3, <1>9, <2>1, CollectStep DEF ParsedCount
<1>10. CASE line.kind = "quote" \/ (line.kind = "token_count" /\ recorded)
  <2>1. UNCHANGED <<batch, model, session, scanned, recorded>>
    BY <1>1, <1>4, <1>10 DEF Parse, state
  <2> QED
    BY <1>2, <1>3, <1>10, <2>1 DEF PassedOver
<1> QED
  BY <1>1, <1>6, <1>7, <1>8, <1>9, <1>10 DEF Lines, Kind

LEMMA ParseKeepsCodex ==
  ASSUME CodexInv, ParseLine
  PROVE  CodexInv'
<1>0. pc = "parse"
  BY DEF ParseLine
<1>1. /\ Len(log) \in Nat /\ pos \in Nat /\ saved \in Nat /\ base \in Nat /\ upto \in Nat
      /\ base <= saved /\ saved <= pos /\ pos < upto /\ upto <= Len(log)
      /\ pos + 1 \in 1..Len(log)
      /\ log[pos + 1].call # 0 <=> log[pos + 1].kind \in Usage
      /\ log[pos + 1].kind = "session_meta" <=> pos + 1 = 1
      /\ \A r \in batch : r.at \in Nat
  BY <1>0, ParseTypes DEF CodexInv, LogInv, LogShape, TypeOK, Row
<1>2. /\ model' \in Model \cup {NoModel} /\ {session', recorded'} \subseteq BOOLEAN
      /\ scanned' \in 0..Len(log) /\ (scanned' # 0 => session')
      /\ pos' = pos + 1 /\ pc' \in {"parse", "flush", "insert"}
      /\ pc' = "parse" => pos + 1 < upto
      /\ UNCHANGED <<log, rows, saved, base, upto, reread>>
  BY ParseCases
<1>3. \/ batch' = batch
      \/ \E r \in Row : /\ batch' = batch \cup {r}
                        /\ r.at = pos + 1 /\ r.call = log[pos + 1].call
  BY ParseCases
  DEF ParsedMeta, ParsedTurn, ParsedRecord, ParsedCount, PassedOver, Collected
<1>4. TypeOK'
  <2>1. batch' \subseteq Row
    BY <1>3 DEF CodexInv, TypeOK
  <2> QED
    BY <1>1, <1>2, <2>1 DEF CodexInv, TypeOK
<1>5. LogInv'
  BY <1>2, SameLog DEF CodexInv
<1>6. RoundInv'
  <2>1. \A r \in rows \cup batch' : r.at <= Len(log) /\ r.call = log[r.at].call
    BY <1>1, <1>3 DEF CodexInv, RoundInv
  <2>2. \A r \in batch' : r.at <= pos + 1
    BY <1>1, <1>3 DEF CodexInv, RoundInv
  <2> QED
    BY <1>1, <1>2, <2>1, <2>2 DEF CodexInv, RoundInv
<1> QED
  BY <1>4, <1>5, <1>6 DEF CodexInv

-----------------------------------------------------------------------------
(* The steps of the collector that leave the rollout alone.                *)
RoundStep ==
  \/ FirstRound \/ BeginRound \/ InsertMidRound \/ InsertLast
  \/ SaveOffset \/ RoundFailed \/ Restart

LEMMA RoundKeepsCodex ==
  ASSUME CodexInv, RoundStep
  PROVE  CodexInv'
<1> USE CodexAssumption
<1>1. /\ Len(log) \in Nat /\ pos \in 0..upto /\ upto \in 0..Len(log)
      /\ saved \in 0..Len(log) /\ base \in 0..saved
      /\ \A r \in rows \cup batch : r.at \in Nat
  BY LenProperties DEF CodexInv, TypeOK, RoundInv, Row
<1>2. log' = log
  BY DEF RoundStep, FirstRound, BeginRound, InsertMidRound, InsertLast, InsertRows,
         SaveOffset, RoundFailed, Restart
<1>3. LogInv'
  BY <1>2, SameLog DEF CodexInv
<1>4. TypeOK' /\ RoundInv' => CodexInv'
  BY <1>3 DEF CodexInv
<1>5. CASE FirstRound
  <2>1. PICK n \in 0..Len(log) :
          /\ pc = "new" /\ pc' = "idle" /\ saved' = n /\ base' = n
          /\ UNCHANGED <<log, rows, pos, upto, batch, model, session, scanned, recorded,
                         reread>>
    BY <1>1, <1>5 DEF FirstRound, round, state
  <2>2. pos = 0 /\ Forgotten(model, session, scanned, recorded)
    BY <2>1 DEF CodexInv, RoundInv
  <2>3. TypeOK'
    BY <2>1 DEF CodexInv, TypeOK
  <2>4. RoundInv'
    BY <1>1, <2>1, <2>2 DEF CodexInv, RoundInv, Forgotten
  <2> QED
    BY <1>4, <2>3, <2>4
<1>6. CASE BeginRound
  <2>1. /\ pc = "idle" /\ pc' \in {"parse", "insert"} /\ pos' = saved /\ upto' = Len(log)
        /\ pc' = "parse" => saved < Len(log)
        /\ UNCHANGED <<log, rows, saved, base, batch, model, session, scanned, recorded,
                       reread>>
    BY <1>6 DEF BeginRound, state
  <2>2. TypeOK'
    BY <1>1, <2>1 DEF CodexInv, TypeOK
  <2>3. RoundInv'
    BY <1>1, <2>1 DEF CodexInv, RoundInv
  <2> QED
    BY <1>4, <2>2, <2>3
<1>7. CASE InsertMidRound \/ InsertLast
  <2>1. /\ pc \in {"flush", "insert"} /\ pc' \in {"parse", "insert", "save"}
        /\ pc' = "parse" => pos < upto
        /\ rows' = rows \cup {r \in batch : \A old \in rows : old.at # r.at} /\ batch' = {}
        /\ UNCHANGED <<log, saved, base, pos, upto, model, session, scanned, recorded,
                       reread>>
    BY <1>7 DEF InsertMidRound, InsertLast, InsertRows, state
  <2>2. TypeOK'
    BY <1>1, <2>1 DEF CodexInv, TypeOK
  <2>3. RoundInv'
    BY <1>1, <2>1 DEF CodexInv, RoundInv
  <2> QED
    BY <1>4, <2>2, <2>3
<1>8. CASE SaveOffset
  <2>1. /\ pc = "save" /\ pc' = "idle" /\ saved' = pos
        /\ pos' = 0 /\ upto' = 0 /\ batch' = {}
        /\ UNCHANGED <<log, rows, base, model, session, scanned, recorded, reread>>
    BY <1>8 DEF SaveOffset, Idle, state
  <2>2. TypeOK'
    BY <1>1, <2>1 DEF CodexInv, TypeOK
  <2>3. RoundInv'
    BY <1>1, <2>1 DEF CodexInv, RoundInv
  <2> QED
    BY <1>4, <2>2, <2>3
<1>9. CASE RoundFailed
  <2>1. /\ pc \in {"flush", "insert", "save"} /\ pc' = "idle"
        /\ pos' = 0 /\ upto' = 0 /\ batch' = {}
        /\ reread' = reread \cup ((saved + 1)..pos)
        /\ UNCHANGED <<log, rows, saved, base, model, session, scanned, recorded>>
    BY <1>9 DEF RoundFailed, Idle, state
  <2>2. TypeOK'
    <3>1. (saved + 1)..pos \subseteq 1..Len(log)
      BY <1>1
    <3> QED
      BY <1>1, <2>1, <3>1 DEF CodexInv, TypeOK
  <2>3. RoundInv'
    BY <1>1, <2>1 DEF CodexInv, RoundInv
  <2> QED
    BY <1>4, <2>2, <2>3
<1>10. CASE Restart
  <2>1. /\ pc' = "idle" /\ pos' = 0 /\ upto' = 0 /\ batch' = {}
        /\ model' = NoModel /\ session' = FALSE /\ scanned' = 0 /\ recorded' = FALSE
        /\ UNCHANGED <<log, rows, saved, base, reread>>
    BY <1>10 DEF Restart, Idle, Forgotten
  <2>2. TypeOK'
    <3>1. session' \in BOOLEAN /\ recorded' \in BOOLEAN /\ model' \in Model \cup {NoModel}
      BY ONLY <2>1
    <3>2. scanned' \in 0..Len(log)
      BY <1>1, <2>1
    <3>3. upto' \in 0..Len(log) /\ pos' \in 0..upto' /\ batch' \subseteq Row
      BY <1>1, <2>1
    <3> QED
      BY <2>1, <3>1, <3>2, <3>3 DEF CodexInv, TypeOK
  <2>3. RoundInv'
    BY <1>1, <2>1 DEF CodexInv, RoundInv
  <2> QED
    BY <1>4, <2>2, <2>3
<1> QED
  BY <1>5, <1>6, <1>7, <1>8, <1>9, <1>10 DEF RoundStep

(* A step writes a line, parses one, is another step of the round, or      *)
(* stutters.                                                               *)
LEMMA StepCases ==
  ASSUME CodexInv, [Next]_vars
  PROVE  WriteStep \/ ParseLine \/ RoundStep \/ UNCHANGED vars
BY WrittenFits DEF Next, RoundStep, CodexInv

LEMMA CodexInvariant == Spec => []CodexInv
<1> USE CodexAssumption
<1>1. Init => CodexInv
  <2> SUFFICES ASSUME Init PROVE CodexInv
    OBVIOUS
  <2>1. log = <<>> /\ log \in Seq(Lines) /\ Len(log) = 0
    BY EmptySeq DEF Init
  <2>2. TypeOK
    <3>1. /\ {session, recorded} \subseteq BOOLEAN /\ scanned = 0
          /\ model \in Model \cup {NoModel}
      BY DEF Init, Forgotten
    <3>2. /\ upto \in 0..Len(log) /\ pos \in 0..upto /\ Len(log) <= MaxLine
          /\ saved \in 0..Len(log) /\ base \in 0..Len(log)
      BY <2>1 DEF Init, Idle
    <3> QED
      BY <2>1, <3>1, <3>2 DEF Init, Idle, TypeOK
  <2>3. LogInv
    <3>1. Calls = 1..0
      BY <2>1 DEF Calls
    <3> QED
      BY <2>1, <3>1
      DEF LogInv, LogShape, CallsNumbered, ReportedInOrder, CountsExplained
  <2>4. RoundInv
    BY <2>1 DEF Init, RoundInv, Idle, Forgotten
  <2> QED
    BY <2>2, <2>3, <2>4 DEF CodexInv
<1>2. CodexInv /\ [Next]_vars => CodexInv'
  <2> SUFFICES ASSUME CodexInv, [Next]_vars PROVE CodexInv'
    OBVIOUS
  <2>1. CASE UNCHANGED vars
    BY <2>1
    DEF vars, round, state, CodexInv, TypeOK, LogInv, LogShape, CallsNumbered, Calls,
        ReportedInOrder, CountsExplained, RoundInv, Forgotten
  <2> QED
    BY <2>1, StepCases, WriteKeepsCodex, ParseKeepsCodex, RoundKeepsCodex
<1> QED
  BY <1>1, <1>2, PTL DEF Spec

(* Every reachable state of the rollout, the parser and the collector is   *)
(* well typed: the watermark stays within the file, rows name lines of it  *)
(* (codex.rs; sources/mod.rs, round_codex).                                *)
THEOREM CodexTypeCorrect == Spec => []TypeOK
<1>1. CodexInv => TypeOK
  BY DEF CodexInv
<1> QED
  BY <1>1, CodexInvariant, PTL

-----------------------------------------------------------------------------
LEMMA WriteKeepsLoss ==
  ASSUME CodexInv, LossInv, WriteStep
  PROVE  LossInv'
<1>0. PICK line \in Lines : Fits(line) /\ Write(line)
  BY DEF WriteStep
<1>1. /\ Len(log) \in Nat /\ Len(log') = Len(log) + 1
      /\ \A i \in 1..Len(log) : log'[i] = log[i]
      /\ UNCHANGED <<rows, saved, base, pc, pos, upto, batch, model, session,
                     scanned, recorded, reread>>
  BY <1>0, Appended DEF CodexInv
<1>2. /\ base \in 0..Len(log) /\ saved \in 0..Len(log) /\ pos \in 0..Len(log)
      /\ reread \subseteq 1..Len(log) /\ At' = At
  BY <1>1 DEF CodexInv, TypeOK, At
<1>3. ASSUME NEW i \in 1..Len(log) PROVE Due(i)' => Due(i)
  <2>1. \A j \in 1..base : log'[j] = log[j]
    BY <1>1, <1>2
  <2>2. \A j \in 1..i : log'[j] = log[j]
    BY <1>1, <1>2
  <2>3. \A j \in reread : log'[j] = log[j]
    BY <1>1, <1>2
  <2> QED
    BY <1>1, <1>3, <2>1, <2>2, <2>3 DEF Due, Overtaken, Misled
<1>4. RecordedWhy'
  <2> SUFFICES ASSUME recorded
               PROVE  RecordedWhy'
    BY <1>1 DEF RecordedWhy
  <2>1. PICK q \in 1..Len(log) :
          log[q].kind \in {"token_usage_record", "quote"} /\ (q <= At \/ q \in reread)
    BY DEF LossInv, RecordedWhy
  <2>2. q \in 1..Len(log') /\ log'[q] = log[q]
    BY <1>1, <1>2
  <2> QED
    BY <1>1, <1>2, <2>1, <2>2 DEF RecordedWhy
<1>5. (base + 1)..saved \subseteq 1..Len(log) /\ (base + 1)..pos \subseteq 1..Len(log)
  BY <1>1, <1>2
<1>6. SavedStored' /\ RoundStored'
  BY <1>1, <1>3, <1>5 DEF LossInv, SavedStored, RoundStored
<1> QED
  BY <1>4, <1>6 DEF LossInv

(* A count that is passed over has a row already, or is an exception.      *)
LEMMA PassedCountStored ==
  ASSUME CodexInv, LossInv, pc = "parse", recorded,
         log[pos + 1].kind = "token_count", Due(pos + 1)
  PROVE  \E r \in rows \cup batch : r.call = log[pos + 1].call
<1> DEFINE i == pos + 1
<1>1. /\ Len(log) \in Nat /\ pos \in Nat /\ saved \in Nat /\ base \in Nat
      /\ base <= saved /\ saved <= pos /\ i \in 1..Len(log) /\ At = pos
      /\ log[i].call # 0
  BY ParseTypes DEF At, Due
<1>2. ~Overtaken(i, "token_usage_record") /\ ~Misled(i)
  BY DEF Due
<1>3. PICK q \in 1..Len(log) :
        log[q].kind \in {"token_usage_record", "quote"} /\ (q <= At \/ q \in reread)
  BY DEF LossInv, RecordedWhy
<1>4. log[q].kind = "token_usage_record" /\ q < i
  <2>1. q # i /\ q \in Nat
    BY <1>1, <1>3
  <2>2. q < i \/ (q \in reread /\ i < q)
    BY <1>1, <1>3, <2>1
  <2>3. CASE log[q].kind = "quote"
    <3>1. q < i => q \in 1..i
      BY <1>1, <2>1
    <3>2. Misled(i)
      BY <2>2, <2>3, <3>1 DEF Misled, Overtaken
    <3> QED
      BY <1>2, <3>2
  <2>4. CASE log[q].kind = "token_usage_record"
    BY <1>2, <2>2, <2>4 DEF Overtaken
  <2> QED
    BY <1>3, <2>3, <2>4
<1>5. PICK p \in 1..(i - 1) :
        log[p].kind = "token_usage_record" /\ log[p].call = log[i].call
  <2>1. q \in 1..(i - 1)
    BY <1>1, <1>4
  <2> QED
    BY <1>1, <1>4, <2>1 DEF CodexInv, LogInv, CountsExplained
<1>6. p \in (base + 1)..pos
  <2>1. p \notin 1..base
    BY <1>5 DEF Due
  <2> QED
    BY <1>1, <1>5, <2>1
<1>7. Due(p)
  BY <1>1, <1>5 DEF Due
<1> QED
  BY <1>5, <1>6, <1>7 DEF LossInv, RoundStored

LEMMA ParseKeepsLoss ==
  ASSUME CodexInv, LossInv, ParseLine
  PROVE  LossInv'
<1>0. pc = "parse"
  BY DEF ParseLine
<1>1. /\ Len(log) \in Nat /\ pos \in Nat /\ saved \in Nat /\ base \in Nat
      /\ base <= saved /\ saved <= pos /\ pos + 1 \in 1..Len(log)
      /\ log[pos + 1].call # 0 <=> log[pos + 1].kind \in Usage
  BY <1>0, ParseTypes DEF CodexInv, LogInv, LogShape
<1>2. /\ pos' = pos + 1 /\ At = pos /\ At' = pos + 1
      /\ UNCHANGED <<log, rows, saved, base, upto, reread>>
  BY <1>0, ParseCases DEF At
<1>3. \A i : Due(i)' <=> Due(i)
  BY <1>2 DEF Due, Overtaken, Misled
<1>4. SavedStored'
  BY <1>2, <1>3 DEF LossInv, SavedStored
<1>5. RecordedWhy'
  <2>1. CASE recorded' /\ recorded
    <3>1. PICK q \in 1..Len(log) :
            log[q].kind \in {"token_usage_record", "quote"} /\ (q <= At \/ q \in reread)
      BY <2>1 DEF LossInv, RecordedWhy
    <3>2. q <= At => q <= At'
      BY <1>1, <1>2
    <3> QED
      BY <1>2, <3>1, <3>2 DEF RecordedWhy
  <2>2. CASE recorded' /\ ~recorded
    <3>1. CASE ParsedRecord
      <4>1. log[pos + 1].kind = "token_usage_record" /\ pos + 1 <= At'
        BY <1>1, <1>2, <3>1 DEF ParsedRecord
      <4> QED
        BY <1>1, <1>2, <4>1 DEF RecordedWhy
    <3>2. CASE ParsedCount
      <4>1. Quoted /\ HeadEnd \in 1..pos
        BY <2>2, <3>2
        DEF ParsedCount, Collected, HeadScanned, HeadUnread, NotScanned
      <4>2. PICK q \in 1..HeadEnd : log[q].kind \in {"token_usage_record", "quote"}
        BY <4>1 DEF Quoted
      <4>3. q \in 1..Len(log) /\ q <= At'
        BY <1>1, <1>2, <4>1
      <4> QED
        BY <1>2, <4>2, <4>3 DEF RecordedWhy
    <3>3. CASE ParsedMeta \/ ParsedTurn \/ PassedOver
      BY <2>2, <3>3 DEF ParsedMeta, ParsedTurn, PassedOver
    <3> QED
      BY <3>1, <3>2, <3>3, ParseCases
  <2> QED
    BY <2>1, <2>2 DEF RecordedWhy
<1>6. RoundStored'
  <2> SUFFICES ASSUME NEW i \in (base + 1)..(pos + 1), Due(i)
               PROVE  \E r \in rows \cup batch' : r.call = log[i].call
    BY <1>2, <1>3 DEF RoundStored
  <2>0. batch \subseteq batch'
    BY ParseCases
    DEF ParsedMeta, ParsedTurn, ParsedRecord, ParsedCount, PassedOver, Collected
  <2>1. CASE i # pos + 1
    <3>1. i \in (base + 1)..pos
      BY <1>1, <2>1
    <3> QED
      BY <2>0, <3>1 DEF LossInv, RoundStored
  <2>2. CASE i = pos + 1
    <3>1. CASE ParsedRecord \/ ParsedCount
      BY <2>2, <3>1 DEF ParsedRecord, ParsedCount, Collected
    <3>2. CASE ParsedMeta \/ ParsedTurn
      BY <1>1, <2>2, <3>2 DEF ParsedMeta, ParsedTurn, Due, Usage
    <3>3. CASE PassedOver
      <4>1. log[pos + 1].kind = "token_count" /\ recorded
        BY <1>1, <2>2, <3>3 DEF PassedOver, Due, Usage
      <4> QED
        BY <1>0, <2>0, <2>2, <4>1, PassedCountStored
    <3> QED
      BY <3>1, <3>2, <3>3, ParseCases
  <2> QED
    BY <2>1, <2>2
<1> QED
  BY <1>4, <1>5, <1>6 DEF LossInv

(* Rows inserted or ignored: what had a row has one afterwards.            *)
LEMMA InsertFacts ==
  ASSUME CodexInv, InsertMidRound \/ InsertLast
  PROVE  /\ batch' = {} /\ rows \subseteq rows' /\ rows' \subseteq rows \cup batch
         /\ \A r \in rows \cup batch : \E s \in rows' : s.call = r.call
         /\ At' = At
         /\ UNCHANGED <<log, saved, base, pos, upto, model, session, scanned, recorded,
                        reread>>
<1>1. /\ pc \in {"flush", "insert"} /\ pc' \in {"parse", "insert", "save"}
      /\ rows' = rows \cup {r \in batch : \A old \in rows : old.at # r.at} /\ batch' = {}
      /\ UNCHANGED <<log, saved, base, pos, upto, model, session, scanned, recorded,
                     reread>>
  BY DEF InsertMidRound, InsertLast, InsertRows, state
<1>2. At' = At
  BY <1>1 DEF At
<1>3. ASSUME NEW r \in rows \cup batch PROVE \E s \in rows' : s.call = r.call
  <2>1. CASE r \in rows'
    BY <2>1
  <2>2. CASE r \notin rows'
    <3>1. PICK old \in rows : old.at = r.at
      BY <1>1, <2>2
    <3>2. old.call = r.call
      BY <3>1 DEF CodexInv, RoundInv
    <3> QED
      BY <1>1, <3>2
  <2> QED
    BY <2>1, <2>2
<1> QED
  BY <1>1, <1>2, <1>3

LEMMA RoundKeepsLoss ==
  ASSUME CodexInv, LossInv, RoundStep
  PROVE  LossInv'
<1>1. /\ Len(log) \in Nat /\ pos \in 0..upto /\ upto \in 0..Len(log)
      /\ saved \in 0..Len(log) /\ base \in 0..saved
  BY LenProperties DEF CodexInv, TypeOK, RoundInv
<1>2. CASE FirstRound
  <2>1. /\ pc = "new" /\ saved' = base' /\ saved' \in 0..Len(log) /\ pos' = pos
        /\ recorded' = recorded
    BY <1>1, <1>2 DEF FirstRound, round, state
  <2>2. pos = 0 /\ recorded = FALSE
    BY <2>1 DEF CodexInv, RoundInv, Forgotten
  <2>3. (base' + 1)..saved' = {} /\ (base' + 1)..pos' = {}
    <3>1. saved' \in Nat /\ base' \in Nat /\ saved' = base' /\ pos' = 0
      BY <1>1, <2>1, <2>2
    <3>2. \A n \in Nat : (n + 1)..n = {} /\ (n + 1)..0 = {}
      OBVIOUS
    <3> QED
      BY <3>1, <3>2
  <2> QED
    BY <2>1, <2>2, <2>3 DEF LossInv, RecordedWhy, SavedStored, RoundStored
<1>3. CASE BeginRound
  <2>1. /\ pc = "idle" /\ pc' \in {"parse", "insert"} /\ pos' = saved
        /\ UNCHANGED <<log, rows, saved, base, batch, recorded, reread>>
    BY <1>3 DEF BeginRound, state
  <2>2. At' = At
    BY <2>1 DEF At
  <2>3. \A i : Due(i)' <=> Due(i)
    BY <2>1 DEF Due, Overtaken, Misled
  <2> QED
    BY <2>1, <2>2, <2>3 DEF LossInv, RecordedWhy, SavedStored, RoundStored
<1>4. CASE InsertMidRound \/ InsertLast
  <2>1. /\ batch' = {} /\ rows \subseteq rows'
        /\ \A r \in rows \cup batch : \E s \in rows' : s.call = r.call
        /\ At' = At /\ UNCHANGED <<log, saved, base, pos, recorded, reread>>
    BY <1>4, InsertFacts
  <2>2. \A i : Due(i)' <=> Due(i)
    BY <2>1 DEF Due, Overtaken, Misled
  <2>3. RecordedWhy'
    BY <2>1 DEF LossInv, RecordedWhy
  <2>4. SavedStored'
    BY <2>1, <2>2 DEF LossInv, SavedStored
  <2>5. RoundStored'
    <3> SUFFICES ASSUME NEW i \in (base + 1)..pos, Due(i)
                 PROVE  \E s \in rows' : s.call = log[i].call
      BY <2>1, <2>2 DEF RoundStored
    <3>1. PICK r \in rows \cup batch : r.call = log[i].call
      BY DEF LossInv, RoundStored
    <3> QED
      BY <2>1, <3>1
  <2> QED
    BY <2>3, <2>4, <2>5 DEF LossInv
<1>5. CASE SaveOffset
  <2>1. /\ pc = "save" /\ pc' = "idle" /\ saved' = pos /\ pos' = 0
        /\ UNCHANGED <<log, rows, base, recorded, reread>>
    BY <1>5 DEF SaveOffset, Idle, state
  <2>2. saved <= pos /\ batch = {} /\ At' = At
    BY <2>1 DEF CodexInv, RoundInv, At
  <2>3. \A i : Due(i)' <=> Due(i)
    BY <2>1 DEF Due, Overtaken, Misled
  <2>4. SavedStored'
    BY <2>1, <2>2, <2>3 DEF LossInv, SavedStored, RoundStored
  <2>5. RoundStored'
    <3>1. (base' + 1)..pos' = {}
      BY <1>1, <2>1
    <3> QED
      BY <3>1 DEF RoundStored
  <2>6. RecordedWhy'
    BY <2>1, <2>2 DEF LossInv, RecordedWhy
  <2> QED
    BY <2>4, <2>5, <2>6 DEF LossInv
<1>6. CASE RoundFailed
  <2>1. /\ pc \in {"flush", "insert", "save"} /\ pc' = "idle" /\ pos' = 0
        /\ reread' = reread \cup ((saved + 1)..pos)
        /\ UNCHANGED <<log, rows, saved, base, recorded>>
    BY <1>6 DEF RoundFailed, Idle, state
  <2>2. \A i : Due(i)' => Due(i)
    BY <2>1 DEF Due, Overtaken, Misled
  <2>3. SavedStored'
    BY <2>1, <2>2 DEF LossInv, SavedStored
  <2>4. RoundStored'
    <3>1. (base' + 1)..pos' = {}
      BY <1>1, <2>1
    <3> QED
      BY <3>1 DEF RoundStored
  <2>5. RecordedWhy'
    <3> SUFFICES ASSUME recorded PROVE RecordedWhy'
      BY <2>1 DEF RecordedWhy
    <3>1. PICK q \in 1..Len(log) :
            log[q].kind \in {"token_usage_record", "quote"} /\ (q <= At \/ q \in reread)
      BY DEF LossInv, RecordedWhy
    <3>2. q <= At => q <= At' \/ q \in reread'
      <4>1. At = pos /\ At' = saved
        BY <2>1 DEF At
      <4> QED
        BY <1>1, <2>1, <4>1
    <3> QED
      BY <2>1, <3>1, <3>2 DEF RecordedWhy
  <2> QED
    BY <2>3, <2>4, <2>5 DEF LossInv
<1>7. CASE Restart
  <2>1. /\ pos' = 0 /\ recorded' = FALSE
        /\ UNCHANGED <<log, rows, saved, base, reread>>
    BY <1>7 DEF Restart, Idle, Forgotten
  <2>2. \A i : Due(i)' <=> Due(i)
    BY <2>1 DEF Due, Overtaken, Misled
  <2>3. (base' + 1)..pos' = {}
    BY <1>1, <2>1
  <2> QED
    BY <2>1, <2>2, <2>3 DEF LossInv, RecordedWhy, SavedStored, RoundStored
<1> QED
  BY <1>2, <1>3, <1>4, <1>5, <1>6, <1>7 DEF RoundStep

(* Every inference the watermark has passed has a row, whatever fails and  *)
(* however often the collector restarts, unless the file was history by    *)
(* then, or its count met a record that the parser knew of from a failed   *)
(* round, or a quotation of it (codex.rs:131-140, 212-216).                *)
THEOREM NoneLostHolds == Spec => []NoneLost
<1>1. Init => LossInv
  <2> SUFFICES ASSUME Init PROVE LossInv
    OBVIOUS
  <2>1. (base + 1)..saved = {} /\ (base + 1)..pos = {} /\ recorded = FALSE
    BY DEF Init, Idle, Forgotten
  <2> QED
    BY <2>1 DEF LossInv, RecordedWhy, SavedStored, RoundStored
<1>2. CodexInv /\ LossInv /\ [Next]_vars => LossInv'
  <2> SUFFICES ASSUME CodexInv, LossInv, [Next]_vars PROVE LossInv'
    OBVIOUS
  <2>1. CASE UNCHANGED vars
    BY <2>1
    DEF vars, round, state, LossInv, RecordedWhy, SavedStored, RoundStored, At, Due,
        Overtaken, Misled
  <2> QED
    BY <2>1, StepCases, WriteKeepsLoss, ParseKeepsLoss, RoundKeepsLoss
<1>3. LossInv => NoneLost
  BY DEF LossInv, SavedStored, NoneLost, Due
<1> QED
  BY <1>1, <1>2, <1>3, CodexInvariant, PTL DEF Spec

-----------------------------------------------------------------------------
LEMMA WriteKeepsHead ==
  ASSUME CodexInv, AttrInv, CountInv, WriteStep
  PROVE  AttrInv' /\ CountInv'
<1> USE CodexAssumption
<1>0. PICK line \in Lines : Fits(line) /\ Write(line)
  BY DEF WriteStep
<1>1. /\ Len(log) \in Nat /\ Len(log') = Len(log) + 1
      /\ \A i \in 1..Len(log) : log'[i] = log[i]
      /\ UNCHANGED <<rows, saved, base, pc, pos, upto, batch, model, session,
                     scanned, recorded, reread>>
  BY <1>0, Appended DEF CodexInv
<1>2. /\ At' = At /\ At \in 0..Len(log) /\ reread \subseteq 1..Len(log)
      /\ scanned \in 0..Len(log)
      /\ \A r \in rows \cup batch : r.at \in 1..Len(log) /\ r.scan \in Nat
  BY <1>1 DEF CodexInv, TypeOK, At, RoundInv, Row
<1>3. \A n \in 0..Len(log) : LatestModel(n)' = LatestModel(n)
  BY <1>1, LatestModelPrefix
<1>4. \A j \in reread : log'[j] = log[j]
  BY <1>1, <1>2
<1>5. \A i \in 1..Len(log) : 1..i \subseteq 1..Len(log)
  BY <1>1
<1>6. ASSUME NEW scan \in Nat, HeadLines < scan, scan <= Len(log), NEW n \in 0..Len(log)
      PROVE  /\ LatestModel(HeadLines)' = LatestModel(HeadLines)
             /\ \A i \in (scan + 1)..n : log'[i] = log[i]
  <2>1. HeadLines \in 0..Len(log)
    BY <1>1, <1>6
  <2>2. \A i \in (scan + 1)..n : i \in 1..Len(log)
    BY <1>1, <1>6
  <2> QED
    BY <1>1, <1>3, <2>1, <2>2
<1>7. OfHeadOnly(At) => OfHeadOnly(At)'
  <2> SUFFICES ASSUME OfHeadOnly(At) PROVE OfHeadOnly(At)'
    OBVIOUS
  <2>1. scanned \in Nat /\ HeadLines < scanned /\ scanned <= Len(log)
    BY <1>1, <1>2 DEF OfHeadOnly
  <2>2. /\ LatestModel(HeadLines)' = LatestModel(HeadLines)
        /\ \A i \in (scanned + 1)..At : log'[i] = log[i]
    BY <1>2, <1>6, <2>1
  <2> QED
    BY <1>1, <1>2, <2>1, <2>2 DEF OfHeadOnly
<1>8. ModelInv'
  BY <1>1, <1>2, <1>3, <1>4, <1>7 DEF AttrInv, ModelInv
<1>9. ASSUME NEW r \in rows \cup batch PROVE RowAttributed(r)'
  <2>1. LatestModel(r.at)' = LatestModel(r.at)
    BY <1>1, <1>2, <1>3
  <2>2. Overtaken(r.at, "turn_context") => Overtaken(r.at, "turn_context")'
    BY <1>1, <1>4 DEF Overtaken
  <2>3. HeadOnly(r) /\ r.scan <= Len(log) => HeadOnly(r)' /\ r.scan <= Len(log')
    <3> SUFFICES ASSUME HeadOnly(r), r.scan <= Len(log)
                 PROVE  HeadOnly(r)' /\ r.scan <= Len(log')
      OBVIOUS
    <3>1. r.scan \in Nat /\ HeadLines < r.scan /\ r.at \in 0..Len(log)
      BY <1>1, <1>2 DEF HeadOnly
    <3>2. /\ LatestModel(HeadLines)' = LatestModel(HeadLines)
          /\ \A i \in (r.scan + 1)..r.at : log'[i] = log[i]
      BY <1>6, <3>1
    <3> QED
      BY <1>1, <3>1, <3>2 DEF HeadOnly
  <2> QED
    BY <2>1, <2>2, <2>3 DEF AttrInv, RowAttributed
<1>10. RecordsKnown'
  <2>1. 1..At \subseteq 1..Len(log)
    BY <1>1, <1>2
  <2> QED
    BY <1>1, <1>2, <2>1 DEF CountInv, RecordsKnown, OutOfSight
<1>11. CountsFirst'
  <2> SUFFICES ASSUME NEW r \in rows \cup batch, log'[r.at].kind = "token_count",
                      ~r.blind, r.scan # r.at - 1
               PROVE  \A i \in 1..r.at : log'[i].kind = "token_usage_record"
                                         => OutOfSight(i, r.scan)
    BY <1>1 DEF CountsFirst, OutOfSight
  <2>1. log'[r.at] = log[r.at] /\ \A i \in 1..r.at : log'[i] = log[i]
    BY <1>1, <1>2, <1>5
  <2> QED
    BY <2>1 DEF CountInv, CountsFirst
<1> QED
  BY <1>1, <1>8, <1>9, <1>10, <1>11 DEF AttrInv, CountInv

(* What the head scan tells, when there is no turn between the head and    *)
(* the line, or at all: the latest model, or that of the head.             *)
LEMMA HeadTells ==
  ASSUME NEW n \in Nat, n = pos + 1, CodexInv, pc = "parse", HeadEnd \in 1..pos, scanned' = pos, log' = log,
         log[n].kind \in Usage,
         model' = IF LatestModel(HeadEnd) # NoModel THEN LatestModel(HeadEnd) ELSE model,
         \/ model = NoModel \/ model = LatestModel(pos)
  PROVE  model' = LatestModel(n) \/ OfHeadOnly(n)'
<1> USE CodexAssumption
<1>1. Len(log) \in Nat /\ pos \in Nat /\ n = pos + 1 /\ n <= Len(log) /\ HeadLines \in Nat
  BY ParseTypes
<1>2. LatestModel(n) = LatestModel(pos)
  <2>1. pos <= n /\ (pos + 1)..n = {n} /\ n \in Nat
    BY <1>1
  <2>2. n \notin Turns(n)
    BY DEF Turns, Usage
  <2> QED
    BY <1>1, <2>1, <2>2, LatestModelKept
<1>3. \A k : LatestModel(k)' = LatestModel(k)
  BY DEF LatestModel
<1>4. CASE model' = LatestModel(HeadEnd)
  <2>1. CASE HeadEnd = pos
    BY <1>2, <1>4, <2>1
  <2>2. CASE HeadEnd # pos
    <3>1. HeadEnd = HeadLines /\ HeadLines < pos
      BY <1>1, <2>2 DEF HeadEnd
    <3>2. \A i \in (pos + 1)..n : log[i].kind # "turn_context"
      <4>1. (pos + 1)..n = {n}
        BY <1>1
      <4> QED
        BY <4>1 DEF Usage
    <3> QED
      BY <1>1, <1>3, <1>4, <3>1, <3>2 DEF OfHeadOnly
  <2> QED
    BY <2>1, <2>2
<1>5. CASE model' # LatestModel(HeadEnd)
  BY <1>2, <1>5
<1> QED
  BY <1>4, <1>5

(* The parser goes over one line: what it knows of the models of the lines *)
(* behind it.                                                              *)
LEMMA ParseKeepsModel ==
  ASSUME CodexInv, AttrInv, ParseLine
  PROVE  AttrInv'
<1> USE CodexAssumption
<1>0. pc = "parse"
  BY DEF ParseLine
<1> SUFFICES ASSUME NEW i \in Nat, i = pos + 1
             PROVE  AttrInv'
  BY <1>0, ParseTypes
<1>1. /\ Len(log) \in Nat /\ pos \in Nat /\ i \in Nat \ {0} /\ i \in 1..Len(log)
      /\ i <= MaxLine /\ log[i] \in Lines /\ reread \subseteq 1..Len(log)
      /\ scanned \in 0..Len(log) /\ HeadLines \in Nat /\ i = pos + 1
  BY <1>0, ParseTypes DEF CodexInv, TypeOK
<1>2. /\ pos' = i /\ At = pos /\ At' = i
      /\ UNCHANGED <<log, rows, saved, base, upto, reread>>
  BY <1>0, ParseCases DEF At
<1>3. \A n : LatestModel(n)' = LatestModel(n)
  BY <1>2 DEF LatestModel
<1>5. i \notin Turns(i) => LatestModel(i) = LatestModel(pos)
  <2>1. pos <= i /\ (pos + 1)..i = {i}
    BY <1>1
  <2> QED
    BY <1>1, <2>1, LatestModelKept
<1>6. i \in Turns(i) => LatestModel(i) = log[i].model
  BY <1>1, LatestModelAtTurn
<1>7. i \in Turns(i) <=> log[i].kind = "turn_context" /\ log[i].model # NoModel
  BY <1>1 DEF Turns
<1>8. \/ model = LatestModel(pos)
      \/ model = NoModel /\ scanned = 0
      \/ \E j \in reread : j > pos /\ log[j].kind = "turn_context" /\ log[j].model # NoModel
      \/ OfHeadOnly(pos)
  BY <1>2 DEF AttrInv, ModelInv
<1> DEFINE Ahead == \E j \in reread : j > i /\ log[j].kind = "turn_context"
                                      /\ log[j].model # NoModel
           Blank == model' = NoModel /\ scanned' = 0
           Good == model' = LatestModel(i) \/ Ahead \/ OfHeadOnly(i)'
<1>9. i \notin Turns(i) =>
        \/ model = LatestModel(i) \/ (model = NoModel /\ scanned = 0) \/ Ahead
        \/ OfHeadOnly(i)
  <2> SUFFICES ASSUME i \notin Turns(i)
               PROVE  \/ model = LatestModel(i) \/ (model = NoModel /\ scanned = 0) \/ Ahead
                      \/ OfHeadOnly(i)
    OBVIOUS
  <2>1. ASSUME NEW j \in reread, j > pos, log[j].kind = "turn_context",
               log[j].model # NoModel
        PROVE  Ahead
    <3>1. j # i /\ j \in Nat
      BY <1>1, <1>7, <2>1
    <3> QED
      BY <1>1, <2>1, <3>1
  <2>2. OfHeadOnly(pos) => OfHeadOnly(i)
    <3>1. \A k \in (scanned + 1)..i : k \in (scanned + 1)..pos \/ k = i
      BY <1>1
    <3> QED
      BY <1>7, <3>1 DEF OfHeadOnly
  <2> QED
    BY <1>5, <1>8, <2>1, <2>2
<1>10. UNCHANGED <<model, scanned>> => OfHeadOnly(i)' = OfHeadOnly(i)
  BY <1>2, <1>3 DEF OfHeadOnly
<1>11. CASE ParsedTurn /\ log[i].model # NoModel
  <2>1. Good /\ rows' \cup batch' = rows \cup batch
    BY <1>2, <1>6, <1>7, <1>11 DEF ParsedTurn
  <2>2. ModelInv'
    BY <1>2, <1>3, <2>1 DEF ModelInv
  <2>3. \A r \in rows \cup batch : RowAttributed(r)'
    BY <1>2, <1>3 DEF AttrInv, RowAttributed, Overtaken, HeadOnly
  <2> QED
    BY <2>1, <2>2, <2>3 DEF AttrInv
<1>12. CASE /\ ParsedMeta \/ PassedOver \/ ParsedTurn
            /\ ~(ParsedTurn /\ log[i].model # NoModel)
  <2>1. UNCHANGED <<model, scanned, batch>> /\ i \notin Turns(i)
    <3>1. CASE ParsedTurn
      BY <1>7, <1>12, <3>1 DEF ParsedTurn
    <3>2. CASE ParsedMeta \/ PassedOver
      BY <1>7, <3>2 DEF ParsedMeta, PassedOver
    <3> QED
      BY <1>12, <3>1, <3>2
  <2>2. ModelInv'
    BY <1>2, <1>3, <1>9, <1>10, <2>1 DEF ModelInv
  <2>3. \A r \in rows \cup batch : RowAttributed(r)'
    BY <1>2, <1>3 DEF AttrInv, RowAttributed, Overtaken, HeadOnly
  <2> QED
    BY <1>2, <2>1, <2>2, <2>3 DEF AttrInv
<1>13. ASSUME NEW record \in BOOLEAN, Collected(record), log[i].kind \in Usage
       PROVE  AttrInv'
  <2>1. PICK r \in Row :
          /\ batch' = batch \cup {r}
          /\ r.at = i /\ r.call = log[i].call
          /\ r.model = model' /\ r.session = session' /\ r.scan = scanned'
          /\ \/ HeadScanned(record) /\ r.blind = FALSE
             \/ HeadUnread(record) /\ r.blind = TRUE
             \/ NotScanned(record) /\ r.blind = FALSE
    BY <1>13 DEF Collected
  <2>2. i \notin Turns(i)
    BY <1>7, <1>13 DEF Usage
  <2>3. Good \/ (Blank /\ HeadUnread(record) /\ r.blind)
    <3>1. CASE HeadScanned(record)
      <4>1. /\ HeadEnd \in 1..pos /\ scanned = 0 /\ scanned' = pos
            /\ model' = IF LatestModel(HeadEnd) # NoModel THEN LatestModel(HeadEnd)
                        ELSE model
        BY <1>13, <3>1 DEF Collected, HeadScanned
      <4>2. CASE model = NoModel \/ model = LatestModel(pos)
        BY <1>0, <1>2, <1>13, <4>1, <4>2, HeadTells
      <4>3. CASE Ahead
        BY <4>3
      <4>4. ~OfHeadOnly(i)
        BY <1>1, <4>1 DEF OfHeadOnly
      <4> QED
        BY <1>5, <1>9, <2>2, <4>2, <4>3, <4>4
    <3>2. CASE HeadUnread(record) /\ r.blind = TRUE
      <4>1. UNCHANGED <<model, scanned>>
        BY <3>2 DEF HeadUnread
      <4> QED
        BY <1>9, <1>10, <2>2, <3>2, <4>1
    <3>3. CASE NotScanned(record)
      <4>1. UNCHANGED <<model, scanned>> /\ ~(model = NoModel /\ scanned = 0)
        BY <3>3 DEF NotScanned
      <4> QED
        BY <1>9, <1>10, <2>2, <4>1
    <3> QED
      BY <2>1, <3>1, <3>2, <3>3
  <2>4. ModelInv'
    BY <1>2, <1>3, <2>3 DEF ModelInv
  <2>5. RowAttributed(r)'
    <3>1. r.session \/ r.blind
      <4>1. HeadScanned(record) \/ NotScanned(record) => session' = TRUE
        BY DEF HeadScanned, NotScanned
      <4> QED
        BY <2>1, <4>1
    <3>2. Ahead => Overtaken(r.at, "turn_context")'
      BY <1>2, <2>1 DEF Overtaken
    <3>3. OfHeadOnly(i)' => HeadOnly(r)' /\ r.scan <= Len(log')
      BY <1>2, <2>1 DEF OfHeadOnly, HeadOnly
    <3> QED
      BY <1>3, <2>1, <2>3, <3>1, <3>2, <3>3 DEF RowAttributed
  <2>6. \A q \in rows \cup batch : RowAttributed(q)'
    BY <1>2, <1>3 DEF AttrInv, RowAttributed, Overtaken, HeadOnly
  <2> QED
    BY <1>2, <2>1, <2>4, <2>5, <2>6 DEF AttrInv
<1> QED
  BY <1>11, <1>12, <1>13, ParseCases DEF ParsedRecord, ParsedCount, Usage

(* ... and of the records among them.                                      *)
LEMMA ParseKeepsCount ==
  ASSUME CodexInv, CountInv, ParseLine
  PROVE  CountInv'
<1> USE CodexAssumption
<1> DEFINE i == pos + 1
<1>0. pc = "parse"
  BY DEF ParseLine
<1>1. /\ Len(log) \in Nat /\ pos \in Nat /\ i \in Nat \ {0} /\ i \in 1..Len(log)
      /\ \A k \in 1..Len(log) : log[k].kind = "session_meta" <=> k = 1
      /\ scanned \in 0..Len(log) /\ HeadLines \in Nat
  BY <1>0, ParseTypes DEF CodexInv, LogInv, LogShape, TypeOK
<1>2. /\ pos' = i /\ At = pos /\ At' = i
      /\ UNCHANGED <<log, rows, saved, base, upto, reread>>
  BY <1>0, ParseCases DEF At
<1>3. 1..i = (1..pos) \cup {i}
  BY <1>1
<1> DEFINE Sees(scan) == \A k \in 1..pos : log[k].kind = "token_usage_record"
                                           => OutOfSight(k, scan)
<1>4. (session \/ scanned # 0) /\ ~recorded => Sees(scanned)
  BY <1>2 DEF CountInv, RecordsKnown
<1>5. HeadEnd \in 1..pos /\ ~Quoted => Sees(pos)
  <2> SUFFICES ASSUME HeadEnd \in 1..pos, ~Quoted, NEW k \in 1..pos,
                      log[k].kind = "token_usage_record"
               PROVE  OutOfSight(k, pos)
    OBVIOUS
  <2>1. k \notin 1..HeadEnd
    BY DEF Quoted
  <2>2. HeadLines < k
    BY <1>1, <2>1 DEF HeadEnd
  <2> QED
    BY <1>1, <2>2 DEF OutOfSight
<1>6. ASSUME \A r \in batch' \ batch : log[r.at].kind = "token_count" /\ ~r.blind
               /\ r.scan # r.at - 1 => \A k \in 1..r.at :
                    log[k].kind = "token_usage_record" => OutOfSight(k, r.scan)
      PROVE  CountsFirst'
  BY <1>2, <1>6 DEF CountInv, CountsFirst, OutOfSight
<1>7. CASE ParsedMeta
  <2>1. pos = 0 /\ 1..i = {i} /\ log[i].kind # "token_usage_record"
    BY <1>1, <1>7 DEF ParsedMeta
  <2>2. RecordsKnown'
    BY <1>2, <2>1 DEF RecordsKnown
  <2> QED
    BY <1>6, <1>7, <2>2 DEF ParsedMeta, CountInv
<1>8. CASE ParsedTurn \/ PassedOver
  <2>1. log[i].kind # "token_usage_record"
        /\ UNCHANGED <<session, scanned, recorded, batch>>
    BY <1>8 DEF ParsedTurn, PassedOver
  <2>2. RecordsKnown'
    BY <1>2, <1>3, <1>4, <2>1 DEF RecordsKnown, OutOfSight
  <2> QED
    BY <1>6, <2>1, <2>2 DEF CountInv
<1>9. CASE ParsedRecord
  <2>1. recorded'
    BY <1>9 DEF ParsedRecord, Collected, HeadScanned, HeadUnread, NotScanned
  <2>2. \A r \in batch' \ batch : log[r.at].kind = "token_usage_record"
    BY <1>9 DEF ParsedRecord, Collected
  <2>3. CountsFirst'
    BY <1>6, <2>2
  <2> QED
    BY <2>1, <2>3 DEF CountInv, RecordsKnown
<1>10. CASE ParsedCount
  <2>1. PICK r \in Row :
          /\ batch' = batch \cup {r}
          /\ r.at = i /\ r.scan = scanned'
          /\ \/ HeadScanned(FALSE) /\ r.blind = FALSE
             \/ HeadUnread(FALSE) /\ r.blind = TRUE
             \/ NotScanned(FALSE) /\ r.blind = FALSE
    BY <1>10 DEF ParsedCount, Collected
  <2>2. HeadEnd \in 1..pos /\ ~recorded /\ log[i].kind = "token_count"
    BY <1>10 DEF ParsedCount, Collected
  <2>3. (session' \/ scanned' # 0) /\ ~recorded' => Sees(scanned')
    <3>1. CASE HeadScanned(FALSE)
      BY <1>5, <2>2, <3>1 DEF HeadScanned
    <3>2. CASE HeadUnread(FALSE)
      BY <1>4, <2>2, <3>2 DEF HeadUnread
    <3>3. CASE NotScanned(FALSE)
      BY <1>4, <2>2, <3>3 DEF NotScanned
    <3> QED
      BY <2>1, <3>1, <3>2, <3>3
  <2>4. RecordsKnown'
    BY <1>2, <1>3, <2>2, <2>3 DEF RecordsKnown, OutOfSight
  <2>5. ~r.blind /\ r.scan # r.at - 1 => \A k \in 1..r.at :
          log[k].kind = "token_usage_record" => OutOfSight(k, r.scan)
    <3> SUFFICES ASSUME ~r.blind, r.scan # r.at - 1
                 PROVE  Sees(scanned')
      BY <1>3, <2>1, <2>2
    <3>1. CASE HeadScanned(FALSE)
      <4>1. r.scan = r.at - 1
        BY <1>1, <2>1, <3>1 DEF HeadScanned
      <4> QED
        BY <4>1
    <3>2. CASE NotScanned(FALSE)
      BY <1>4, <2>2, <3>2 DEF NotScanned
    <3> QED
      BY <2>1, <3>1, <3>2
  <2>6. CountsFirst'
    BY <1>6, <2>1, <2>5
  <2> QED
    BY <2>4, <2>6 DEF CountInv
<1> QED
  BY <1>7, <1>8, <1>9, <1>10, ParseCases

LEMMA RoundKeepsHead ==
  ASSUME CodexInv, AttrInv, CountInv, RoundStep
  PROVE  AttrInv' /\ CountInv'
<1>1. /\ Len(log) \in Nat /\ pos \in 0..upto /\ upto \in 0..Len(log)
      /\ saved \in 0..Len(log) /\ base \in 0..saved /\ scanned \in 0..Len(log)
  BY LenProperties DEF CodexInv, TypeOK, RoundInv
<1>2. log' = log
  BY DEF RoundStep, FirstRound, BeginRound, InsertMidRound, InsertLast, InsertRows,
         SaveOffset, RoundFailed, Restart
<1>3. \A n : LatestModel(n)' = LatestModel(n)
  BY <1>2 DEF LatestModel
<1>4. ASSUME rows' \cup batch' \subseteq rows \cup batch, reread \subseteq reread'
      PROVE  (\A r \in rows \cup batch : RowAttributed(r))' /\ CountsFirst'
  <2>1. \A r \in rows \cup batch : RowAttributed(r)'
    BY <1>2, <1>3, <1>4 DEF AttrInv, RowAttributed, Overtaken, HeadOnly
  <2> QED
    BY <1>2, <1>4, <2>1 DEF CountInv, CountsFirst, OutOfSight
<1>5. CASE FirstRound
  <2>1. /\ pc = "new"
        /\ UNCHANGED <<rows, batch, model, session, scanned, reread>>
    BY <1>5 DEF FirstRound, round, state
  <2>2. model = NoModel /\ scanned = 0 /\ session = FALSE
    BY <2>1 DEF CodexInv, RoundInv, Forgotten
  <2> QED
    BY <1>4, <2>1, <2>2 DEF AttrInv, ModelInv, CountInv, RecordsKnown
<1>6. CASE BeginRound \/ InsertMidRound \/ InsertLast \/ SaveOffset
  <2>1. /\ rows' \cup batch' \subseteq rows \cup batch
        /\ UNCHANGED <<model, session, scanned, recorded, reread>>
    BY <1>6, InsertFacts DEF BeginRound, SaveOffset, Idle, state
  <2>2. At' = At
    <3>1. BeginRound => At' = At
      BY DEF BeginRound, At
    <3>2. SaveOffset => At' = At
      BY DEF SaveOffset, At
    <3> QED
      BY <1>6, <3>1, <3>2, InsertFacts
  <2>3. ModelInv'
    BY <1>2, <1>3, <2>1, <2>2 DEF AttrInv, ModelInv, OfHeadOnly
  <2>4. RecordsKnown'
    BY <1>2, <2>1, <2>2 DEF CountInv, RecordsKnown, OutOfSight
  <2> QED
    BY <1>4, <2>1, <2>3, <2>4 DEF AttrInv, CountInv
<1>7. CASE RoundFailed
  <2>1. /\ pc \in {"flush", "insert", "save"} /\ pc' = "idle" /\ pos' = 0
        /\ batch' = {} /\ reread' = reread \cup ((saved + 1)..pos)
        /\ UNCHANGED <<log, rows, saved, base, model, session, scanned, recorded>>
    BY <1>7 DEF RoundFailed, Idle, state
  <2>2. At = pos /\ At' = saved /\ saved <= pos /\ pos \in Nat /\ saved \in Nat
    BY <1>1, <2>1 DEF At, CodexInv, RoundInv
  <2>3. ModelInv'
    <3>1. CASE \E j \in reread : j > At /\ log[j].kind = "turn_context"
                                 /\ log[j].model # NoModel
      <4>1. PICK j \in reread : j > At /\ log[j].kind = "turn_context"
                                /\ log[j].model # NoModel
        BY <3>1
      <4>2. j > saved
        <5>1. j \in Nat
          BY DEF CodexInv, TypeOK
        <5> QED
          BY <2>2, <4>1, <5>1
      <4> QED
        BY <1>2, <2>1, <2>2, <4>1, <4>2 DEF ModelInv
    <3>2. CASE model = LatestModel(pos)
      <4>1. CASE \E j \in (saved + 1)..pos : j \in Turns(pos)
        <5>1. PICK j \in (saved + 1)..pos : j \in Turns(pos)
          BY <4>1
        <5>2. j \in reread' /\ j > saved /\ log[j].kind = "turn_context"
              /\ log[j].model # NoModel
          BY <2>1, <2>2, <5>1 DEF Turns
        <5> QED
          BY <1>2, <2>1, <2>2, <5>2 DEF ModelInv
      <4>2. CASE ~\E j \in (saved + 1)..pos : j \in Turns(pos)
        <5>1. LatestModel(pos) = LatestModel(saved)
          BY <2>2, <4>2, LatestModelKept
        <5> QED
          BY <1>3, <2>1, <2>2, <3>2, <5>1 DEF ModelInv
      <4> QED
        BY <4>1, <4>2
    <3>3. CASE model = NoModel /\ scanned = 0
      BY <2>1, <3>3 DEF ModelInv
    <3>4. CASE OfHeadOnly(pos)
      <4> SUFFICES ASSUME NEW n \in Nat, n = saved
                   PROVE  ModelInv'
        BY <2>2
      <4>1. \A i \in (scanned + 1)..n : i \in (scanned + 1)..pos
        BY <1>1, <2>2
      <4>2. OfHeadOnly(n)'
        BY <1>3, <2>1, <3>4, <4>1 DEF OfHeadOnly
      <4> QED
        BY <2>2, <4>2 DEF ModelInv
    <3> QED
      BY <2>2, <3>1, <3>2, <3>3, <3>4 DEF AttrInv, ModelInv
  <2>4. RecordsKnown'
    <3>1. 1..At' \subseteq 1..At
      BY <2>2
    <3> QED
      BY <2>1, <3>1 DEF CountInv, RecordsKnown, OutOfSight
  <2> QED
    BY <1>4, <2>1, <2>3, <2>4 DEF AttrInv, CountInv
<1>8. CASE Restart
  <2>1. /\ batch' = {} /\ model' = NoModel /\ scanned' = 0 /\ session' = FALSE
        /\ UNCHANGED <<rows, reread>>
    BY <1>8 DEF Restart, Idle, Forgotten
  <2> QED
    BY <1>4, <2>1 DEF AttrInv, ModelInv, CountInv, RecordsKnown
<1> QED
  BY <1>5, <1>6, <1>7, <1>8 DEF RoundStep

LEMMA HeadInvariant == Spec => [](CodexInv /\ AttrInv /\ CountInv)
<1>1. Init => AttrInv /\ CountInv
  <2> SUFFICES ASSUME Init PROVE AttrInv /\ CountInv
    OBVIOUS
  <2>1. rows \cup batch = {} /\ model = NoModel /\ scanned = 0 /\ session = FALSE
    BY DEF Init, Idle, Forgotten
  <2> QED
    BY <2>1 DEF AttrInv, ModelInv, CountInv, RecordsKnown, CountsFirst
<1>2. CodexInv /\ (AttrInv /\ CountInv) /\ [Next]_vars => (AttrInv /\ CountInv)'
  <2> SUFFICES ASSUME CodexInv, AttrInv, CountInv, [Next]_vars
               PROVE  AttrInv' /\ CountInv'
    OBVIOUS
  <2>1. CASE UNCHANGED vars
    <3>1. \A n : LatestModel(n)' = LatestModel(n)
      BY <2>1 DEF LatestModel, vars
    <3>2. ModelInv'
      BY <2>1, <3>1 DEF vars, round, state, AttrInv, ModelInv, OfHeadOnly, At
    <3>3. \A r \in rows \cup batch : RowAttributed(r)'
      BY <2>1, <3>1 DEF vars, AttrInv, RowAttributed, Overtaken, HeadOnly
    <3>4. CountInv'
      BY <2>1 DEF vars, round, state, CountInv, RecordsKnown, CountsFirst, OutOfSight, At
    <3> QED
      BY <2>1, <3>2, <3>3, <3>4 DEF vars, round, AttrInv
  <2> QED
    BY <2>1, StepCases, WriteKeepsHead, ParseKeepsModel, ParseKeepsCount, RoundKeepsHead
<1> QED
  BY <1>1, <1>2, CodexInvariant, PTL DEF Spec

(* Every row belongs to the session of its file and carries the model of   *)
(* the turn_context before its line, after any restart, unless a later     *)
(* turn_context was read by a round that failed, or the turn lies beyond   *)
(* the head that is scanned, or the head could not be read (codex.rs:30-32,*)
(* 80-111).                                                                *)
THEOREM AttributedHolds == Spec => []Attributed
<1>1. AttrInv => Attributed
  BY DEF AttrInv, RowAttributed, Attributed
<1> QED
  BY <1>1, HeadInvariant, PTL

(* An inference has two rows only if the second is of its token_count, and *)
(* had the head scanned, or could not, or the record lies between the head *)
(* and the row that had it scanned (codex.rs:89-111, 131-140, 212-216).    *)
THEOREM CountedOnceHolds == Spec => []CountedOnce
<1>1. CodexInv /\ CountInv => CountedOnce
  <2> SUFFICES ASSUME CodexInv, CountInv, NEW r1 \in rows, NEW r2 \in rows,
                      r1.call = r2.call, r1.at < r2.at
               PROVE  \/ r2.blind \/ r2.scan = r2.at - 1
                      \/ HeadLines < r1.at /\ r1.at <= r2.scan
    BY DEF CountedOnce
  <2>1. /\ r1.at \in 1..Len(log) /\ r2.at \in 1..Len(log)
        /\ r1.call = log[r1.at].call /\ r2.call = log[r2.at].call /\ r1.call # 0
        /\ Len(log) \in Nat
    BY LenProperties DEF CodexInv, TypeOK, RoundInv, Row
  <2>2. log[r1.at].kind = "token_usage_record" /\ log[r2.at].kind = "token_count"
    BY <2>1 DEF CodexInv, LogInv, ReportedInOrder
  <2>3. r1.at \in 1..r2.at
    BY <2>1
  <2> QED
    BY ONLY <2>2, <2>3, CountInv, r1 \in rows, r2 \in rows, r1.at < r2.at
    DEF CountInv, CountsFirst, OutOfSight
<1> QED
  BY <1>1, HeadInvariant, PTL

-----------------------------------------------------------------------------
(* The grok source.                                                        *)

(* Grok's log.  The place of the collector is in the current log, or beyond*)
(* its end in one that has been rotated away.                              *)
InLog(p) ==
  /\ p.log <= opened
  /\ p.log = opened => p.line <= LogLength
  /\ p.log # opened => LogLength < p.line

PlacesInv ==
  /\ InLog(watermark)
  /\ InRound =>
       /\ InLog(place)
       /\ watermark.log = opened => place.log = opened /\ watermark.line <= place.line

(* The configuration is the one last read, or is newer, unless the last    *)
(* look at it failed; a round knows a default that it may report.          *)
ConfigInv ==
  /\ config.mtime = 0 => config = NoConfig
  /\ fallback.mtime <= config.mtime
  /\ {Unnamed, config.model, fallback.model} \subseteq offered
  /\ step # "config" =>
       /\ ~unread /\ fallback.mtime = config.mtime => fallback.model = config.model
       /\ InRound => fallback.model \in defaults

(* The memory, when the parser has n lines behind it: the last change of   *)
(* each session among them, or one that a failed round had reached.        *)
Known(s, n) == IF ChangesOf(s, since, n) = {} THEN Unnamed
               ELSE written[Max(ChangesOf(s, since, n))].model
KnowsUpTo(n) ==
  /\ since <= n /\ n <= fed
  /\ \A s \in Session : \/ sidModels[s] = Known(s, n)
                        \/ \E i \in ChangesOf(s, n, fed) : written[i].model = sidModels[s]

MemoryInv ==
  /\ step = "new" => sidModels = Empty
  /\ watermark.log = opened => since <= opened + watermark.line
  /\ ~InRound /\ watermark.log = opened =>
       \A n \in {opened + watermark.line} : KnowsUpTo(n)
  /\ InRound /\ place.log = opened => \A n \in {opened + place.line} : KnowsUpTo(n)

RowsExplained ==
  \A r \in requests \cup pending :
    r.line <= Len(written) /\ r.fed <= Len(written) /\ Explained(r)

GrokInv == GrokTypeOK /\ PlacesInv /\ ConfigInv /\ MemoryInv /\ RowsExplained

(* The log is only appended to, so its changes stay.                       *)
LEMMA ChangesStay ==
  ASSUME written \in Seq(Entry), NEW line \in Entry, written' = Append(written, line),
         NEW s, NEW a \in Nat, NEW b \in Nat, b <= Len(written)
  PROVE  /\ ChangesOf(s, a, b)' = ChangesOf(s, a, b)
         /\ \A i \in ChangesOf(s, a, b) : written'[i] = written[i]
<1>1. \A i \in (a + 1)..b : i \in 1..Len(written)
  BY LenProperties
<1>2. \A i \in (a + 1)..b : written'[i] = written[i]
  BY <1>1, AppendProperties
<1> QED
  BY <1>2 DEF ChangesOf, ChangedAt

LEMMA ChangesBounded ==
  ASSUME GrokTypeOK, NEW s \in Session, NEW a \in Nat, NEW b \in Nat, b <= Len(written)
  PROVE  /\ ChangesOf(s, a, b) \in SUBSET (1..b)
         /\ \A i \in ChangesOf(s, a, b) : written[i].model \in GrokModel
         /\ ChangesOf(s, a, b) # {} =>
              /\ Max(ChangesOf(s, a, b)) \in ChangesOf(s, a, b)
              /\ \A i \in ChangesOf(s, a, b) : i <= Max(ChangesOf(s, a, b))
<1>0. \A i \in (a + 1)..b : i \in 1..b
  OBVIOUS
<1>1. ChangesOf(s, a, b) \in SUBSET (1..b)
  BY <1>0 DEF ChangesOf, ChangedAt
<1>2. \A i \in ChangesOf(s, a, b) : written[i].model \in GrokModel
  <2> TAKE i \in ChangesOf(s, a, b)
  <2>0. Len(written) \in Nat /\ i \in 1..b
    BY <1>1, LenProperties DEF GrokTypeOK
  <2>1. i \in 1..Len(written)
    BY <2>0
  <2>3. written[i].kind = "model changed"
    BY DEF ChangesOf, ChangedAt
  <2>2. written[i] \in Entry
    BY <2>1, ElementOfSeq DEF GrokTypeOK
  <2> QED
    BY <2>3, <2>2 DEF Entry
<1>3. ChangesOf(s, a, b) # {} =>
              /\ Max(ChangesOf(s, a, b)) \in ChangesOf(s, a, b)
              /\ \A i \in ChangesOf(s, a, b) : i <= Max(ChangesOf(s, a, b))
  BY <1>1, MaxOfBounded
<1> QED
  BY <1>1, <1>2, <1>3

LEMMA GrokTypeInit == GrokInit => GrokTypeOK
<1> SUFFICES ASSUME GrokInit PROVE GrokTypeOK
  OBVIOUS
<1>1. written = <<>> /\ Len(written) = 0 /\ written \in Seq(Entry)
  BY EmptySeq DEF GrokInit
<1>2. 0 \in 0..MaxWritten /\ 0 \in 0..MaxEdits
  BY GrokAssumption
<1>3. {config, fallback} \subseteq Config /\ {watermark, place} \subseteq Place
  BY <1>2 DEF GrokInit, NoConfig, NoPlace, Config, Place, Resting, Default
<1>4. requests \subseteq GrokRow /\ pending \subseteq GrokRow
      /\ sidModels \in [Session -> Default] /\ defaults \subseteq Default
      /\ offered \subseteq Default /\ unread \in BOOLEAN
  BY DEF GrokInit, Resting, Empty, Default
<1> QED
  BY <1>1, <1>2, <1>3, <1>4 DEF GrokInit, GrokTypeOK

LEMMA GrokInitial == GrokInit => GrokInv
<1> SUFFICES ASSUME GrokInit PROVE GrokInv
  OBVIOUS
<1>1. GrokTypeOK
  BY GrokTypeInit
<1>2. Len(written) = 0
  BY EmptySeq DEF GrokInit
<1>3. PlacesInv
  BY <1>2 DEF GrokInit, PlacesInv, InLog, LogLength, InRound, NoPlace
<1>4. ConfigInv
  BY DEF GrokInit, ConfigInv, NoConfig, InRound
<1>5. MemoryInv
  <2>1. \A s : ChangesOf(s, 0, 0) = {}
    BY DEF ChangesOf, ChangedAt
  <2> QED
    BY <2>1 DEF GrokInit, MemoryInv, KnowsUpTo, Known, InRound, NoPlace, Empty
<1>6. RowsExplained
  BY DEF GrokInit, RowsExplained, Resting
<1> QED
  BY <1>1, <1>3, <1>4, <1>5, <1>6 DEF GrokInv

-----------------------------------------------------------------------------
(* What stays when the lines that are there stay.                          *)
LEMMA ExplainedStays ==
  ASSUME GrokTypeOK, NEW line \in Entry, written' = Append(written, line),
         NEW r \in GrokRow, r.line <= Len(written), r.fed <= Len(written), Explained(r)
  PROVE  Explained(r)'
<1>1. written \in Seq(Entry) /\ r.sid \in Session /\ r.since \in Nat /\ r.line \in Nat
      /\ r.fed \in Nat
  BY DEF GrokTypeOK, GrokRow
<1> DEFINE C == ChangesOf(r.sid, r.since, r.line)
           D == ChangesOf(r.sid, r.line, r.fed)
<1>2. C' = C /\ \A i \in C : written'[i] = written[i]
  BY <1>1, ChangesStay
<1>3. D' = D /\ \A i \in D : written'[i] = written[i]
  BY <1>1, ChangesStay
<1>4. C # {} => Max(C) \in C
  BY <1>1, ChangesBounded
<1>5. \A d : Expected(r.sid, r.since, r.line, d)' = Expected(r.sid, r.since, r.line, d)
  BY <1>2, <1>4 DEF Expected
<1> QED
  BY <1>3, <1>5 DEF Explained

LEMMA KnowsStays ==
  ASSUME GrokTypeOK, NEW line \in Entry, written' = Append(written, line),
         UNCHANGED <<sidModels, since, fed>>, NEW n \in Nat, KnowsUpTo(n)
  PROVE  KnowsUpTo(n)'
<1>0. written \in Seq(Entry) /\ since \in Nat /\ fed \in Nat /\ n \in Nat
      /\ since <= n /\ n <= fed /\ fed <= Len(written) /\ Len(written) \in Nat
  BY LenProperties DEF GrokTypeOK, KnowsUpTo
<1>00. n <= Len(written)
  BY <1>0
<1> SUFFICES ASSUME NEW s \in Session
             PROVE  \/ sidModels[s] = Known(s, n)'
                    \/ \E i \in ChangesOf(s, n, fed)' : written'[i].model = sidModels[s]
  BY <1>0 DEF KnowsUpTo
<1> DEFINE C == ChangesOf(s, since, n)
           D == ChangesOf(s, n, fed)
<1>1. \A a, b \in Nat : b <= Len(written) =>
        ChangesOf(s, a, b)' = ChangesOf(s, a, b)
        /\ \A i \in ChangesOf(s, a, b) : written'[i] = written[i]
  BY <1>0, ChangesStay
<1>2. C' = C /\ \A i \in C : written'[i] = written[i]
  BY <1>0, <1>00, <1>1
<1>3. D' = D /\ \A i \in D : written'[i] = written[i]
  BY <1>0, <1>1
<1>4. C # {} => Max(C) \in C
  BY <1>0, <1>00, ChangesBounded
<1>5. Known(s, n)' = Known(s, n)
  BY <1>2, <1>4 DEF Known
<1> QED
  BY <1>3, <1>5 DEF KnowsUpTo

-----------------------------------------------------------------------------
(* Grok's side.                                                            *)
LEMMA LogStep ==
  ASSUME GrokInv, NEW line \in Entry, Log(line)
  PROVE  GrokInv'
<1> USE DEF logVars, dbVars, memory
<1>1. /\ written \in Seq(Entry) /\ Len(written) \in Nat /\ written' \in Seq(Entry)
      /\ Len(written') = Len(written) + 1 /\ written' = Append(written, line)
  BY AppendProperties, LenProperties DEF GrokInv, GrokTypeOK, Log
<1>2. GrokTypeOK'
  <2>1. Len(written') <= MaxWritten /\ opened \in 0..Len(written')
        /\ {since, fed} \subseteq 0..Len(written')
    BY <1>1, GrokAssumption DEF GrokInv, GrokTypeOK, Log
  <2>2. opened' = opened /\ since' = since /\ fed' = fed
    BY DEF Log
  <2>3. {config, fallback}' \subseteq Config /\ {watermark, place}' \subseteq Place
    BY DEF GrokInv, GrokTypeOK, Log
  <2>4. requests' \subseteq GrokRow /\ pending' \subseteq GrokRow
        /\ step' \in {"new", "idle", "config", "read", "flush", "insert", "save"}
        /\ sidModels' \in [Session -> Default] /\ defaults' \subseteq Default
        /\ offered' \subseteq Default /\ unread' \in BOOLEAN
    BY DEF GrokInv, GrokTypeOK, Log
  <2> QED
    BY <1>1, <2>1, <2>2, <2>3, <2>4 DEF GrokTypeOK
<1>3. PlacesInv'
  <2>1. opened \in Nat /\ LogLength = Len(written) - opened /\ LogLength' = LogLength + 1
        /\ watermark \in Place /\ place \in Place
    BY <1>1 DEF LogLength, Log, GrokInv, GrokTypeOK
  <2>2. ASSUME NEW p \in Place, InLog(p), Shorter(LogLength + 1, p)
        PROVE  p.log <= opened' /\ (p.log = opened' => p.line <= LogLength')
               /\ (p.log # opened' => LogLength' < p.line)
    <3>1. p.log \in Nat /\ p.line \in Nat /\ opened' = opened /\ LogLength \in Int
      BY <1>1, <2>1 DEF Place, Log
    <3> QED
      BY <2>1, <2>2, <3>1 DEF InLog, Shorter
  <2>3. watermark' = watermark /\ place' = place /\ InRound' = InRound /\ opened' = opened
    BY DEF Log, InRound
  <2> QED
    BY <2>1, <2>2, <2>3 DEF PlacesInv, InLog, Log, GrokInv
<1>4. ConfigInv'
  BY DEF ConfigInv, InRound, Log, GrokInv
<1>5. MemoryInv'
  <2>1. opened' = opened /\ watermark' = watermark /\ place' = place /\ InRound' = InRound
        /\ UNCHANGED <<step, sidModels, since, fed>>
    BY DEF Log, InRound
  <2>2. \A n \in Nat : KnowsUpTo(n) => KnowsUpTo(n)'
    BY <1>1, <2>1, KnowsStays DEF GrokInv
  <2>3. opened + watermark.line \in Nat /\ opened + place.line \in Nat
    BY <1>1 DEF GrokInv, GrokTypeOK, Place
  <2> QED
    BY <2>1, <2>2, <2>3 DEF MemoryInv, GrokInv
<1>6. RowsExplained'
  <2>1. requests' = requests /\ pending' = pending
    BY DEF Log
  <2>2. \A r \in requests \cup pending : r \in GrokRow /\ r.line \in Nat /\ r.fed \in Nat
    BY DEF GrokInv, GrokTypeOK, GrokRow
  <2>3. \A r \in requests \cup pending : Explained(r)'
    BY <1>1, <2>2, ExplainedStays DEF GrokInv, RowsExplained
  <2> QED
    BY <1>1, <2>1, <2>2, <2>3 DEF RowsExplained, GrokInv
<1> QED
  BY <1>2, <1>3, <1>4, <1>5, <1>6 DEF GrokInv

(* What does not write the log keeps what is said of its lines.            *)
LEMMA LinesSame ==
  ASSUME written' = written
  PROVE  /\ \A s, a, b : ChangesOf(s, a, b)' = ChangesOf(s, a, b)
         /\ \A r : Explained(r)' = Explained(r)
BY DEF ChangesOf, ChangedAt, Explained, Expected

LEMMA KnowsSame ==
  ASSUME written' = written, UNCHANGED <<sidModels, since, fed>>
  PROVE  \A n : KnowsUpTo(n)' = KnowsUpTo(n)
BY DEF ChangesOf, ChangedAt, KnowsUpTo, Known

LEMMA RotateStep ==
  ASSUME GrokInv, Rotate
  PROVE  GrokInv'
<1> USE DEF logVars, dbVars, memory
<1>1. /\ written' = written /\ Len(written) \in Nat /\ opened \in Nat
      /\ opened' = Len(written) /\ opened < opened' /\ LogLength' = 0
      /\ watermark \in Place /\ place \in Place
  BY LenProperties DEF GrokInv, GrokTypeOK, Rotate, LogLength
<1>2. GrokTypeOK'
  BY <1>1 DEF GrokInv, GrokTypeOK, Rotate
<1>3. PlacesInv' /\ watermark'.log # opened' /\ (InRound' => place'.log # opened')
  <2>1. watermark.log \in Nat /\ watermark.line \in Nat /\ place.log \in Nat
        /\ place.line \in Nat /\ watermark' = watermark /\ place' = place /\ InRound' = InRound
    BY <1>1 DEF Place, Rotate, InRound
  <2> QED
    BY <1>1, <2>1 DEF PlacesInv, InLog, Rotate, GrokInv
<1>4. ConfigInv'
  BY DEF ConfigInv, InRound, Rotate, GrokInv
<1>5. MemoryInv'
  BY <1>3 DEF MemoryInv, Rotate, GrokInv
<1>6. RowsExplained'
  BY <1>1, LinesSame DEF RowsExplained, Rotate, GrokInv
<1> QED
  BY <1>2, <1>3, <1>4, <1>5, <1>6 DEF GrokInv

LEMMA EditConfigStep ==
  ASSUME GrokInv, NEW m \in Default, EditConfig(m)
  PROVE  GrokInv'
<1> USE DEF logVars, dbVars, memory
<1>1. written' = written /\ config' \in Config /\ config.mtime \in Nat
      /\ config'.mtime = config.mtime + 1 /\ fallback.mtime \in Nat
      /\ config'.model = m /\ offered' = offered \cup {m}
  BY GrokAssumption DEF EditConfig, Config, GrokInv, GrokTypeOK
<1>2. GrokTypeOK'
  BY <1>1 DEF GrokInv, GrokTypeOK, EditConfig
<1>3. PlacesInv'
  BY DEF PlacesInv, InLog, LogLength, InRound, EditConfig, GrokInv
<1>4. ConfigInv'
  BY <1>1 DEF ConfigInv, InRound, EditConfig, GrokInv
<1>5. MemoryInv'
  BY <1>1, KnowsSame DEF MemoryInv, EditConfig, GrokInv, InRound
<1>6. RowsExplained'
  BY <1>1, LinesSame DEF RowsExplained, EditConfig, GrokInv
<1> QED
  BY <1>2, <1>3, <1>4, <1>5, <1>6 DEF GrokInv

-----------------------------------------------------------------------------
(* A memory that starts, at the n-th line.                                 *)
LEMMA EmptyKnows ==
  ASSUME NEW n \in Nat, sidModels' = Empty, since' = n, fed' = n
  PROVE  KnowsUpTo(n)'
<1>0. (n + 1)..n = {}
  OBVIOUS
<1>1. \A s : ChangesOf(s, since, n)' = {}
  BY <1>0 DEF ChangesOf, ChangedAt
<1> QED
  BY <1>1 DEF KnowsUpTo, Known, Empty

LEMMA BaselineStep ==
  ASSUME GrokInv, Baseline
  PROVE  GrokInv'
<1> USE DEF logVars, dbVars
<1>1. PICK n \in {0, LogLength} : /\ watermark' = [log |-> opened, line |-> n]
                                 /\ since' = opened + n /\ fed' = opened + n
  BY DEF Baseline
<1>2. /\ written' = written /\ Len(written) \in Nat /\ opened' = opened /\ opened \in Nat
      /\ LogLength' = LogLength /\ LogLength \in Nat /\ n \in Nat /\ n <= LogLength
      /\ opened + n <= Len(written) /\ Len(written) <= MaxWritten
      /\ step = "new" /\ step' = "idle"
  BY <1>1, LenProperties DEF GrokInv, GrokTypeOK, Baseline, LogLength
<1>3. GrokTypeOK'
  <2>1. watermark' \in Place /\ {since, fed}' \subseteq 0..Len(written')
    BY <1>1, <1>2, GrokAssumption DEF Place
  <2> QED
    BY <1>2, <2>1 DEF GrokInv, GrokTypeOK, Baseline
<1>4. PlacesInv'
  BY <1>1, <1>2 DEF PlacesInv, InLog, InRound
<1>5. ConfigInv'
  BY <1>2 DEF ConfigInv, InRound, Baseline, GrokInv
<1>6. MemoryInv'
  <2>1. sidModels' = Empty
    BY <1>2 DEF Baseline, MemoryInv, GrokInv
  <2>2. KnowsUpTo(opened + n)'
    BY <1>1, <1>2, <2>1, EmptyKnows
  <2>3. opened' + watermark'.line = opened + n /\ watermark'.log = opened
    BY <1>1, <1>2
  <2> QED
    BY <1>1, <1>2, <2>2, <2>3 DEF MemoryInv, InRound
<1>7. RowsExplained'
  BY <1>2, LinesSame DEF RowsExplained, Baseline, GrokInv
<1> QED
  BY <1>3, <1>4, <1>5, <1>6, <1>7 DEF GrokInv

LEMMA BeginGrokStep ==
  ASSUME GrokInv, BeginGrok
  PROVE  GrokInv'
<1> USE DEF logVars, dbVars
<1>1. /\ written' = written /\ opened' = opened /\ LogLength' = LogLength /\ config' = config
      /\ offered' = offered /\ watermark' = watermark /\ place' = watermark
      /\ step' \in {"read", "config"} /\ step = "idle" /\ watermark \in Place
  BY DEF BeginGrok, LogLength, GrokInv, GrokTypeOK
<1>2. PICK seen \in {config.mtime, 0} :
        /\ fallback' = [fallback EXCEPT !.mtime = seen]
        /\ step' = IF seen = fallback.mtime THEN "read" ELSE "config"
        /\ unread' = (unread \/ seen # config.mtime)
        /\ defaults' = DefaultsIf(unread')
  BY DEF BeginGrok
<1>3. /\ config \in [mtime : 0..MaxEdits, model : Default] /\ MaxEdits \in Nat
      /\ fallback \in [mtime : 0..MaxEdits, model : Default] /\ unread \in BOOLEAN
      /\ offered \subseteq Default
  BY GrokAssumption DEF GrokInv, GrokTypeOK, Config
<1>4. /\ fallback'.mtime = seen /\ fallback'.model = fallback.model /\ seen <= config.mtime
      /\ fallback' \in [mtime : 0..MaxEdits, model : Default]
  BY <1>2, <1>3
<1>5. GrokTypeOK'
  <2>1. defaults' \subseteq Default /\ unread' \in BOOLEAN
    BY <1>1, <1>2, <1>3 DEF DefaultsIf
  <2> QED
    BY <1>1, <1>4, <2>1 DEF GrokInv, GrokTypeOK, BeginGrok, Config
<1>6. PlacesInv'
  <2>1. watermark.line \in Nat
    BY <1>1 DEF Place
  <2> QED
    BY <1>1, <2>1 DEF PlacesInv, InLog, InRound, GrokInv
<1>7. ConfigInv'
  <2>1. {Unnamed, config.model, fallback.model} \subseteq offered
    BY DEF ConfigInv, GrokInv
  <2>2. ASSUME step' # "config"
        PROVE  /\ ~unread' /\ fallback'.mtime = config.mtime => fallback.model = config.model
               /\ fallback.model \in defaults'
    <3>1. seen = fallback.mtime
      BY <1>2, <2>2
    <3>2. ~unread' => fallback.model = config.model
      BY <1>1, <1>2, <3>1 DEF ConfigInv, GrokInv
    <3>3. defaults' = IF unread' THEN offered ELSE {config.model}
      BY <1>2 DEF DefaultsIf
    <3> QED
      BY <2>1, <3>2, <3>3
  <2> QED
    BY <1>1, <1>4, <2>1, <2>2 DEF ConfigInv, GrokInv
<1>8. MemoryInv'
  <2>1. UNCHANGED <<sidModels, since, fed>>
    BY DEF BeginGrok
  <2> QED
    BY <1>1, <2>1, KnowsSame DEF MemoryInv, GrokInv, InRound
<1>9. RowsExplained'
  BY <1>1, LinesSame DEF RowsExplained, BeginGrok, GrokInv
<1> QED
  BY <1>5, <1>6, <1>7, <1>8, <1>9 DEF GrokInv

LEMMA ReadConfigStep ==
  ASSUME GrokInv, ReadConfig
  PROVE  GrokInv'
<1> USE DEF logVars, dbVars
<1>1. /\ written' = written /\ opened' = opened /\ LogLength' = LogLength /\ config' = config
      /\ offered' = offered /\ watermark' = watermark /\ place' = place
      /\ step' = "read" /\ step = "config" /\ InRound /\ InRound'
  BY DEF ReadConfig, LogLength, InRound
<1>2. PICK ok \in BOOLEAN :
        /\ fallback' = [fallback EXCEPT !.model = IF ok THEN config.model ELSE Unnamed]
        /\ unread' = ~ok
        /\ defaults' = DefaultsIf(unread')
  BY DEF ReadConfig
<1>3. /\ config \in [mtime : 0..MaxEdits, model : Default]
      /\ fallback \in [mtime : 0..MaxEdits, model : Default]
      /\ offered \subseteq Default /\ Unnamed \in Default
  BY DEF GrokInv, GrokTypeOK, Config, Default
<1>4. /\ fallback'.mtime = fallback.mtime
      /\ fallback'.model = (IF ok THEN config.model ELSE Unnamed)
      /\ fallback' \in [mtime : 0..MaxEdits, model : Default]
  BY <1>2, <1>3
<1>5. defaults' = IF unread' THEN offered ELSE {config.model}
  BY <1>2 DEF DefaultsIf
<1>6. GrokTypeOK'
  <2>1. defaults' \subseteq Default /\ unread' \in BOOLEAN
    BY <1>2, <1>3, <1>5
  <2> QED
    BY <1>1, <1>4, <2>1 DEF GrokInv, GrokTypeOK, ReadConfig, Config
<1>7. PlacesInv'
  BY <1>1 DEF PlacesInv, InLog, GrokInv
<1>8. ConfigInv'
  BY <1>1, <1>2, <1>4, <1>5 DEF ConfigInv, GrokInv
<1>9. MemoryInv'
  <2>1. UNCHANGED <<sidModels, since, fed>>
    BY DEF ReadConfig
  <2> QED
    BY <1>1, <2>1, KnowsSame DEF MemoryInv, GrokInv
<1>10. RowsExplained'
  BY <1>1, LinesSame DEF RowsExplained, ReadConfig, GrokInv
<1> QED
  BY <1>6, <1>7, <1>8, <1>9, <1>10 DEF GrokInv

LEMMA ForgetStep ==
  ASSUME GrokInv, Forget
  PROVE  GrokInv'
<1> USE DEF logVars, dbVars
<1>1. /\ written' = written /\ opened' = opened /\ LogLength' = LogLength /\ LogLength \in Nat
      /\ Len(written) \in Nat /\ opened \in Nat /\ opened <= Len(written)
      /\ Len(written) <= MaxWritten /\ config' = config /\ fallback' = fallback
      /\ UNCHANGED <<offered, unread, defaults>>
      /\ watermark' = watermark /\ place' = [log |-> opened, line |-> 0]
      /\ step = "read" /\ step' = "read" /\ since' = opened /\ fed' = opened
      /\ LogLength < place.line /\ place.line \in Nat
  BY LenProperties DEF Forget, LogLength, GrokInv, GrokTypeOK, Place
<1>2. place.log # opened /\ watermark.log # opened
  BY <1>1 DEF PlacesInv, InLog, InRound, GrokInv
<1>3. GrokTypeOK'
  <2>1. place' \in Place /\ {since, fed}' \subseteq 0..Len(written')
        /\ sidModels' \in [Session -> Default]
    BY <1>1, GrokAssumption DEF Place, Forget, Empty, Default
  <2> QED
    BY <1>1, <2>1 DEF GrokInv, GrokTypeOK, Forget
<1>4. PlacesInv'
  BY <1>1, <1>2 DEF PlacesInv, InLog, InRound, GrokInv
<1>5. ConfigInv'
  BY <1>1 DEF ConfigInv, InRound, Forget, GrokInv
<1>6. MemoryInv'
  <2>1. KnowsUpTo(opened)'
    BY <1>1, EmptyKnows DEF Forget
  <2>2. opened' + place'.line = opened
    BY <1>1
  <2> QED
    BY <1>1, <1>2, <2>1, <2>2 DEF MemoryInv, InRound
<1>7. RowsExplained'
  BY <1>1, LinesSame DEF RowsExplained, Forget, GrokInv
<1> QED
  BY <1>3, <1>4, <1>5, <1>6, <1>7 DEF GrokInv

LEMMA GrokRestartStep ==
  ASSUME GrokInv, GrokRestart
  PROVE  GrokInv'
<1> USE DEF logVars, dbVars
<1>1. /\ written' = written /\ opened' = opened /\ LogLength' = LogLength /\ LogLength \in Nat
      /\ Len(written) \in Nat /\ opened \in Nat /\ opened <= Len(written)
      /\ config' = config /\ fallback' = NoConfig /\ watermark' = watermark
      /\ watermark.line \in Nat /\ step' = "idle" /\ fed' = since'
      /\ place' = NoPlace /\ pending' = {} /\ defaults' = {} /\ requests' = requests
      /\ offered' = offered /\ unread' = FALSE
  BY LenProperties DEF GrokRestart, LogLength, GrokInv, GrokTypeOK, Place, Resting
<1>2. since' = IF watermark.log = opened THEN opened + watermark.line ELSE opened
  BY DEF GrokRestart
<1>3. since' \in 0..Len(written)
  BY <1>1, <1>2 DEF PlacesInv, InLog, LogLength, GrokInv
<1>4. GrokTypeOK'
  <2>1. place' \in Place /\ fallback' \in Config /\ sidModels' \in [Session -> Default]
    BY <1>1, GrokAssumption DEF Place, GrokRestart, Empty, Default, NoPlace, NoConfig, Config
  <2>2. pending' \subseteq GrokRow /\ defaults' \subseteq Default
    BY <1>1
  <2> QED
    BY <1>1, <1>3, <2>1, <2>2 DEF GrokInv, GrokTypeOK
<1>5. PlacesInv'
  BY <1>1 DEF PlacesInv, InLog, InRound, GrokInv
<1>6. ConfigInv'
  BY <1>1 DEF ConfigInv, InRound, NoConfig, GrokInv, GrokTypeOK, Config
<1>7. MemoryInv'
  <2>1. ASSUME watermark.log = opened
        PROVE  KnowsUpTo(opened + watermark.line)'
    BY <1>1, <1>2, <2>1, EmptyKnows DEF GrokRestart
  <2> QED
    BY <1>1, <1>2, <2>1 DEF MemoryInv, InRound
<1>8. RowsExplained'
  BY <1>1, LinesSame DEF RowsExplained, GrokInv
<1> QED
  BY <1>4, <1>5, <1>6, <1>7, <1>8 DEF GrokInv

(* The rest of a round, and one that fails.                                *)
LEMMA RestOfRoundStep ==
  ASSUME GrokInv, EndOfLog \/ InsertRequests
  PROVE  GrokInv'
<1> USE DEF logVars, dbVars, memory
<1>1. /\ written' = written /\ opened' = opened /\ LogLength' = LogLength
      /\ config' = config /\ UNCHANGED <<sidModels, fallback, since, fed, offered, unread>>
      /\ watermark' = watermark /\ place' = place /\ defaults' = defaults
      /\ InRound /\ InRound' /\ step' \notin {"new", "config"} /\ step # "config"
  BY DEF EndOfLog, InsertRequests, LogLength, InRound
<1>2. requests' \cup pending' \subseteq requests \cup pending
  BY DEF EndOfLog, InsertRequests
<1>3. GrokTypeOK'
  <2>1. step' \in {"new", "idle", "config", "read", "flush", "insert", "save"}
    BY DEF EndOfLog, InsertRequests
  <2>2. requests' \subseteq GrokRow /\ pending' \subseteq GrokRow
    BY <1>2 DEF GrokInv, GrokTypeOK
  <2> QED
    BY <1>1, <2>1, <2>2 DEF GrokInv, GrokTypeOK
<1>4. PlacesInv'
  BY <1>1 DEF PlacesInv, InLog, GrokInv
<1>5. ConfigInv'
  BY <1>1 DEF ConfigInv, GrokInv
<1>6. MemoryInv'
  BY <1>1, KnowsSame DEF MemoryInv, GrokInv
<1>7. RowsExplained'
  BY <1>1, <1>2, LinesSame DEF RowsExplained, GrokInv
<1> QED
  BY <1>3, <1>4, <1>5, <1>6, <1>7 DEF GrokInv

(* What the parser knows at a place it knew at an earlier one: the changes *)
(* in between are among those it has been fed.                             *)
LEMMA KnowsBefore ==
  ASSUME GrokTypeOK, NEW n \in Nat, NEW k \in Nat, k <= n, since <= k, KnowsUpTo(n)
  PROVE  KnowsUpTo(k)
<1>1. since \in Nat /\ fed \in Nat /\ n <= fed /\ fed <= Len(written) /\ Len(written) \in Nat
  BY LenProperties DEF GrokTypeOK, KnowsUpTo
<1> SUFFICES ASSUME NEW s \in Session
             PROVE  \/ sidModels[s] = Known(s, k)
                    \/ \E i \in ChangesOf(s, k, fed) : written[i].model = sidModels[s]
  BY <1>1 DEF KnowsUpTo
<1>2. CASE \E i \in ChangesOf(s, n, fed) : written[i].model = sidModels[s]
  <2>1. \A i \in (n + 1)..fed : i \in (k + 1)..fed
    OBVIOUS
  <2> QED
    BY <1>2, <2>1 DEF ChangesOf, ChangedAt
<1>3. CASE sidModels[s] = Known(s, n)
  <2> DEFINE C == ChangesOf(s, since, n)
             D == ChangesOf(s, since, k)
  <2>1. n <= Len(written)
    BY <1>1
  <2>2. C # {} => Max(C) \in C /\ \A i \in C : i <= Max(C)
    BY <1>1, <2>1, ChangesBounded
  <2>3. CASE \E i \in C : i \notin D
    <3>1. Max(C) \in C /\ Max(C) \in (since + 1)..n /\ Max(C) > k
      <4>1. PICK i \in C : i \notin D
        BY <2>3
      <4>2. i \in (since + 1)..n /\ i \notin (since + 1)..k
        BY <4>1 DEF ChangesOf, ChangedAt
      <4>3. i > k
        BY <1>1, <4>2
      <4>4. Max(C) \in C /\ i <= Max(C)
        BY <2>2, <4>1
      <4>5. Max(C) \in (since + 1)..n
        BY <4>4 DEF ChangesOf, ChangedAt
      <4> QED
        BY <1>1, <4>2, <4>3, <4>4, <4>5
    <3>2. Max(C) \in (k + 1)..fed
      BY <1>1, <3>1
    <3>3. Max(C) \in ChangesOf(s, k, fed)
      BY <3>1, <3>2 DEF ChangesOf, ChangedAt
    <3>4. written[Max(C)].model = sidModels[s]
      BY <1>3, <3>1 DEF Known
    <3> QED
      BY <3>3, <3>4
  <2>4. CASE \A i \in C : i \in D
    <3>1. \A i \in (since + 1)..k : i \in (since + 1)..n
      BY <1>1
    <3>2. C = D
      BY <2>4, <3>1 DEF ChangesOf, ChangedAt
    <3> QED
      BY <1>3, <3>2 DEF Known
  <2> QED
    BY <2>3, <2>4
<1> QED
  BY <1>2, <1>3 DEF KnowsUpTo

LEMMA EndOfRoundStep ==
  ASSUME GrokInv, SaveWatermark \/ GrokRoundFailed
  PROVE  GrokInv'
<1> USE DEF logVars, dbVars, memory
<1>1. /\ written' = written /\ opened' = opened /\ LogLength' = LogLength
      /\ config' = config /\ UNCHANGED <<sidModels, fallback, since, fed, offered, unread>>
      /\ watermark' \in {watermark, place} /\ place' = NoPlace /\ defaults' = {}
      /\ InRound /\ step # "config" /\ step' = "idle" /\ requests' = requests /\ pending' = {}
  BY DEF SaveWatermark, GrokRoundFailed, LogLength, InRound, Resting
<1>2. GrokTypeOK'
  <2>1. place' \in Place /\ watermark' \in Place /\ defaults' \subseteq Default
    BY <1>1, GrokAssumption DEF Place, NoPlace, Default, GrokInv, GrokTypeOK
  <2> QED
    BY <1>1, <2>1 DEF GrokInv, GrokTypeOK
<1>3. PlacesInv'
  BY <1>1 DEF PlacesInv, InLog, InRound, GrokInv
<1>4. ConfigInv'
  BY <1>1 DEF ConfigInv, InRound, GrokInv
<1>5. MemoryInv'
  <2>1. opened \in Nat /\ watermark.line \in Nat /\ place.line \in Nat
        /\ since \in Nat
    BY DEF GrokInv, GrokTypeOK, Place
  <2>2. ASSUME watermark'.log = opened
        PROVE  since <= opened + watermark'.line /\ KnowsUpTo(opened + watermark'.line)
    <3>1. place.log = opened
      BY <1>1, <2>2 DEF PlacesInv, GrokInv
    <3>2. KnowsUpTo(opened + place.line)
      BY <1>1, <3>1 DEF MemoryInv, GrokInv
    <3>3. CASE watermark' = place
      BY <3>2, <3>3 DEF KnowsUpTo
    <3>4. CASE watermark' = watermark
      <4>1. watermark.line <= place.line /\ since <= opened + watermark.line
        BY <1>1, <2>2, <3>4 DEF PlacesInv, MemoryInv, GrokInv
      <4>2. KnowsUpTo(opened + watermark.line)
        BY <2>1, <3>2, <4>1, KnowsBefore DEF GrokInv
      <4> QED
        BY <3>4, <4>1, <4>2
    <3> QED
      BY <1>1, <3>3, <3>4
  <2>3. \A n : KnowsUpTo(n)' = KnowsUpTo(n)
    BY <1>1, KnowsSame
  <2> QED
    BY <1>1, <2>2, <2>3 DEF MemoryInv, InRound
<1>6. RowsExplained'
  BY <1>1, LinesSame DEF RowsExplained, GrokInv
<1> QED
  BY <1>2, <1>3, <1>4, <1>5, <1>6 DEF GrokInv

-----------------------------------------------------------------------------
LEMMA OneMore ==
  ASSUME NEW a \in Nat, NEW n \in Nat
  PROVE  /\ \A i : i \in (a + 1)..(n + 1) /\ i # n + 1 => i \in (a + 1)..n
         /\ \A i : i \in (a + 1)..n => i \in (a + 1)..(n + 1)
         /\ \A i : i \in (n + 1)..a /\ i # n + 1 => i \in (n + 1 + 1)..a
         /\ \A i : i \in (n + 1 + 1)..a => i \in (n + 1)..a
OBVIOUS

(* One more line that is no change of the session.                         *)
LEMMA NoChange ==
  ASSUME NEW s, NEW n \in Nat, NEW j \in Nat, j = n + 1, ~ChangedAt(s, j)
  PROVE  \A a \in Nat : /\ ChangesOf(s, a, j) = ChangesOf(s, a, n)
                       /\ ChangesOf(s, n, a) = ChangesOf(s, j, a)
<1> SUFFICES ASSUME NEW a \in Nat
             PROVE  /\ ChangesOf(s, a, j) = ChangesOf(s, a, n)
                    /\ ChangesOf(s, n, a) = ChangesOf(s, j, a)
  OBVIOUS
<1>1. /\ \A i : i \in (a + 1)..j /\ i # j => i \in (a + 1)..n
      /\ \A i : i \in (a + 1)..n => i \in (a + 1)..j
      /\ \A i : i \in (n + 1)..a /\ i # j => i \in (j + 1)..a
      /\ \A i : i \in (j + 1)..a => i \in (n + 1)..a
  BY OneMore
<1> QED
  BY ONLY <1>1, ~ChangedAt(s, j) DEF ChangesOf

(* What a usage line is given is what is expected of it, or a model that a *)
(* failed round had reached.                                               *)
LEMMA ModelExplained ==
  ASSUME GrokTypeOK, NEW n \in Nat, n < Len(written), KnowsUpTo(n),
         NEW s \in Session, NEW j \in Nat, j = n + 1, ~ChangedAt(s, j),
         NEW d, fallback.model = d
  PROVE  \/ ModelOf(s) = Expected(s, since, j, d)
         \/ /\ ModelOf(s).source = "event"
            /\ \E i \in ChangesOf(s, j, fed) : written[i].model = ModelOf(s).model
<1>0. Len(written) \in Nat
  BY LenProperties DEF GrokTypeOK
<1>1. since \in Nat /\ fed \in Nat /\ fed <= Len(written) /\ n <= Len(written)
  BY <1>0 DEF GrokTypeOK
<1> DEFINE C == ChangesOf(s, since, n)
           D == ChangesOf(s, n, fed)
<1>2. C = ChangesOf(s, since, j) /\ D = ChangesOf(s, j, fed)
  BY <1>1, NoChange
<1>3. \A i \in D : written[i].model # Unnamed
  <2>1. \A i \in D : written[i].model \in GrokModel
    BY <1>1, ChangesBounded
  <2> QED
    BY <2>1, GrokAssumption
<1>4. C # {} => Max(C) \in C /\ written[Max(C)].model # Unnamed
  <2>1. /\ \A i \in C : written[i].model \in GrokModel
        /\ C # {} => Max(C) \in C
    BY <1>1, ChangesBounded
  <2> QED
    BY <2>1, GrokAssumption
<1>5. sidModels[s] = Known(s, n) \/ \E i \in D : written[i].model = sidModels[s]
  BY DEF KnowsUpTo
<1>6. CASE \E i \in D : written[i].model = sidModels[s]
  <2>1. ModelOf(s) = [model |-> sidModels[s], source |-> "event"]
    BY <1>3, <1>6 DEF ModelOf
  <2> QED
    BY <1>2, <1>6, <2>1
<1>7. CASE sidModels[s] = Known(s, n)
  BY <1>2, <1>4, <1>7 DEF ModelOf, Expected, Known
<1> QED
  BY <1>5, <1>6, <1>7

LEMMA ParseGrokLineStep ==
  ASSUME GrokInv, ParseGrokLine
  PROVE  GrokInv'
<1> USE DEF logVars, dbVars
<1> SUFFICES ASSUME NEW n \in Nat, n = opened + place.line, NEW i \in Nat, i = n + 1
             PROVE  GrokInv'
  <2>1. opened \in Nat /\ place.line \in Nat
    BY LenProperties DEF GrokInv, GrokTypeOK, Place
  <2>2. opened + place.line \in Nat /\ opened + place.line + 1 \in Nat
    BY ONLY <2>1
  <2> QED
    BY <2>2
<1> DEFINE line == written[i]
<1>1. /\ written' = written /\ opened' = opened /\ LogLength' = LogLength
      /\ config' = config /\ UNCHANGED <<fallback, since, defaults, requests, watermark>>
      /\ UNCHANGED <<offered, unread>>
      /\ place' = [place EXCEPT !.line = @ + 1] /\ fed' = IF fed < i THEN i ELSE fed
      /\ step = "read" /\ InRound /\ step' \in {"flush", "read"} /\ InRound'
      /\ place.line < LogLength
  BY DEF ParseGrokLine, LogLength, InRound
<1>2. /\ Len(written) \in Nat /\ opened \in Nat /\ LogLength = Len(written) - opened
      /\ place.line \in Nat /\ place.log \in Nat /\ Len(written) <= MaxWritten
      /\ fed \in Nat /\ fed <= Len(written) /\ since \in Nat
  BY LenProperties DEF GrokInv, GrokTypeOK, Place, LogLength
<1>3. n \in Nat /\ i \in 1..Len(written) /\ i <= Len(written) /\ i \in Nat /\ i = n + 1
  BY SMTT(30), <1>1, <1>2
<1>4. place.log = opened /\ KnowsUpTo(n)
  BY SMTT(30), <1>1, <1>2 DEF PlacesInv, InLog, MemoryInv, GrokInv
<1>5. /\ place'.log = opened /\ place'.line = place.line + 1 /\ place' \in Place
      /\ opened + place'.line = i
  <2>1. place \in [log : 0..MaxWritten, line : 0..MaxWritten]
    BY DEF GrokInv, GrokTypeOK, Place
  <2>2. place.line + 1 \in 0..MaxWritten
    <3>1. MaxWritten \in Nat
      BY GrokAssumption
    <3>2. place.line < Len(written) - opened
      BY ONLY <1>1, <1>2
    <3> QED
      BY ONLY <1>2, <3>1, <3>2
  <2>3. /\ place'.log = place.log /\ place'.line = place.line + 1
        /\ place' \in [log : 0..MaxWritten, line : 0..MaxWritten]
    <3>1. place' = [place EXCEPT !.line = @ + 1]
      BY <1>1
    <3> QED
      BY ONLY <2>1, <2>2, <3>1
  <2> QED
    BY <1>2, <1>4, <2>3 DEF Place
<1>6. fed' \in Nat /\ fed' <= Len(written) /\ i <= fed' /\ fed <= fed' /\ n <= fed
      /\ since <= n
  BY SMTT(30), <1>1, <1>2, <1>3, <1>4 DEF KnowsUpTo
<1>7. line \in Entry
  BY <1>3, ElementOfSeq DEF GrokInv, GrokTypeOK
<1>8. PlacesInv'
  <2>1. watermark.line \in Nat /\ (watermark.log = opened => watermark.line <= place.line)
    BY <1>1 DEF PlacesInv, GrokInv, GrokTypeOK, Place
  <2>2. InLog(watermark)' /\ place'.line <= LogLength'
    BY <1>1, <1>2, <1>5 DEF PlacesInv, InLog, GrokInv
  <2>3. InLog(place)'
    BY <1>1, <1>2, <1>5, <2>2 DEF InLog
  <2>4. watermark.log = opened => watermark.line <= place'.line
    BY <1>2, <1>5, <2>1
  <2> QED
    BY <1>1, <1>5, <2>2, <2>3, <2>4 DEF PlacesInv
<1>9. ConfigInv'
  BY <1>1 DEF ConfigInv, GrokInv
<1>10. CASE line.kind = "model changed" /\ RecordModelChange(line) /\ UNCHANGED pending
  <2>1. line.sid \in Session /\ line.model \in GrokModel
    BY <1>7, <1>10 DEF Entry
  <2>2. GrokTypeOK'
    <3>1. sidModels' \in [Session -> Default]
      BY <1>10, <2>1 DEF RecordModelChange, GrokInv, GrokTypeOK, Default
    <3>2. {since, fed}' \subseteq 0..Len(written')
      BY <1>1, <1>2, <1>6 DEF GrokInv, GrokTypeOK
    <3> QED
      BY <1>1, <1>5, <1>10, <3>1, <3>2 DEF GrokInv, GrokTypeOK
  <2>3. KnowsUpTo(i)'
    <3> SUFFICES ASSUME NEW s \in Session
                 PROVE  \/ sidModels'[s] = Known(s, i)'
                        \/ \E j \in ChangesOf(s, i, fed)' : written'[j].model = sidModels'[s]
      BY <1>1, <1>2, <1>3, <1>6 DEF KnowsUpTo
    <3>1. /\ ChangesOf(s, i, fed)' = ChangesOf(s, i, fed')
          /\ Known(s, i)' = Known(s, i)
      BY <1>1 DEF ChangesOf, ChangedAt, Known
    <3>2. CASE s = line.sid
      <4> DEFINE C == ChangesOf(s, since, i)
      <4>1. i \in C
        <5>1. i \in (since + 1)..i
          BY SMTT(30), <1>2, <1>3, <1>6
        <5> QED
          BY <1>10, <3>2, <5>1 DEF ChangesOf, ChangedAt
      <4>2. Max(C) \in C /\ i <= Max(C) /\ C \subseteq 1..i
        BY <1>2, <1>3, <4>1, ChangesBounded DEF GrokInv
      <4>3. Max(C) = i
        BY <1>3, <4>2
      <4>4. sidModels'[s] = line.model
        BY <1>10, <3>2 DEF RecordModelChange, GrokInv, GrokTypeOK
      <4> QED
        BY <3>1, <4>1, <4>3, <4>4 DEF Known
    <3>3. CASE s # line.sid
      <4>0. ~ChangedAt(s, i)
        BY <3>3 DEF ChangedAt
      <4>1. ChangesOf(s, since, i) = ChangesOf(s, since, n)
            /\ ChangesOf(s, n, fed) = ChangesOf(s, i, fed)
        BY <1>2, <1>3, <4>0, NoChange
      <4>2. sidModels'[s] = sidModels[s]
        BY <1>10, <3>3 DEF RecordModelChange, GrokInv, GrokTypeOK
      <4>3. \A j \in ChangesOf(s, i, fed) : j \in ChangesOf(s, i, fed')
        <5>1. \A j \in (i + 1)..fed : j \in (i + 1)..fed'
          BY <1>2, <1>3, <1>6
        <5> QED
          BY <5>1 DEF ChangesOf, ChangedAt
      <4>4. sidModels[s] = Known(s, n) \/ \E j \in ChangesOf(s, n, fed) : written[j].model = sidModels[s]
        BY <1>4 DEF KnowsUpTo
      <4> QED
        BY <1>1, <3>1, <4>1, <4>2, <4>3, <4>4 DEF Known
    <3> QED
      BY <3>2, <3>3
  <2>4. MemoryInv'
    BY <1>1, <1>5, <2>3 DEF MemoryInv, GrokInv
  <2>5. RowsExplained'
    BY <1>1, <1>10, LinesSame DEF RowsExplained, GrokInv
  <2> QED
    BY <1>8, <1>9, <2>2, <2>4, <2>5 DEF GrokInv
<1>11. CASE line.kind = "inference_done" /\ ParseInferenceDone(line, i) /\ UNCHANGED sidModels
  <2> DEFINE row == [line |-> i, sid |-> line.sid, model |-> ModelOf(line.sid).model,
                     source |-> ModelOf(line.sid).source, defaults |-> defaults,
                     since |-> since, fed |-> fed]
  <2>1. line.sid \in Session /\ line.kind # "model changed"
    BY <1>7, <1>11 DEF Entry
  <2>2. pending' = pending \cup {row}
    BY <1>11 DEF ParseInferenceDone
  <2>3. row \in GrokRow
    <3>1. ModelOf(line.sid).model \in Default
          /\ ModelOf(line.sid).source \in {"event", "config_fallback", Unnamed}
      <4>1. sidModels[line.sid] \in Default /\ fallback.model \in Default
        BY <2>1 DEF GrokInv, GrokTypeOK, Config
      <4> QED
        BY <4>1 DEF ModelOf
    <3>2. i \in 1..MaxWritten /\ since \in 0..MaxWritten /\ fed \in 0..MaxWritten
      <4>1. MaxWritten \in Nat
        BY GrokAssumption
      <4> HIDE DEF line, row
      <4>2. i \in 1..MaxWritten
        BY ONLY <1>2, <1>3, <4>1
      <4>3. fed \in 0..MaxWritten /\ since <= fed
        BY ONLY <1>2, <1>3, <1>6, <4>1
      <4> QED
        BY ONLY <1>2, <4>1, <4>2, <4>3
    <3> QED
      BY <2>1, <3>1, <3>2 DEF GrokRow, GrokInv, GrokTypeOK
  <2>4. GrokTypeOK'
    <3> HIDE DEF row
    <3>1. requests' \subseteq GrokRow /\ pending' \subseteq GrokRow
      BY SMTT(30), <1>1, <2>2, <2>3 DEF GrokInv, GrokTypeOK
    <3>2. {since, fed}' \subseteq 0..Len(written')
      BY <1>1, <1>2, <1>6 DEF GrokInv, GrokTypeOK
    <3> QED
      BY <1>1, <1>5, <1>11, <3>1, <3>2 DEF GrokInv, GrokTypeOK
  <2>5. Explained(row)
    <3>1. fallback.model \in defaults
      BY <1>1 DEF ConfigInv, GrokInv
    <3>2. ~ChangedAt(line.sid, i)
      BY <2>1 DEF ChangedAt
    <3>5. n < Len(written)
      BY <1>2, <1>3
    <3>3. /\ row.line = i /\ row.sid = line.sid /\ row.since = since /\ row.fed = fed
          /\ row.defaults = defaults
          /\ [model |-> row.model, source |-> row.source] = ModelOf(line.sid)
          /\ row.source = ModelOf(line.sid).source /\ row.model = ModelOf(line.sid).model
      BY <1>3 DEF ModelOf
    <3>4. \/ ModelOf(line.sid) = Expected(line.sid, since, i, fallback.model)
          \/ /\ ModelOf(line.sid).source = "event"
             /\ \E j \in ChangesOf(line.sid, i, fed) : written[j].model = ModelOf(line.sid).model
      BY <1>3, <1>4, <2>1, <3>1, <3>2, <3>5, ModelExplained DEF GrokInv
    <3> HIDE DEF row
    <3> QED
      BY <3>1, <3>3, <3>4 DEF Explained
  <2>6. KnowsUpTo(i)'
    <3> SUFFICES ASSUME NEW s \in Session
                 PROVE  \/ sidModels'[s] = Known(s, i)'
                        \/ \E j \in ChangesOf(s, i, fed)' : written'[j].model = sidModels'[s]
      BY <1>1, <1>2, <1>3, <1>6 DEF KnowsUpTo
    <3>1. /\ ChangesOf(s, i, fed)' = ChangesOf(s, i, fed')
          /\ Known(s, i)' = Known(s, i)
      BY <1>1 DEF ChangesOf, ChangedAt, Known
    <3>0. ~ChangedAt(s, i)
      BY <2>1 DEF ChangedAt
    <3>2. ChangesOf(s, since, i) = ChangesOf(s, since, n)
          /\ ChangesOf(s, n, fed) = ChangesOf(s, i, fed)
      BY <1>2, <1>3, <3>0, NoChange
    <3>3. \A j \in ChangesOf(s, i, fed) : j \in ChangesOf(s, i, fed')
      <4>1. \A j \in (i + 1)..fed : j \in (i + 1)..fed'
        BY <1>2, <1>3, <1>6
      <4> QED
        BY <4>1 DEF ChangesOf, ChangedAt
    <3>4. sidModels[s] = Known(s, n) \/ \E j \in ChangesOf(s, n, fed) : written[j].model = sidModels[s]
      BY <1>4 DEF KnowsUpTo
    <3> QED
      BY <1>1, <1>11, <3>1, <3>2, <3>3, <3>4 DEF Known
  <2>7. MemoryInv'
    BY <1>1, <1>5, <2>6 DEF MemoryInv, GrokInv
  <2>8. RowsExplained'
    <3>1. row.line <= Len(written) /\ row.fed <= Len(written)
      BY <1>2, <1>3
    <3> QED
      BY <1>1, <2>2, <2>5, <3>1, LinesSame DEF RowsExplained, GrokInv
  <2> QED
    BY <1>8, <1>9, <2>4, <2>7, <2>8 DEF GrokInv
<1> QED
  BY <1>3, <1>10, <1>11 DEF ParseGrokLine

LEMMA GrokStuttering ==
  ASSUME GrokInv, UNCHANGED grokVars
  PROVE  GrokInv'
<1>1. UNCHANGED <<written, opened, config, requests, watermark, step, place, pending,
                  sidModels, fallback, since, fed, defaults, offered, unread>>
  BY DEF grokVars, logVars, dbVars, memory
<1>2. GrokTypeOK' /\ PlacesInv' /\ ConfigInv'
  BY <1>1 DEF GrokInv, GrokTypeOK, PlacesInv, InLog, LogLength, InRound, ConfigInv
<1>3. MemoryInv'
  BY <1>1, KnowsSame DEF MemoryInv, InRound, GrokInv
<1>4. RowsExplained'
  BY <1>1, LinesSame DEF RowsExplained, GrokInv
<1> QED
  BY <1>2, <1>3, <1>4 DEF GrokInv

(* GrokInv is inductive.                                                   *)
THEOREM GrokInvariant == GrokSpec => []GrokInv
<1>1. GrokInv /\ [GrokNext]_grokVars => GrokInv'
  <2> SUFFICES ASSUME GrokInv, [GrokNext]_grokVars PROVE GrokInv'
    OBVIOUS
  <2>1. ASSUME NEW s \in Session, InferenceDone(s) PROVE GrokInv'
    BY <2>1, LogStep DEF InferenceDone, Entry
  <2>2. ASSUME NEW s \in Session, NEW m \in GrokModel, ModelChanged(s, m) PROVE GrokInv'
    BY <2>2, LogStep DEF ModelChanged, Entry
  <2>3. CASE Rotate
    BY <2>3, RotateStep
  <2>4. ASSUME NEW m \in Default, EditConfig(m) PROVE GrokInv'
    BY <2>4, EditConfigStep
  <2>5. CASE Baseline
    BY <2>5, BaselineStep
  <2>6. CASE BeginGrok
    BY <2>6, BeginGrokStep
  <2>7. CASE Forget
    BY <2>7, ForgetStep
  <2>8. CASE ParseGrokLine
    BY <2>8, ParseGrokLineStep
  <2>9. CASE EndOfLog \/ InsertRequests
    BY <2>9, RestOfRoundStep
  <2>10. CASE SaveWatermark \/ GrokRoundFailed
    BY <2>10, EndOfRoundStep
  <2>11. CASE GrokRestart
    BY <2>11, GrokRestartStep
  <2>12. CASE UNCHANGED grokVars
    BY <2>12, GrokStuttering
  <2>13. CASE ReadConfig
    BY <2>13, ReadConfigStep
  <2> QED
    BY <2>1, <2>2, <2>3, <2>4, <2>5, <2>6, <2>7, <2>8, <2>9, <2>10, <2>11, <2>12, <2>13
    DEF GrokNext
<1> QED
  BY <1>1, GrokInitial, PTL DEF GrokSpec

(* A request carries the last model of its own session that the memory can *)
(* know, the configured default if there is none, or, for a line read      *)
(* again, a later model of its session; while config.toml cannot be read,  *)
(* none or a default it has had (grok.rs:32-37, 118-157; mod.rs:326-338).  *)
THEOREM GrokAttributedHolds == GrokSpec => []GrokAttributed
<1>1. GrokInv => GrokAttributed
  BY DEF GrokInv, RowsExplained, GrokAttributed
<1> QED
  BY <1>1, GrokInvariant, PTL
=============================================================================
