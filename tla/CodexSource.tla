----------------------------- MODULE CodexSource -----------------------------
(***************************************************************************)
(* How one Codex rollout file becomes rows of usage_event (codex.rs).      *)
(* Usage lines carry neither an id nor a model: the row's key is the place *)
(* of the line, its model the one of the turn it belongs to, and an        *)
(* inference may be reported twice, by a token_usage_record and then by a  *)
(* token_count.  The parser keeps what it needs in memory, loses it when   *)
(* the collector restarts and rebuilds it from the head of the file.       *)
(*                                                                         *)
(* The file only grows here and offsets are whole lines: rotation, half    *)
(* lines and chunks of several lines are in TailCollect.                   *)
(***************************************************************************)
EXTENDS Integers, Sequences, FiniteSets, FiniteSetsExt

CONSTANTS
  Model,      \* model names
  MaxLine,    \* bound: lines of the rollout
  HeadLines,  \* lines within RECOVER_SCAN_LIMIT
  BatchLimit, \* events that trigger an insert in the middle of a round
  Records,    \* whether this Codex writes token_usage_record lines
  Mentions,   \* whether the conversation may quote the name of that envelope
  History,    \* the file may be older than the collector's first round
  Restarts,   \* the collector may be killed and restarted
  HeadFails,  \* the head of the file may be unreadable
  DbFails     \* statements on the collector's database may fail

NoModel == "none"

ASSUME CodexAssumption ==
  /\ NoModel \notin Model
  /\ MaxLine \in Nat /\ HeadLines \in Nat \ {0} /\ BatchLimit \in Nat \ {0}
  /\ {Records, Mentions, History, Restarts, HeadFails, DbFails} \subseteq BOOLEAN

VARIABLES
  log,      \* the rollout: a sequence of lines
  rows,     \* usage_event
  saved,    \* watermark in collect_offset: lines consumed
  base,     \* history: the lines before the first round
  pc,       \* the collector's step
  pos,      \* lines consumed in this round
  upto,     \* lines the file had when the round looked at it
  batch,    \* rows parsed and not yet inserted
  model,    \* CodexState::models
  session,  \* CodexState::sessions has the file
  scanned,  \* CodexState::scanned_heads has the file: the lines before the row
            \* that had it scanned, or 0
  recorded, \* CodexState::seen_usage_records has the file
  reread    \* history: lines a failed round had parsed

round == <<pos, upto, batch>>
state == <<model, session, scanned, recorded>>
vars == <<log, rows, saved, base, pc, round, state, reread>>

(* A line: its envelope; the inference it reports, or 0; the model of a    *)
(* turn_context that has one.                                              *)
Kind == {"session_meta", "turn_context", "token_usage_record", "token_count",
         "quote"}
Lines == [kind : Kind, call : 0..MaxLine, model : Model \cup {NoModel}]

(* A row; "scan" and "blind": what `scanned' was, and whether a scan had   *)
(* been due and found the head unreadable.                                 *)
Row == [at : 1..MaxLine, call : 1..MaxLine, model : Model \cup {NoModel},
        session : BOOLEAN, scan : 0..MaxLine, blind : BOOLEAN]

TypeOK ==
  /\ log \in Seq(Lines) /\ Len(log) <= MaxLine
  /\ rows \subseteq Row
  /\ saved \in 0..Len(log)
  /\ base \in 0..Len(log)
  /\ pc \in {"new", "idle", "parse", "flush", "insert", "save"}
  /\ upto \in 0..Len(log) /\ pos \in 0..upto
  /\ batch \subseteq Row
  /\ model \in Model \cup {NoModel}
  /\ {session, recorded} \subseteq BOOLEAN
  /\ scanned \in 0..Len(log)
  /\ reread \subseteq 1..Len(log)

(* What a new process knows.                                               *)
Forgotten(m, s, h, r) == m = NoModel /\ s = FALSE /\ h = 0 /\ r = FALSE
Idle(p, u, b) == p = 0 /\ u = 0 /\ b = {}

Init ==
  /\ log = <<>> /\ rows = {} /\ saved = 0 /\ base = 0
  /\ pc = "new"
  /\ Idle(pos, upto, batch)
  /\ Forgotten(model, session, scanned, recorded)
  /\ reread = {}

-----------------------------------------------------------------------------
(* The Codex client: a rollout opens with session_meta, a turn begins with *)
(* its turn_context, and inferences happen in turns.                       *)
Wrote(k) == \E i \in 1..Len(log) : log[i].kind = k
Calls == {log[i].call : i \in 1..Len(log)} \ {0}
Reported(n, k) == \E i \in 1..Len(log) : log[i].call = n /\ log[i].kind = k
NextCall == Cardinality(Calls) + 1

Write(line) ==
  /\ Len(log) < MaxLine
  /\ log' = Append(log, line)
  /\ UNCHANGED <<rows, saved, base, pc, round, state, reread>>

WriteMeta ==
  /\ log = <<>>
  /\ Write([kind |-> "session_meta", call |-> 0, model |-> NoModel])

WriteTurn(m) ==
  /\ log # <<>>
  /\ Write([kind |-> "turn_context", call |-> 0, model |-> m])

WriteQuote ==
  /\ Mentions /\ log # <<>>
  /\ Write([kind |-> "quote", call |-> 0, model |-> NoModel])

(* An inference is reported by its record first, by its count afterwards.  *)
(* A file begun by an older client has counts alone before its first       *)
(* record.                                                                 *)
WriteRecord ==
  /\ Records
  /\ Wrote("turn_context")
  /\ Write([kind |-> "token_usage_record", call |-> NextCall, model |-> NoModel])

WriteCount ==
  /\ Wrote("turn_context")
  /\ \/ /\ Reported(NextCall - 1, "token_usage_record")
        /\ ~Reported(NextCall - 1, "token_count")
        /\ Write([kind |-> "token_count", call |-> NextCall - 1, model |-> NoModel])
     \/ /\ ~Wrote("token_usage_record")
        /\ Write([kind |-> "token_count", call |-> NextCall, model |-> NoModel])

-----------------------------------------------------------------------------
(* The collector's first round: an old file is history, a live one is not. *)
FirstRound ==
  /\ pc = "new"
  /\ \E n \in IF History THEN {0, Len(log)} ELSE {0} : saved' = n /\ base' = n
  /\ pc' = "idle"
  /\ UNCHANGED <<log, rows, round, state, reread>>

BeginRound ==
  /\ pc = "idle"
  /\ pc' = IF saved < Len(log) THEN "parse" ELSE "insert"
  /\ pos' = saved
  /\ upto' = Len(log)
  /\ UNCHANGED <<log, rows, saved, base, batch, state, reread>>

(* extract_latest_model: the model of the last turn_context of a prefix.   *)
LatestModel(n) ==
  LET turns == {i \in 1..n : log[i].kind = "turn_context" /\ log[i].model # NoModel}
  IN  IF turns = {} THEN NoModel ELSE log[Max(turns)].model

(* Mutant of Scans: a missing session alone does not start a scan.         *)
ScansForModel(hasSession) == model = NoModel /\ scanned = 0

(* The head scan before an event: when the model or the session is missing *)
(* and no scan has succeeded.  It finds any mention of the envelope.       *)
Scans(hasSession) == (model = NoModel \/ ~hasSession) /\ scanned = 0
HeadEnd == IF pos < HeadLines THEN pos ELSE HeadLines
Quoted == \E i \in 1..HeadEnd : log[i].kind \in {"token_usage_record", "quote"}
HasSession == \E i \in 1..HeadEnd : log[i].kind = "session_meta"

(* An empty or unreadable head teaches nothing; the next event tries again.*)
Recovered(hasSession, readable) ==
  IF Scans(hasSession) /\ pos > 0 /\ readable
  THEN [model    |-> IF LatestModel(HeadEnd) # NoModel THEN LatestModel(HeadEnd) ELSE model,
        session  |-> hasSession \/ HasSession,
        scanned  |-> pos,
        recorded |-> Quoted]
  ELSE [model |-> model, session |-> hasSession, scanned |-> scanned,
        recorded |-> FALSE]

(* A usage line becomes a row with the model and session known by then; a  *)
(* record names its session itself.                                        *)
Collect(line, record) ==
  \E readable \in IF HeadFails THEN BOOLEAN ELSE {TRUE} :
    LET known == Recovered(session \/ record, readable) IN
    /\ batch' = batch \cup {[at |-> pos + 1, call |-> line.call,
                             model |-> known.model, session |-> known.session,
                             scan |-> known.scanned,
                             blind |-> Scans(session \/ record) /\ known.scanned = 0]}
    /\ model' = known.model
    /\ session' = known.session
    /\ scanned' = known.scanned
    /\ recorded' = (recorded \/ record \/ known.recorded)

(* Mutant of Parse: a token_count is taken whatever has been seen before.  *)
ParseBoth(line) ==
  \/ /\ line.kind = "session_meta"
     /\ session' = TRUE
     /\ UNCHANGED <<batch, model, scanned, recorded>>
  \/ /\ line.kind = "turn_context"
     /\ model' = IF line.model # NoModel THEN line.model ELSE model
     /\ UNCHANGED <<batch, session, scanned, recorded>>
  \/ /\ line.call # 0
     /\ Collect(line, line.kind = "token_usage_record")
  \/ /\ line.kind = "quote"
     /\ UNCHANGED <<batch, state>>

(* parse_line.                                                             *)
Parse(line) ==
  \/ /\ line.kind = "session_meta"
     /\ session' = TRUE
     /\ UNCHANGED <<batch, model, scanned, recorded>>
  \/ /\ line.kind = "turn_context"
     /\ model' = IF line.model # NoModel THEN line.model ELSE model
     /\ UNCHANGED <<batch, session, scanned, recorded>>
  \/ /\ line.kind = "token_usage_record"
     /\ Collect(line, TRUE)
  \/ /\ line.kind = "token_count" /\ ~recorded
     /\ Collect(line, FALSE)
  \/ /\ line.kind = "quote" \/ (line.kind = "token_count" /\ recorded)
     /\ UNCHANGED <<batch, state>>

ParseLine ==
  /\ pc = "parse"
  /\ Parse(log[pos + 1])
  /\ pos' = pos + 1
  /\ pc' = IF Cardinality(batch') >= BatchLimit THEN "flush"
           ELSE IF pos + 1 < upto THEN "parse" ELSE "insert"
  /\ UNCHANGED <<log, rows, saved, base, upto, reread>>

(* INSERT OR IGNORE: the first row of a place stays.                       *)
InsertRows ==
  /\ rows' = rows \cup {r \in batch : \A old \in rows : old.at # r.at}
  /\ batch' = {}
  /\ UNCHANGED <<log, saved, base, pos, upto, state, reread>>

InsertMidRound ==
  /\ pc = "flush"
  /\ pc' = IF pos < upto THEN "parse" ELSE "insert"
  /\ InsertRows

InsertLast ==
  /\ pc = "insert"
  /\ pc' = "save"
  /\ InsertRows

(* Mutant of SaveOffset: the size of the file is saved, not what has been  *)
(* consumed of it.                                                         *)
SaveSize ==
  /\ pc = "save"
  /\ pc' = "idle"
  /\ saved' = Len(log)
  /\ Idle(pos', upto', batch')
  /\ UNCHANGED <<log, rows, base, state, reread>>

SaveOffset ==
  /\ pc = "save"
  /\ pc' = "idle"
  /\ saved' = pos
  /\ Idle(pos', upto', batch')
  /\ UNCHANGED <<log, rows, base, state, reread>>

(* A statement fails: the round is dropped, but not what the parser learnt.*)
RoundFailed ==
  /\ DbFails
  /\ pc \in {"flush", "insert", "save"}
  /\ pc' = "idle"
  /\ Idle(pos', upto', batch')
  /\ reread' = reread \cup ((saved + 1)..pos)
  /\ UNCHANGED <<log, rows, saved, base, state>>

Restart ==
  /\ Restarts
  /\ pc # "new"
  /\ pc' = "idle"
  /\ Idle(pos', upto', batch')
  /\ Forgotten(model', session', scanned', recorded')
  /\ UNCHANGED <<log, rows, saved, base, reread>>

Next ==
  \/ WriteMeta
  \/ \E m \in Model \cup {NoModel} : WriteTurn(m)
  \/ WriteQuote
  \/ WriteRecord
  \/ WriteCount
  \/ FirstRound
  \/ BeginRound
  \/ ParseLine
  \/ InsertMidRound
  \/ InsertLast
  \/ SaveOffset
  \/ RoundFailed
  \/ Restart

Spec == Init /\ [][Next]_vars

-----------------------------------------------------------------------------
(* "When present, token_count events are ignored to prevent double         *)
(* counting" (codex.rs:58-59).                                             *)
NeverTwice == \A r1, r2 \in rows : r1.call = r2.call => r1 = r2

(* As far as it is true: an inference is stored twice only when the row of *)
(* its token_count is the one that had the head scanned, or could not have *)
(* it scanned, or when the record lies between the head and that row.      *)
CountedOnce ==
  \A r1, r2 \in rows : r1.call = r2.call /\ r1.at < r2.at =>
    \/ r2.blind \/ r2.scan = r2.at - 1
    \/ HeadLines < r1.at /\ r1.at <= r2.scan

(* A line that was parsed, and parsed again with what the parser had learnt*)
(* meanwhile from a later line of that kind.                               *)
Overtaken(i, kind) == \E j \in reread : i < j /\ log[j].kind = kind

(* A count that follows a quotation of the record's name, or is parsed     *)
(* again behind one.                                                       *)
Misled(i) ==
  /\ log[i].kind = "token_count"
  /\ Overtaken(i, "quote") \/ \E j \in 1..i : log[j].kind = "quote"

(* Every inference the watermark has passed is stored, unless the file was *)
(* history by then, its count was overtaken by a record, or the name of    *)
(* that record is quoted before it.                                        *)
NoneLost ==
  \A i \in (base + 1)..saved :
    /\ log[i].call # 0 /\ (\A j \in 1..base : log[j].call # log[i].call)
    /\ ~Overtaken(i, "token_usage_record") /\ ~Misled(i)
    => \E r \in rows : r.call = log[i].call

(* A row made by a process whose head scan ended before the line where it  *)
(* stood: it has the model of the head until the next turn_context.        *)
HeadOnly(r) ==
  /\ HeadLines < r.scan
  /\ r.model = LatestModel(HeadLines)
  /\ \A i \in (r.scan + 1)..r.at : log[i].kind # "turn_context" \/ log[i].model = NoModel

(* A row belongs to the session of its file and carries the model of "the  *)
(* most recent preceding turn_context in the same file" (codex.rs:30-32),  *)
(* whether the parser has followed the file or recovered from its head,    *)
(* unless a turn_context had overtaken it or lies beyond the head; only    *)
(* where the head was unreadable may either be missing.                    *)
Attributed ==
  \A r \in rows :
    /\ r.session \/ r.blind
    /\ \/ r.model = LatestModel(r.at) \/ Overtaken(r.at, "turn_context")
       \/ HeadOnly(r)
       \/ r.blind /\ r.model = NoModel

(* Once a model is known only a turn_context replaces it by another: the   *)
(* head scan must not bring back an older one (codex.rs:30-32, and         *)
(* codex.rs:149-150, "must not erase a known good model").  It does not    *)
(* hold when a turn lies beyond HeadLines.                                 *)
OnlyTurnsChangeModel ==
  [][model # NoModel /\ model' \notin {NoModel, model}
     => log[pos + 1].kind = "turn_context"]_vars
=============================================================================
