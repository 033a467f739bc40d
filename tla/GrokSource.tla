------------------------------ MODULE GrokSource ------------------------------
(***************************************************************************)
(* The grok source (grok.rs, round_grok and refresh_grok_config in         *)
(* sources/mod.rs).  One log serves all sessions.  A usage line names its  *)
(* session but no model: the model is that of the session's last "model    *)
(* changed" line, which the parser keeps in memory, or the default of      *)
(* config.toml, read again when its mtime has moved.  The memory is lost   *)
(* by a restart, emptied when the log is rotated, and kept when a round    *)
(* fails, although the lines of that round are read again.                 *)
(*                                                                         *)
(* Offsets are whole lines; half lines and chunks are in TailCollect, and  *)
(* so is a log replaced by one that is not shorter than what had been read,*)
(* which the collector does not notice: here it always is.  Each edit of   *)
(* config.toml has an mtime of its own, and its removal is a failed read.  *)
(***************************************************************************)
EXTENDS Integers, Sequences, FiniteSetsExt

CONSTANTS
  Session,      \* grok sessions
  GrokModel,    \* model names
  MaxWritten,   \* bound: lines in all logs
  MaxEdits,     \* bound: edits of config.toml
  FullBatch,    \* events that trigger an insert in the middle of a round
  Rotations,    \* the log may be rotated
  ConfigFails,  \* config.toml may be unreadable, or its mtime
  GrokRestarts, \* the collector may be killed and restarted
  GrokFails     \* statements on the collector's database may fail

Unnamed == "none"

ASSUME GrokAssumption ==
  /\ Unnamed \notin GrokModel
  /\ {MaxWritten, MaxEdits} \subseteq Nat /\ FullBatch \in Nat \ {0}
  /\ {Rotations, ConfigFails, GrokRestarts, GrokFails} \subseteq BOOLEAN

VARIABLES
  written,    \* the lines of all logs, oldest first
  opened,     \* the lines of written before those of the current log
  config,     \* config.toml: when it was written, and its default model
  requests,   \* grok's rows of usage_event
  watermark,  \* lines consumed, saved in collect_offset, and of which log
  step,       \* the collector's step
  place,      \* lines consumed by this round, and of which log
  pending,    \* rows parsed and not yet inserted
  sidModels,  \* GrokState::sid_models
  fallback,   \* grok_config_mtime and GrokState::default_model
  defaults,   \* history: the defaults this round may know
  offered,    \* history: the defaults that config.toml has had
  unread,     \* history: the last look at config.toml failed
  since,      \* history: the lines before those the memory can know
  fed         \* history: the last line it was fed

logVars == <<written, opened, config, offered>>
dbVars == <<requests, watermark>>
memory == <<sidModels, fallback, unread, since, fed>>
grokVars == <<logVars, dbVars, step, place, pending, memory, defaults>>

Default == GrokModel \cup {Unnamed}
Config == [mtime : 0..MaxEdits, model : Default]
Entry == [kind : {"model changed"}, sid : Session, model : GrokModel]
         \cup [kind : {"inference_done"}, sid : Session, model : {Unnamed}]

(* Lines of the log that was opened after so many lines.                   *)
Place == [log : 0..MaxWritten, line : 0..MaxWritten]

(* A row, and what was known when it was parsed.                           *)
GrokRow ==
  [line : 1..MaxWritten, sid : Session, model : Default,
   source : {"event", "config_fallback", Unnamed},
   defaults : SUBSET Default, since : 0..MaxWritten, fed : 0..MaxWritten]

GrokTypeOK ==
  /\ written \in Seq(Entry) /\ Len(written) <= MaxWritten
  /\ opened \in 0..Len(written)
  /\ {config, fallback} \subseteq Config
  /\ requests \subseteq GrokRow /\ pending \subseteq GrokRow
  /\ {watermark, place} \subseteq Place
  /\ step \in {"new", "idle", "config", "read", "flush", "insert", "save"}
  /\ sidModels \in [Session -> Default]
  /\ defaults \subseteq Default /\ offered \subseteq Default /\ unread \in BOOLEAN
  /\ {since, fed} \subseteq 0..Len(written)

NoConfig == [mtime |-> 0, model |-> Unnamed]
Empty == [s \in Session |-> Unnamed]
NoPlace == [log |-> 0, line |-> 0]
Resting(p, b, d) == p = NoPlace /\ b = {} /\ d = {}

GrokInit ==
  /\ written = <<>> /\ opened = 0 /\ config = NoConfig /\ offered = {Unnamed}
  /\ requests = {} /\ watermark = NoPlace
  /\ step = "new"
  /\ Resting(place, pending, defaults)
  /\ sidModels = Empty /\ fallback = NoConfig /\ unread = FALSE
  /\ since = 0 /\ fed = 0

-----------------------------------------------------------------------------
(* Grok's side.  A log that replaces another stays shorter than what was   *)
(* read of that one until the collector has seen it.                       *)
LogLength == Len(written) - opened
Shorter(n, p) == p.log = opened \/ n < p.line
InRound == step \in {"config", "read", "flush", "insert", "save"}

Log(line) ==
  /\ Len(written) < MaxWritten
  /\ Shorter(LogLength + 1, watermark)
  /\ InRound => Shorter(LogLength + 1, place)
  /\ written' = Append(written, line)
  /\ UNCHANGED <<opened, config, offered, dbVars, step, place, pending, memory, defaults>>

ModelChanged(s, m) == Log([kind |-> "model changed", sid |-> s, model |-> m])
InferenceDone(s) == Log([kind |-> "inference_done", sid |-> s, model |-> Unnamed])

Rotate ==
  /\ Rotations
  /\ opened < Len(written)
  /\ watermark.line > 0 /\ (InRound => place.line > 0)
  /\ opened' = Len(written)
  /\ UNCHANGED <<written, config, offered, dbVars, step, place, pending, memory, defaults>>

EditConfig(m) ==
  /\ config.mtime < MaxEdits
  /\ config' = [mtime |-> config.mtime + 1, model |-> m]
  /\ offered' = offered \cup {m}
  /\ UNCHANGED <<written, opened, dbVars, step, place, pending, memory, defaults>>

-----------------------------------------------------------------------------
(* The first round: what the log holds by then is history, unless it is of *)
(* the last minutes.  The memory starts there.                             *)
Baseline ==
  /\ step = "new"
  /\ \E n \in {0, LogLength} :
       /\ watermark' = [log |-> opened, line |-> n]
       /\ since' = opened + n /\ fed' = opened + n
  /\ step' = "idle"
  /\ UNCHANGED <<logVars, requests, place, pending, sidModels, fallback, unread, defaults>>

(* The defaults a row may carry: the one configured, or one that the file  *)
(* has had when the last look at it failed.                                *)
DefaultsIf(failed) == IF failed THEN offered ELSE {config.model}

(* refresh_grok_config.  The mtime is kept before the file is read: when   *)
(* that fails there is no default, until the mtime moves again.            *)
BeginGrok ==
  /\ step = "idle"
  /\ \E seen \in {config.mtime} \cup (IF ConfigFails THEN {0} ELSE {}) :
       /\ fallback' = [fallback EXCEPT !.mtime = seen]
       /\ step' = IF seen = fallback.mtime THEN "read" ELSE "config"
       /\ unread' = (unread \/ seen # config.mtime)
  /\ defaults' = DefaultsIf(unread')
  /\ place' = watermark
  /\ UNCHANGED <<logVars, dbVars, pending, sidModels, since, fed>>

ReadConfig ==
  /\ step = "config"
  /\ step' = "read"
  /\ \E ok \in IF ConfigFails THEN BOOLEAN ELSE {TRUE} :
       /\ fallback' = [fallback EXCEPT !.model = IF ok THEN config.model ELSE Unnamed]
       /\ unread' = ~ok
  /\ defaults' = DefaultsIf(unread')
  /\ UNCHANGED <<logVars, dbVars, place, pending, sidModels, since, fed>>

(* A log shorter than what was read of it has been rotated: it is read from*)
(* its start, and the parser forgets.                                      *)
Forget ==
  /\ step = "read"
  /\ LogLength < place.line
  /\ place' = [log |-> opened, line |-> 0]
  /\ sidModels' = Empty
  /\ since' = opened /\ fed' = opened
  /\ UNCHANGED <<logVars, dbVars, step, pending, fallback, unread, defaults>>

(* The model of a usage line, and where it comes from.                     *)
ModelOf(s) ==
  IF sidModels[s] # Unnamed
  THEN [model |-> sidModels[s], source |-> "event"]
  ELSE [model |-> fallback.model,
        source |-> IF fallback.model = Unnamed THEN Unnamed ELSE "config_fallback"]

(* Mutant of RecordModelChange: the log has one model, whoever changes it. *)
RecordModelForAll(line) == sidModels' = [s \in Session |-> line.model]

(* record_model_change.                                                    *)
RecordModelChange(line) == sidModels' = [sidModels EXCEPT ![line.sid] = line.model]

ParseInferenceDone(line, i) ==
  LET known == ModelOf(line.sid) IN
  pending' = pending \cup
    {[line |-> i, sid |-> line.sid, model |-> known.model, source |-> known.source,
      defaults |-> defaults, since |-> since, fed |-> fed]}

(* parse_line, on the next line of the log.                                *)
ParseGrokLine ==
  /\ step = "read"
  /\ place.line < LogLength
  /\ LET i == opened + place.line + 1
         line == written[i]
     IN  /\ \/ /\ line.kind = "model changed"
               /\ RecordModelChange(line)
               /\ UNCHANGED pending
            \/ /\ line.kind = "inference_done"
               /\ ParseInferenceDone(line, i)
               /\ UNCHANGED sidModels
         /\ fed' = IF fed < i THEN i ELSE fed
  /\ place' = [place EXCEPT !.line = @ + 1]
  /\ step' = IF Cardinality(pending') >= FullBatch THEN "flush" ELSE "read"
  /\ UNCHANGED <<logVars, dbVars, fallback, unread, since, defaults>>

(* The file is read as far as it went when the round looked at it, or as   *)
(* far as it can be read.                                                  *)
EndOfLog ==
  /\ step = "read"
  /\ step' = "insert"
  /\ UNCHANGED <<logVars, dbVars, place, pending, memory, defaults>>

(* INSERT OR IGNORE: the first row of a line stays.                        *)
InsertRequests ==
  /\ \/ step = "flush" /\ step' = "read"
     \/ step = "insert" /\ step' = "save"
  /\ requests' = requests \cup {r \in pending : \A old \in requests : old.line # r.line}
  /\ pending' = {}
  /\ UNCHANGED <<logVars, watermark, place, memory, defaults>>

SaveWatermark ==
  /\ step = "save"
  /\ step' = "idle"
  /\ watermark' = place
  /\ Resting(place', pending', defaults')
  /\ UNCHANGED <<logVars, requests, memory>>

(* A statement fails: the round is dropped, but not what the parser learnt.*)
GrokRoundFailed ==
  /\ GrokFails
  /\ step \in {"flush", "insert", "save"}
  /\ step' = "idle"
  /\ Resting(place', pending', defaults')
  /\ UNCHANGED <<logVars, dbVars, memory>>

(* The memory of a new process starts where it will read on.               *)
GrokRestart ==
  /\ GrokRestarts
  /\ step # "new"
  /\ step' = "idle"
  /\ Resting(place', pending', defaults')
  /\ sidModels' = Empty /\ fallback' = NoConfig /\ unread' = FALSE
  /\ since' = IF watermark.log = opened THEN opened + watermark.line ELSE opened
  /\ fed' = since'
  /\ UNCHANGED <<logVars, dbVars>>

GrokNext ==
  \/ \E s \in Session : InferenceDone(s) \/ \E m \in GrokModel : ModelChanged(s, m)
  \/ Rotate
  \/ \E m \in Default : EditConfig(m)
  \/ Baseline
  \/ BeginGrok
  \/ ReadConfig
  \/ Forget
  \/ ParseGrokLine
  \/ EndOfLog
  \/ InsertRequests
  \/ SaveWatermark
  \/ GrokRoundFailed
  \/ GrokRestart

GrokSpec == GrokInit /\ [][GrokNext]_grokVars

-----------------------------------------------------------------------------
(* The changes of a session's model on the lines after one, up to another. *)
ChangedAt(s, i) == written[i].kind = "model changed" /\ written[i].sid = s
ChangesOf(s, after, last) == {i \in (after + 1)..last : ChangedAt(s, i)}

(* What a usage line should say when all lines since `after' are known.    *)
Expected(s, after, i, default) ==
  LET changes == ChangesOf(s, after, i) IN
  IF changes # {}
  THEN [model |-> written[Max(changes)].model, source |-> "event"]
  ELSE [model |-> default,
        source |-> IF default = Unnamed THEN Unnamed ELSE "config_fallback"]

Explained(r) ==
  LET said == [model |-> r.model, source |-> r.source] IN
  \/ \E default \in r.defaults : said = Expected(r.sid, r.since, r.line, default)
  \/ /\ r.source = "event"
     /\ \E i \in ChangesOf(r.sid, r.line, r.fed) : written[i].model = r.model

(* "A sid -> model map is fed by every model changed line seen so far in   *)
(* file order; otherwise the injected default is reported" (grok.rs:32-37),*)
(* the one configured when the round looked: a request carries the last    *)
(* model its own session had been given since the memory was last emptied, *)
(* by a restart or a rotation.  A line that is read again after a failed   *)
(* round may carry a later model of its session instead, one that the      *)
(* parser had been fed by then; and while config.toml could not be read,   *)
(* the default is none or one that the file has had.                       *)
GrokAttributed == \A r \in requests : Explained(r)
=============================================================================
