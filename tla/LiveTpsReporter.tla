---------------------------- MODULE LiveTpsReporter ----------------------------
(***************************************************************************)
(* The reporter of one agent pane (live-tps-reporter.mjs): it keeps the    *)
(* model, the display name and the rate, publishes what changes, repeats   *)
(* everything every two seconds, and clears the row when it closes.  The   *)
(* OMP extension may then open another one over the same publisher.        *)
(* The meter behind it is TokenRateMeter; here a sample is a rate or none. *)
(***************************************************************************)
EXTENDS MetadataPublisher

CONSTANT MaxSaid   \* bound: things said of one field

ASSUME ReporterAssumption ==
  /\ Field = {"model", "tps", "agent"}
  /\ MaxSaid \in Nat

VARIABLES
  open,      \* a reporter is open
  killed,    \* the process was killed
  known,     \* the fields with a value: currentModel and displayAgent
  fast,      \* lastRate is above zero
  said       \* the number of the last thing said of each field

reporterVars == <<open, killed, known, fast, said>>
vars == <<publisherVars, reporterVars>>

ReporterInit ==
  /\ open = FALSE /\ killed = FALSE /\ known = {} /\ fast = FALSE
  /\ said = [f \in Field |-> 0]

SayMore(fields) ==
  /\ \A f \in fields : said[f] < MaxSaid
  /\ said' = [f \in Field |-> IF f \in fields THEN said[f] + 1 ELSE said[f]]

(* Mutant: a model is published for good.                                  *)
PublishModelForGood == Main([f \in {"model"} |-> Value(said'[f])], "none", FALSE)

PublishModel == Main([f \in {"model"} |-> Value(said'[f])], "long", FALSE)
PublishZero == Main([f \in {"tps"} |-> Value(said'[f])], "long", FALSE)
PublishRate == Main([f \in {"tps"} |-> Value(said'[f])], "short", FALSE)
PublishAgent == Main([f \in {"agent"} |-> Value(said'[f])], "long", TRUE)
ClearModel == Main([f \in {"model"} |-> Null(said'[f])], "none", FALSE)

-----------------------------------------------------------------------------
(* The constructor: resetForAgent clears what former versions and agents   *)
(* left, and starts the rate at zero.                                      *)
Open ==
  /\ ~open /\ ~killed
  /\ open' = TRUE /\ known' = {} /\ fast' = FALSE
  /\ UNCHANGED killed
  /\ SayMore(Field)
  /\ Publish(<<LegacyClear,
               Main([f \in Field |-> IF f = "tps" THEN Value(said'[f]) ELSE Null(said'[f])],
                    "long", FALSE)>>)

(* Another model restarts the meter: the rate goes to zero first.          *)
SetModel ==
  /\ open
  /\ known' = known \cup {"model"} /\ fast' = FALSE
  /\ SayMore({"model"} \cup IF fast THEN {"tps"} ELSE {})
  /\ Publish(IF fast THEN <<PublishZero, PublishModel>> ELSE <<PublishModel>>)
  /\ UNCHANGED <<open, killed>>
SetDisplayAgent ==
  /\ open
  /\ known' = known \cup {"agent"}
  /\ SayMore({"agent"})
  /\ Publish(<<PublishAgent>>)
  /\ UNCHANGED <<open, killed, fast>>

(* Another conversation: no rate, no model.                                *)
ResetSession ==
  /\ open
  /\ known' = known \ {"model"} /\ fast' = FALSE
  /\ SayMore({"model"} \cup IF fast THEN {"tps"} ELSE {})
  /\ Publish(IF fast THEN <<PublishZero, ClearModel>> ELSE <<ClearModel>>)
  /\ UNCHANGED <<open, killed>>

(* start, append, tick and pause: a sample, another one, or none.          *)
ShowRate ==
  /\ open
  /\ fast' = TRUE
  /\ SayMore({"tps"})
  /\ Publish(<<PublishRate>>)
  /\ UNCHANGED <<open, killed, known>>
ShowZero ==
  /\ open /\ fast
  /\ fast' = FALSE
  /\ SayMore({"tps"})
  /\ Publish(<<PublishZero>>)
  /\ UNCHANGED <<open, killed, known>>

(* The heartbeat says what has been said once more.                        *)
RefreshMetadata ==
  /\ open
  /\ Publish(<<Main([f \in known \cup {"tps"} |-> Value(said[f])],
                    IF fast THEN "short" ELSE "long", "agent" \in known)>>)
  /\ UNCHANGED reporterVars

Close ==
  /\ open
  /\ open' = FALSE /\ known' = {} /\ fast' = FALSE
  /\ UNCHANGED killed
  /\ SayMore(Field)
  /\ ClearAll([f \in Field |-> Null(said'[f])])

(* The process is killed: what it has not sent is gone.                    *)
Killed ==
  /\ open
  /\ open' = FALSE /\ killed' = TRUE /\ known' = {} /\ fast' = FALSE
  /\ pending' = <<>> /\ waiting' = FALSE
  /\ UNCHANGED <<lastSeq, wire, row, legacy, said>>

ReporterStep ==
  \/ Open \/ SetModel \/ SetDisplayAgent \/ ResetSession
  \/ ShowRate \/ ShowZero \/ RefreshMetadata \/ Close \/ Killed

Init == PublisherInit /\ ReporterInit
Next == ReporterStep \/ (PublisherStep /\ UNCHANGED reporterVars)

(* The queue is worked off, a request's fate is settled, time passes.      *)
Fairness ==
  /\ WF_vars((SendNext \/ DropExpired \/ Settled) /\ UNCHANGED reporterVars)
  /\ WF_vars((\E entry \in wire : Receive(entry) \/ Lose(entry)) /\ UNCHANGED reporterVars)
  /\ \A f \in Field : WF_vars(Expire(f) /\ UNCHANGED reporterVars)

Spec == Init /\ [][Next]_vars /\ Fairness

-----------------------------------------------------------------------------
(* The row keeps what MetadataBoard promises, over a queue that reorders   *)
(* and drops, a connection that delays and loses, and a clock set back     *)
(* (herdr-metadata-publisher.mjs:159).                                     *)
Board == INSTANCE MetadataBoard WITH
  Field <- Field, said <- said, taken <- row.taken, shown <- row.shown
RowKeepsPromise == Board!BoardSpec

(* "wrapper 即使被强制终止，遗留 metadata 也会自动消失" (README.md:27): an agent   *)
(* that has closed or was killed leaves nothing behind, though every       *)
(* request of its last moments may be lost.                                *)
BlankAfterEnd == <>[]~open => <>[](\A f \in Field : row.shown[f] = 0)
=============================================================================
