--------------------------- MODULE MetadataPublisher ---------------------------
(***************************************************************************)
(* The queue between an agent's reporter and Herdr                         *)
(* (herdr-metadata-publisher.mjs), and Herdr's side of it as the           *)
(* integration's documents state it: a report older than the last one      *)
(* taken is refused, and a field reported with a time to live goes blank   *)
(* when that is over.                                                      *)
(*                                                                         *)
(* What is said of a field is numbered; a report carries the number and    *)
(* whether it names a value or clears the field.  Numbers stand for the    *)
(* values, so that an old value is told from the new one it equals.        *)
(***************************************************************************)
EXTENDS Integers, Sequences, SequencesExt

CONSTANTS
  Field,     \* the fields of a report: model, tps, display_agent
  Clock,     \* what Date.now() may read, in any order: it may be set back
  MaxSeq     \* bound: the highest sequence number

ASSUME PublisherAssumption ==
  /\ Clock \subseteq Nat /\ Clock # {}
  /\ MaxSeq \in Nat

VARIABLES
  lastSeq,   \* sequences: the last number given out for herdr:tps
  pending,   \* the entries not sent yet, in the order of the Map
  waiting,   \* drain() awaits the answer to a request
  wire,      \* the requests Herdr may yet get to see
  row,       \* what Herdr knows: seq, and shown, taken, mortal of each field
  legacy     \* something a former version reported under its own source shows

publisherVars == <<lastSeq, pending, waiting, wire, row, legacy>>

PublisherInit ==
  /\ lastSeq = 0 /\ pending = <<>> /\ waiting = FALSE /\ wire = {}
  /\ row = [seq |-> 0, shown |-> [f \in Field |-> 0], taken |-> [f \in Field |-> 0],
            mortal |-> {}]
  /\ legacy \in BOOLEAN

-----------------------------------------------------------------------------
(* A thing said of a field, and the absence of one.                        *)
Value(n) == [number |-> n, clear |-> FALSE]
Null(n) == [number |-> n, clear |-> TRUE]

(* What #publishFields is called with.                                     *)
Main(says, ttl, guarded) ==
  [source |-> "tps", says |-> says, ttl |-> ttl, guarded |-> guarded]
LegacyClear ==
  [source |-> "legacy", says |-> [f \in {} |-> Null(0)], ttl |-> "none", guarded |-> FALSE]

(* Entries of one shape replace each other while they wait.                *)
Shape(call) == <<call.source, DOMAIN call.says, call.ttl, call.guarded>>

(* Mutant: reports of one millisecond have one number.                     *)
NextSeqOfClock(last, now) == IF last >= now THEN last ELSE now

(* The clock numbers the reports, and never downwards.                     *)
NextSeq(last, now) == IF last + 1 >= now THEN last + 1 ELSE now

(* pending.delete(key): a Map has at most one entry of a key.              *)
Without(queue, key) ==
  IF \E i \in DOMAIN queue : Shape(queue[i].call) = key
  THEN RemoveAt(queue, CHOOSE i \in DOMAIN queue : Shape(queue[i].call) = key)
  ELSE queue

Enqueue(state, call, now) ==
  LET seq == NextSeq(state.seq, now) IN
  [seq |-> IF call.source = "tps" THEN seq ELSE state.seq,
   queue |-> Append(Without(state.queue, Shape(call)), [call |-> call, seq |-> seq])]

(* One call or two in a row, and the drain they start.                     *)
PublishOnto(queue, calls) ==
  \E now \in Clock :
    LET first == Enqueue([seq |-> lastSeq, queue |-> queue], calls[1], now)
        done == IF Len(calls) = 1 THEN first ELSE Enqueue(first, calls[2], now) IN
    /\ done.seq <= MaxSeq
    /\ lastSeq' = done.seq
    /\ pending' = done.queue
    /\ UNCHANGED <<waiting, wire, row, legacy>>
Publish(calls) == PublishOnto(pending, calls)

(* clearAll: what waits under herdr:tps will not be sent; that leaves at   *)
(* most the clearing of the former versions, which has one key.            *)
Spared == {i \in DOMAIN pending : pending[i].call.source # "tps"}
ClearAll(says) ==
  PublishOnto(IF Spared = {} THEN <<>> ELSE <<pending[CHOOSE i \in Spared : TRUE]>>,
              <<Main(says, "none", FALSE)>>)

(* drain: an entry that outlived its time is dropped, the next one sent;   *)
(* the answer, an error or the timeout ends the wait for it.               *)
DropExpired ==
  /\ pending # <<>> /\ ~waiting
  /\ Head(pending).call.ttl # "none"
  /\ pending' = Tail(pending)
  /\ UNCHANGED <<lastSeq, waiting, wire, row, legacy>>
SendNext ==
  /\ pending # <<>> /\ ~waiting
  /\ pending' = Tail(pending)
  /\ waiting' = TRUE
  /\ wire' = wire \cup {Head(pending)}
  /\ UNCHANGED <<lastSeq, row, legacy>>
Settled ==
  /\ waiting
  /\ waiting' = FALSE
  /\ UNCHANGED <<lastSeq, pending, wire, row, legacy>>

-----------------------------------------------------------------------------
(* Herdr takes a request in, late perhaps, or never sees it.               *)
Accepted(entry) ==
  LET says == entry.call.says IN
  [seq |-> entry.seq,
   shown |-> [f \in Field |-> IF f \notin DOMAIN says THEN row.shown[f]
                              ELSE IF says[f].clear THEN 0 ELSE says[f].number],
   taken |-> [f \in Field |-> IF f \in DOMAIN says THEN says[f].number ELSE row.taken[f]],
   mortal |-> IF entry.call.ttl = "none" THEN row.mortal \ DOMAIN says
              ELSE row.mortal \cup DOMAIN says]
Receive(entry) ==
  /\ entry \in wire
  /\ wire' = wire \ {entry}
  /\ row' = IF entry.call.source = "tps" /\ entry.seq >= row.seq THEN Accepted(entry) ELSE row
  /\ legacy' = (legacy /\ entry.call.source = "tps")
  /\ UNCHANGED <<lastSeq, pending, waiting>>
Lose(entry) ==
  /\ entry \in wire
  /\ wire' = wire \ {entry}
  /\ UNCHANGED <<lastSeq, pending, waiting, row, legacy>>

(* The time to live of a field is over.                                    *)
Expire(f) ==
  /\ f \in row.mortal /\ row.shown[f] # 0
  /\ row' = [row EXCEPT !.shown[f] = 0]
  /\ UNCHANGED <<lastSeq, pending, waiting, wire, legacy>>

PublisherStep ==
  \/ DropExpired \/ SendNext \/ Settled
  \/ \E entry \in wire : Receive(entry) \/ Lose(entry)
  \/ \E f \in Field : Expire(f)
=============================================================================
