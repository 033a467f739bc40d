----------------------------- MODULE CodexObserver -----------------------------
(***************************************************************************)
(* How the wrapper of Codex knows which thread of the App Server is the    *)
(* one on the screen (codex-tps-observer.mjs): it listens to the messages  *)
(* of both directions, asks the server about threads it has not heard of   *)
(* and keeps their messages until the answer, then catches up on them with *)
(* the sequence numbers they had.                                          *)
(***************************************************************************)
EXTENDS Integers, Sequences

CONSTANTS
  Root,         \* threads a user may talk to
  Helper,       \* sub-agents, system threads, title helpers
  Model,
  Nobody,
  MaxBuffered,  \* messages kept while a thread is looked up
  MaxEvents     \* bound: messages observed

ASSUME ObserverAssumption ==
  /\ Root \cap Helper = {} /\ Nobody \notin Root \cup Helper \cup Model
  /\ MaxBuffered \in Nat /\ MaxEvents \in Nat

Thread == Root \cup Helper

VARIABLES
  obs,       \* the observer: see ObserverInit
  sequence,  \* eventSequence
  requests,  \* pendingRequests: thread/start, resume and fork
  reads,     \* thread/read asked and not answered: <<thread, the asking's number>>
  saidOf       \* history: the models that were ever said of a thread

observerVars == <<obs, sequence, requests, reads, saidOf>>

Unknown == [known |-> FALSE, model |-> Nobody, seq |-> 0]

(* `threads' and `pendingModels' in one: a thread is known, or only its    *)
(* model is.  `resolving' is the number of the reading and what waits.     *)
ObserverInit ==
  /\ obs = [threads |-> [t \in Thread |-> Unknown],
            resolving |-> [t \in Thread |-> [read |-> 0, queue |-> <<>>]],
            root |-> Nobody, turn |-> Nobody, model |-> Nobody, active |-> 0,
            shown |-> Nobody]
  /\ sequence = 0 /\ requests = {} /\ reads = {}
  /\ saidOf = [t \in Thread |-> {}]

-----------------------------------------------------------------------------
(* reporter.setModel, start and resetSession, as far as the model goes.    *)
Show(o, model) == IF model = Nobody THEN o ELSE [o EXCEPT !.shown = model]
TakeModel(o, model) == IF model = Nobody THEN o ELSE [Show(o, model) EXCEPT !.model = model]

RememberModel(o, t, model, seq) ==
  IF model = Nobody \/ seq < o.threads[t].seq THEN o
  ELSE [o EXCEPT !.threads[t] = [known |-> @.known, model |-> model, seq |-> seq]]

(* A snapshot of a thread does not replace a model an event has named.     *)
RememberThread(o, t, model) ==
  [o EXCEPT !.threads[t] = [known |-> TRUE, seq |-> @.seq,
                            model |-> IF @.seq > 0 THEN @.model ELSE model]]

Activates(o, t, seq) == o.threads[t].known /\ t \in Root /\ seq >= o.active

(* Mutant: the model of the thread left behind stays.                      *)
ActivateKeepingModel(o, t, seq) ==
  IF ~Activates(o, t, seq) THEN o
  ELSE TakeModel([o EXCEPT !.active = seq, !.root = t,
                          !.turn = IF t = o.root THEN @ ELSE Nobody],
                o.threads[t].model)

(* activateThread: the screen follows; a thread of no model shows none.    *)
ActivateThread(o, t, seq) ==
  IF ~Activates(o, t, seq) THEN o
  ELSE IF t = o.root THEN TakeModel([o EXCEPT !.active = seq], o.threads[t].model)
  ELSE TakeModel([o EXCEPT !.active = seq, !.root = t, !.turn = Nobody, !.model = Nobody,
                          !.shown = IF o.root = Nobody THEN @ ELSE Nobody],
                o.threads[t].model)

-----------------------------------------------------------------------------
(* What the server says of a thread that is known, or of any thread in the *)
(* kinds that need no knowledge.                                           *)
Started(o, msg, seq) ==
  IF ~Activates(o, msg.thread, seq) THEN o
  ELSE LET a == ActivateThread(o, msg.thread, seq) IN Show([a EXCEPT !.turn = msg.turn], a.model)
Completed(o, msg) ==
  IF msg.thread # o.root \/ (o.turn # Nobody /\ o.turn # msg.turn) THEN o
  ELSE [o EXCEPT !.turn = Nobody]
Settings(o, msg, seq) ==
  LET r == RememberModel(o, msg.thread, msg.model, seq)
      a == IF r.root = Nobody THEN ActivateThread(r, msg.thread, seq) ELSE r IN
  IF msg.thread = a.root THEN TakeModel(a, a.threads[msg.thread].model) ELSE a
Rerouted(o, msg, seq) ==
  IF msg.thread # o.root \/ o.turn # msg.turn \/ seq < o.threads[msg.thread].seq THEN o
  ELSE TakeModel(o, msg.model)
Delta(o, msg) ==
  IF msg.thread # o.root \/ (o.turn # Nobody /\ o.turn # msg.turn) THEN o
  ELSE Show(o, o.model)
Closed(o, msg, seq) ==
  LET f == [o EXCEPT !.threads[msg.thread] = Unknown,
                     !.resolving[msg.thread] = [read |-> 0, queue |-> <<>>]] IN
  IF msg.thread # o.root THEN f
  ELSE [f EXCEPT !.root = Nobody, !.turn = Nobody, !.model = Nobody, !.shown = Nobody, !.active = seq]
Announced(o, msg, seq) ==
  LET r == RememberThread(o, msg.thread, msg.model) IN
  IF r.root = Nobody THEN ActivateThread(r, msg.thread, seq) ELSE r

Handle(o, msg, seq) ==
  CASE msg.kind = "started"   -> Started(o, msg, seq)
    [] msg.kind = "completed" -> Completed(o, msg)
    [] msg.kind = "settings"  -> Settings(o, msg, seq)
    [] msg.kind = "rerouted"  -> Rerouted(o, msg, seq)
    [] msg.kind = "delta"     -> Delta(o, msg)
    [] msg.kind = "closed"    -> Closed(o, msg, seq)
    [] msg.kind = "announced" -> Announced(o, msg, seq)

(* A tracked message of an unknown thread waits while the thread is looked *)
(* up; too many and all are given up.                                      *)
Tracked == {"started", "completed", "settings", "rerouted", "delta"}
Buffer(o, t, entry) ==
  IF Len(o.resolving[t].queue) >= MaxBuffered
  THEN [o EXCEPT !.resolving[t] = [read |-> 0, queue |-> <<>>]]
  ELSE [o EXCEPT !.resolving[t] = [read |-> @.read, queue |-> Append(@.queue, entry)]]

(* observeServerEvent; the settings of an unknown thread are remembered    *)
(* even so.                                                                *)
Observe(o, msg, seq) ==
  LET t == msg.thread
      r == IF msg.kind = "settings" THEN Settings(o, msg, seq) ELSE o
      unknown == msg.kind \in Tracked /\ ~r.threads[t].known IN
  IF unknown /\ r.resolving[t].read # 0 THEN Buffer(r, t, [msg |-> msg, seq |-> seq])
  ELSE IF unknown /\ msg.kind = "started"
       THEN [r EXCEPT !.resolving[t] = [read |-> seq, queue |-> <<[msg |-> msg, seq |-> seq]>>]]
  ELSE Handle(o, msg, seq)

(* The messages that waited, with the numbers they had.                    *)
CaughtUp(o, queue) ==
  LET upto[n \in 0..Len(queue)] ==
        IF n = 0 THEN o ELSE Observe(upto[n - 1], queue[n].msg, queue[n].seq)
  IN  upto[Len(queue)]

-----------------------------------------------------------------------------
(* A message of the server about a thread.                                 *)
Message ==
  [kind : {"started", "completed", "delta"}, thread : Thread, turn : Thread]
    \cup [kind : {"settings"}, thread : Thread, model : Model]
    \cup [kind : {"rerouted"}, thread : Thread, turn : Thread, model : Model]
    \cup [kind : {"closed"}, thread : Thread]
    \cup [kind : {"announced"}, thread : Thread, model : Model \cup {Nobody}]

(* A turn is named after its thread: the server mixes nothing up.          *)
Sane(msg) == "turn" \in DOMAIN msg => msg.turn = msg.thread

Says(t, model) == saidOf' = [saidOf EXCEPT ![t] = @ \cup ({model} \ {Nobody})]
ModelOf(msg) == IF "model" \in DOMAIN msg THEN msg.model ELSE Nobody

ServerMessage(msg) ==
  /\ sequence < MaxEvents /\ Sane(msg)
  /\ sequence' = sequence + 1
  /\ obs' = Observe(obs, msg, sequence + 1)
  /\ reads' = IF obs'.resolving[msg.thread].read = sequence + 1
              THEN reads \cup {<<msg.thread, sequence + 1>>} ELSE reads
  /\ Says(msg.thread, ModelOf(msg))
  /\ UNCHANGED requests

(* The user starts a turn, perhaps with another model.                     *)
TurnStart(t, model) ==
  /\ sequence < MaxEvents
  /\ sequence' = sequence + 1
  /\ obs' = ActivateThread(RememberModel(obs, t, model, sequence + 1), t, sequence + 1)
  /\ Says(t, model)
  /\ UNCHANGED <<requests, reads>>

(* The client asks for a thread; the response names it.                    *)
ThreadRequest(model) ==
  /\ sequence < MaxEvents
  /\ sequence' = sequence + 1
  /\ requests' = requests \cup {[model |-> model, seq |-> sequence + 1]}
  /\ UNCHANGED <<obs, reads, saidOf>>
ThreadResponse(request, t, model) ==
  LET newest == IF model # Nobody THEN model ELSE request.model
      r == IF request.model = Nobody THEN obs ELSE RememberModel(obs, t, newest, request.seq)
      k == RememberThread(r, t, newest) IN
  /\ sequence < MaxEvents
  /\ sequence' = sequence + 1
  /\ requests' = requests \ {request}
  /\ obs' = IF k.turn # Nobody THEN k
            ELSE ActivateThread(k, t, IF k.root = Nobody THEN sequence + 1 ELSE request.seq)
  /\ Says(t, newest)
  /\ UNCHANGED reads
RequestRefused(request) ==
  /\ sequence < MaxEvents
  /\ sequence' = sequence + 1
  /\ requests' = requests \ {request}
  /\ UNCHANGED <<obs, reads, saidOf>>

(* thread/read is answered, refused, or times out after two seconds.       *)
ReadAnswered(read, model) ==
  LET t == read[1]
      r == RememberThread([obs EXCEPT !.resolving[t] = [read |-> 0, queue |-> <<>>]], t, model) IN
  /\ reads' = reads \ {read}
  /\ obs' = IF obs.resolving[t].read # read[2] THEN obs
            ELSE CaughtUp(r, obs.resolving[t].queue)
  /\ Says(t, model)
  /\ UNCHANGED <<sequence, requests>>
ReadFailed(read) ==
  LET t == read[1] IN
  /\ reads' = reads \ {read}
  /\ obs' = IF obs.resolving[t].read # read[2] THEN obs
            ELSE [obs EXCEPT !.resolving[t] = [read |-> 0, queue |-> <<>>]]
  /\ UNCHANGED <<sequence, requests, saidOf>>

ObserverNext ==
  \/ \E msg \in Message : ServerMessage(msg)
  \/ \E t \in Thread, model \in Model \cup {Nobody} : TurnStart(t, model)
  \/ \E model \in Model \cup {Nobody} : ThreadRequest(model)
  \/ \E request \in requests :
       \/ RequestRefused(request)
       \/ \E t \in Thread, model \in Model \cup {Nobody} : ThreadResponse(request, t, model)
  \/ \E read \in reads :
       \/ ReadFailed(read)
       \/ \E model \in Model \cup {Nobody} : ReadAnswered(read, model)

ObserverSpec == ObserverInit /\ [][ObserverNext]_observerVars

-----------------------------------------------------------------------------
(* The pane speaks of one thread the user talks to: the running turn is of *)
(* that thread, and the model shown was said of it, never of the thread    *)
(* before it or of a sub-agent (codex-tps-observer.mjs:281-309).           *)
PaneOfOneRoot ==
  /\ obs.root \in Root \cup {Nobody}
  /\ obs.turn \in {Nobody, obs.root}
  /\ obs.shown # Nobody => obs.root # Nobody /\ obs.shown \in saidOf[obs.root]
=============================================================================
