------------------------------ MODULE ApiKeyRouter ------------------------------
(***************************************************************************)
(* How the OMP extension keeps a session on one API key                    *)
(* (omp-api-key-observer.mjs): the wrapped getWithCredential pins what the *)
(* native ranking chose first and answers with it from then on; resets,    *)
(* limits, rotations and a replaced store release the pin.  The state of   *)
(* one provider and session; every `await' is a point where anything else  *)
(* may happen.  What OMP itself decides (blocks, restrictions, priorities, *)
(* the ranking) is a free choice wherever the code asks for it.            *)
(***************************************************************************)
EXTENDS Integers

CONSTANTS
  Cred,      \* the credentials
  NoCred,
  Request,   \* calls of getWithCredential that may run at a time
  Limit,     \* calls of markReached or rotate that may run at a time
  MaxEpoch, MaxGeneration   \* bounds

ASSUME RouterAssumption ==
  /\ NoCred \notin Cred \cup Request
  /\ MaxEpoch \in Nat /\ MaxGeneration \in Nat

VARIABLES
  scope,       \* whose writer is registered: this session's, only others', none
  selected,    \* selections: the pinned credential
  resolved,    \* resolved: whose key is at hand
  inflight,    \* inflight: the request that may pin
  epoch,       \* sessionEpochs
  generation,  \* generation, and with `store' the namespaces
  store,
  request,     \* where a request is, what it captured, released since it began
  limit,       \* likewise; for: the pin it is about; void: entries loaded
               \* meanwhile have put another in its place
  entries,     \* the session has left entries; disk: the pin they amount to
  disk,
  lost,        \* history: the latest write or load of them failed
  late         \* history: an answer to an old question changed a newer pin

routerVars == <<scope, selected, resolved, inflight, epoch, generation, store,
                request, limit, entries, disk, lost, late>>
memory == <<selected, resolved, inflight, epoch>>
durable == <<entries, disk, lost>>

NoRequest == [pc |-> "idle", store |-> 0, generation |-> 0, old |-> FALSE]
NoLimit == [busy |-> FALSE, store |-> 0, epoch |-> 0, for |-> NoCred, void |-> FALSE]

RouterInit ==
  /\ scope = "none"
  /\ selected = NoCred /\ resolved = NoCred /\ inflight = NoCred
  /\ epoch = 0 /\ generation = 0 /\ store = 0
  /\ request = [r \in Request |-> NoRequest]
  /\ limit = [l \in Limit |-> NoLimit]
  /\ disk \in Cred \cup {NoCred} /\ entries \in {e \in BOOLEAN : disk # NoCred => e}
  /\ lost = FALSE /\ late = FALSE

-----------------------------------------------------------------------------
(* appendState: only a session with a writer leaves entries; none is left  *)
(* if its manager has moved on to another session or the append throws.    *)
Persist(pin) ==
  \/ scope = "own" /\ entries' = TRUE /\ disk' = pin /\ lost' = FALSE
  \/ scope = "own" /\ lost' = TRUE /\ UNCHANGED <<entries, disk>>
  \/ scope # "own" /\ UNCHANGED durable

(* The requests that run while a pin is released ask for a former one.     *)
Outdated(but) ==
  [r \in Request |-> IF r = but THEN NoRequest
                     ELSE [request[r] EXCEPT !.old = (@ \/ request[r].pc # "idle")]]

(* observeRelease; `served' is the request that ends with it, if any.      *)
ObserveRelease(cancel) ==
  /\ epoch < MaxEpoch
  /\ epoch' = epoch + 1
  /\ resolved' = NoCred
  /\ inflight' = IF cancel THEN NoCred ELSE inflight
  /\ selected' = NoCred
  /\ IF selected = NoCred THEN UNCHANGED durable ELSE Persist(NoCred)

ObserveSelection(cred) ==
  /\ selected' = cred
  /\ IF cred = selected THEN UNCHANGED <<epoch, durable>>
     ELSE epoch < MaxEpoch /\ epoch' = epoch + 1 /\ Persist(cred)

-----------------------------------------------------------------------------
(* getWithCredential: a request joins the one in flight, or becomes it and *)
(* polls the store.                                                        *)
Get(r) ==
  /\ scope # "none" /\ inflight = NoCred
  /\ request[r].pc = "idle"
  /\ inflight' = r
  /\ request' = [request EXCEPT ![r] = [pc |-> "poll", store |-> store,
                                        generation |-> 0, old |-> FALSE]]
  /\ UNCHANGED <<scope, selected, resolved, epoch, generation, store, limit, durable, late>>

IsCurrent(r) == request[r].store = store /\ inflight = r

Ends(r) == request' = [request EXCEPT ![r] = NoRequest]
AsksNative(r) == request' = [request EXCEPT ![r].pc = "native", ![r].generation = generation]

(* Poll over: a request that is no longer current takes the native answer. *)
PollOutdated(r) ==
  /\ request[r].pc = "poll" /\ ~IsCurrent(r)
  /\ Ends(r)
  /\ UNCHANGED <<scope, memory, generation, store, limit, durable, late>>
(* The login, the environment or a restriction takes precedence.           *)
PollNative(r) ==
  /\ request[r].pc = "poll" /\ IsCurrent(r)
  /\ request' = Outdated(r)
  /\ ObserveRelease(TRUE)
  /\ UNCHANGED <<scope, generation, store, limit, late>>
(* The pin answers, from memory or restored from the store.                *)
PollPinned(r) ==
  /\ request[r].pc = "poll" /\ IsCurrent(r)
  /\ selected # NoCred
  /\ resolved' = selected
  /\ inflight' = NoCred
  /\ Ends(r)
  /\ UNCHANGED <<scope, selected, epoch, generation, store, limit, durable, late>>
(* A login outranks the pin, it is blocked, or its key is gone; or there   *)
(* is none: the native ranking is asked.                                   *)
PollUnpinned(r) ==
  /\ request[r].pc = "poll" /\ IsCurrent(r)
  /\ AsksNative(r)
  /\ IF selected = NoCred THEN UNCHANGED <<memory, durable>> ELSE ObserveRelease(FALSE)
  /\ UNCHANGED <<scope, generation, store, limit, late>>

(* The native answer: a precedence that changed meanwhile.                 *)
AnswerNative(r) ==
  /\ request[r].pc = "native"
  /\ IF IsCurrent(r) THEN request' = Outdated(r) /\ ObserveRelease(TRUE)
     ELSE Ends(r) /\ UNCHANGED <<memory, durable>>
  /\ UNCHANGED <<scope, generation, store, limit, late>>

(* Mutant: the answer is pinned whatever was released meanwhile.           *)
AnswerAlways(r, cred) ==
  /\ request[r].pc = "native"
  /\ Ends(r)
  /\ inflight' = IF inflight = r THEN NoCred ELSE inflight
  /\ ObserveSelection(cred)
  /\ resolved' = cred
  /\ late' = (late \/ request[r].old)
  /\ UNCHANGED <<scope, generation, store, limit>>

(* It is pinned if the request is current and the store is as it was.      *)
Answer(r, cred) ==
  /\ request[r].pc = "native"
  /\ Ends(r)
  /\ inflight' = IF inflight = r THEN NoCred ELSE inflight
  /\ IF IsCurrent(r) /\ request[r].generation = generation
     THEN /\ ObserveSelection(cred)
          /\ resolved' = cred
          /\ late' = (late \/ request[r].old)
     ELSE UNCHANGED <<selected, resolved, epoch, durable, late>>
  /\ UNCHANGED <<scope, generation, store, limit>>
AnswerFails(r) ==
  /\ request[r].pc = "native"
  /\ Ends(r)
  /\ inflight' = IF inflight = r THEN NoCred ELSE inflight
  /\ UNCHANGED <<scope, selected, resolved, epoch, generation, store, limit, durable, late>>

-----------------------------------------------------------------------------
(* sessions.release, and appendResetBoundary before a reset.               *)
Release ==
  /\ scope # "none"
  /\ ObserveRelease(TRUE)
  /\ request' = Outdated(NoCred)
  /\ UNCHANGED <<scope, generation, store, limit, late>>

(* markReached and rotate: the answer releases the pin of the same epoch.  *)
LimitReached(l) ==
  /\ ~limit[l].busy
  /\ limit' = [limit EXCEPT ![l] = [busy |-> TRUE, store |-> store, epoch |-> epoch,
                                    for |-> selected, void |-> FALSE]]
  /\ UNCHANGED <<scope, memory, generation, store, request, durable, late>>
LimitAnswered(l) ==
  /\ limit[l].busy
  /\ limit' = [limit EXCEPT ![l] = NoLimit]
  /\ IF limit[l].store = store /\ limit[l].epoch = epoch
     THEN /\ ObserveRelease(TRUE)
          /\ request' = Outdated(NoCred)
          /\ late' = (late \/ (selected # limit[l].for /\ ~limit[l].void))
     ELSE UNCHANGED <<memory, request, durable, late>>
  /\ UNCHANGED <<scope, generation, store>>
NotSwitched(l) ==
  /\ limit[l].busy
  /\ limit' = [limit EXCEPT ![l] = NoLimit]
  /\ UNCHANGED <<scope, memory, generation, store, request, durable, late>>

(* onGeneration: the store was written to, or replaced by another.         *)
NewGeneration ==
  /\ generation < MaxGeneration
  /\ generation' = generation + 1
  /\ resolved' = NoCred
  /\ UNCHANGED <<scope, selected, inflight, epoch, store, request, limit, durable, late>>

(* Mutant: the pins of the old store are dropped without a word.           *)
ReplaceStoreSilently ==
  /\ generation < MaxGeneration
  /\ generation' = generation + 1 /\ store' = store + 1
  /\ selected' = NoCred /\ resolved' = NoCred /\ inflight' = NoCred
  /\ request' = Outdated(NoCred)
  /\ UNCHANGED <<scope, epoch, limit, durable, late>>

ReplaceStore ==
  /\ generation < MaxGeneration
  /\ generation' = generation + 1 /\ store' = store + 1
  /\ IF selected = NoCred
     THEN resolved' = NoCred /\ inflight' = NoCred /\ UNCHANGED <<selected, epoch, durable>>
     ELSE ObserveRelease(TRUE)
  /\ request' = Outdated(NoCred)
  /\ UNCHANGED <<scope, limit, late>>

-----------------------------------------------------------------------------
(* loadEntries over the pin in memory; nothing is loaded if reading the    *)
(* entries throws or gives no array.                                       *)
LoadEntries(kept) ==
  /\ \/ selected' = (IF entries THEN disk ELSE kept) /\ lost' = FALSE
     \/ selected' = kept /\ lost' = TRUE
  /\ resolved' \in {NoCred, IF selected' = selected /\ kept = selected
                            THEN resolved ELSE NoCred}
  /\ UNCHANGED <<entries, disk>>

(* activate: a scope of this session takes over and loads its entries; the *)
(* one that had it, come with another manager, forgets the session first.  *)
Activate ==
  /\ epoch < MaxEpoch
  /\ scope' = "own"
  /\ epoch' = epoch + 1
  /\ inflight' = NoCred
  /\ LoadEntries(selected) \/ (scope = "own" /\ LoadEntries(NoCred))
  /\ UNCHANGED <<generation, store, request, limit, late>>
(* The same scope and manager again, as when it changes branch: only the   *)
(* entries are loaded, within the epoch.                                   *)
ActivateAgain ==
  /\ scope = "own"
  /\ LoadEntries(selected)
  /\ limit' = [l \in Limit |->
                [limit[l] EXCEPT !.void = (@ \/ (limit[l].busy /\ selected' # selected))]]
  /\ UNCHANGED <<scope, inflight, epoch, generation, store, request, late>>
(* A scope of another session starts or goes on without this one's.        *)
ActivateOther ==
  /\ scope = "none"
  /\ scope' = "other"
  /\ UNCHANGED <<memory, generation, store, request, limit, durable, late>>

(* forgetSession: with its scope, the last scope, or one of too many.      *)
Forget ==
  /\ scope # "none"
  /\ epoch < MaxEpoch
  /\ scope' \in {"none", "other"}
  /\ selected' = NoCred /\ resolved' = NoCred /\ inflight' = NoCred
  /\ epoch' = epoch + 1
  /\ UNCHANGED <<generation, store, request, limit, durable, late>>

(* OMP ends or is killed; the entries stay.                                *)
Restart ==
  /\ scope' = "none"
  /\ selected' = NoCred /\ resolved' = NoCred /\ inflight' = NoCred
  /\ request' = [r \in Request |-> NoRequest]
  /\ limit' = [l \in Limit |-> NoLimit]
  /\ UNCHANGED <<epoch, generation, store, durable, late>>

RouterNext ==
  \/ \E r \in Request :
       \/ Get(r) \/ PollOutdated(r) \/ PollNative(r) \/ PollPinned(r) \/ PollUnpinned(r)
       \/ AnswerNative(r) \/ AnswerFails(r)
       \/ \E cred \in Cred : Answer(r, cred)
  \/ \E l \in Limit : LimitReached(l) \/ LimitAnswered(l) \/ NotSwitched(l)
  \/ Release \/ NewGeneration \/ ReplaceStore
  \/ Activate \/ ActivateAgain \/ ActivateOther \/ Forget \/ Restart

RouterSpec == RouterInit /\ [][RouterNext]_routerVars

-----------------------------------------------------------------------------
(* An answer that comes late does no harm: a request that began before a   *)
(* release never pins after it, and a limit reported for one pin never     *)
(* releases the next one (omp-api-key-observer.mjs:295, 327, 339), unless  *)
(* that came from entries loaded within the epoch (427), over a pin whose  *)
(* own entry was lost.                                                     *)
LateAnswersHarmless == ~late

(* What a restart would restore is the pin in force: every pin and every   *)
(* release of an active session is in its entries, a store replaced under  *)
(* it included (omp-api-key-observer.mjs:222-228), and whatever was lost   *)
(* to a failed append or load is made good by the next that succeeds.      *)
PinsDurable == scope = "own" /\ entries /\ ~lost => disk = selected
=============================================================================
