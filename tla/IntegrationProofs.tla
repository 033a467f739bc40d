--------------------------- MODULE IntegrationProofs ---------------------------
(***************************************************************************)
(* Theorems about the parts of the Herdr integration: the router of API    *)
(* keys, for every number of requests, limits and credentials; the shared  *)
(* daemon directory, for every number of launchers; the row of an agent,   *)
(* for every length of the queue and every clock; the meter, for every     *)
(* text; the Codex observer, for every number of threads and messages.     *)
(***************************************************************************)
EXTENDS LiveTpsReporter, ApiKeyRouter, ShareDaemons, TokenRateMeter, CodexObserver,
        SequenceTheorems, WellFoundedInduction, TLAPS

-----------------------------------------------------------------------------
(* The router of API keys.                                                 *)
RequestState ==
  [pc : {"idle", "poll", "native"}, store : Nat, generation : Nat, old : BOOLEAN]
LimitState == [busy : BOOLEAN, store : Nat, epoch : Nat, for : Cred \cup {NoCred},
               void : BOOLEAN]

RouterTypeOK ==
  /\ scope \in {"own", "other", "none"}
  /\ selected \in Cred \cup {NoCred}
  /\ resolved \in Cred \cup {NoCred}
  /\ inflight \in Request \cup {NoCred}
  /\ epoch \in Nat /\ generation \in Nat /\ store \in Nat
  /\ request \in [Request -> RequestState]
  /\ limit \in [Limit -> LimitState]
  /\ entries \in BOOLEAN /\ disk \in Cred \cup {NoCred}
  /\ lost \in BOOLEAN /\ late \in BOOLEAN

(* A request that asks for a former pin is not the one that may pin.       *)
FormerRequestsAreOut == \A r \in Request : request[r].old => inflight # r

(* An epoch has one pin, but for what is loaded again within it.           *)
EpochsNameThePin ==
  \A l \in Limit :
    limit[l].busy => /\ limit[l].epoch <= epoch
                     /\ limit[l].epoch = epoch => limit[l].void \/ limit[l].for = selected

RouterInv == ~late /\ FormerRequestsAreOut /\ EpochsNameThePin /\ PinsDurable

(* A release begins another epoch, and leaves an entry where it must.      *)
LEMMA ReleaseStep ==
  ASSUME RouterTypeOK, RouterInv, NEW cancel \in BOOLEAN, ObserveRelease(cancel)
  PROVE  /\ epoch' = epoch + 1 /\ selected' = NoCred /\ resolved' = NoCred
         /\ inflight' = (IF cancel THEN NoCred ELSE inflight)
         /\ entries' \in BOOLEAN /\ disk' \in Cred \cup {NoCred} /\ lost' \in BOOLEAN
         /\ scope = "own" /\ entries' /\ ~lost' => disk' = NoCred
  BY DEF ObserveRelease, Persist, durable, RouterTypeOK, RouterInv, PinsDurable

LEMMA SelectionStep ==
  ASSUME RouterTypeOK, RouterInv, NEW cred \in Cred, ObserveSelection(cred)
  PROVE  /\ epoch' \in Nat /\ selected' = cred
         /\ (epoch' = epoch /\ selected' = selected) \/ epoch' = epoch + 1
         /\ entries' \in BOOLEAN /\ disk' \in Cred \cup {NoCred} /\ lost' \in BOOLEAN
         /\ scope = "own" /\ entries' /\ ~lost' => disk' = cred
<1> USE DEF ObserveSelection, durable, RouterTypeOK, RouterInv, PinsDurable
<1>1. CASE cred = selected
  BY <1>1
<1>2. CASE cred # selected /\ scope = "own"
  <2>1. epoch' = epoch + 1 /\ selected' = cred /\ Persist(cred)
    BY <1>2
  <2>2. CASE entries' = TRUE /\ disk' = cred /\ lost' = FALSE
    <3>1. entries' \in BOOLEAN /\ lost' \in BOOLEAN /\ disk' \in Cred \cup {NoCred}
      BY <2>2
    <3>2. epoch' \in Nat
      BY <2>1
    <3> QED
      BY ONLY <2>1, <2>2, <3>1, <3>2
  <2>3. CASE lost' = TRUE /\ UNCHANGED <<entries, disk>>
    BY <2>1, <2>3
  <2> QED
    BY <1>2, <2>1, <2>2, <2>3 DEF Persist
<1>3. CASE cred # selected /\ scope # "own"
  BY <1>3 DEF Persist
<1> QED
  BY <1>1, <1>2, <1>3

LEMMA OutdatedTypes ==
  ASSUME RouterTypeOK, NEW but
  PROVE  Outdated(but) \in [Request -> RequestState]
  BY DEF Outdated, NoRequest, RouterTypeOK, RequestState

(* A release that cancels what is in flight leaves every request former.   *)
LEMMA CancelKeepsRouter ==
  ASSUME RouterTypeOK, RouterInv, ObserveRelease(TRUE), NEW but, request' = Outdated(but),
         UNCHANGED scope, late' \in BOOLEAN, ~late', generation' \in Nat, store' \in Nat,
         limit' \in [Limit -> LimitState],
         \A l \in Limit : limit'[l].busy => limit'[l] = limit[l]
  PROVE  RouterTypeOK' /\ RouterInv'
<1> USE RouterAssumption
<1>0. /\ epoch' = epoch + 1 /\ selected' = NoCred /\ resolved' = NoCred /\ inflight' = NoCred
      /\ entries' \in BOOLEAN /\ disk' \in Cred \cup {NoCred} /\ lost' \in BOOLEAN
      /\ scope = "own" /\ entries' /\ ~lost' => disk' = NoCred
  BY ReleaseStep
<1>1. RouterTypeOK'
  BY <1>0, OutdatedTypes DEF RouterTypeOK
<1>2. FormerRequestsAreOut'
  BY <1>0 DEF FormerRequestsAreOut
<1>3. EpochsNameThePin'
  BY <1>0 DEF EpochsNameThePin, RouterInv, RouterTypeOK, LimitState
<1>4. PinsDurable'
  BY <1>0 DEF PinsDurable
<1> QED
  BY <1>1, <1>2, <1>3, <1>4 DEF RouterInv

(* What a request does.                                                    *)
LEMMA RequestStep ==
  ASSUME RouterTypeOK, RouterInv, NEW r \in Request,
         \/ Get(r) \/ PollOutdated(r) \/ PollNative(r) \/ PollPinned(r) \/ PollUnpinned(r)
         \/ AnswerNative(r) \/ AnswerFails(r)
         \/ \E cred \in Cred : Answer(r, cred)
  PROVE  RouterTypeOK' /\ RouterInv'
<1> USE RouterAssumption
<1>1. ASSUME UNCHANGED <<scope, selected, epoch, store, generation, limit, durable, late>>,
             resolved' \in Cred \cup {NoCred},
             inflight' \in {inflight, NoCred},
             request' = [request EXCEPT ![r] = NoRequest]
      PROVE  RouterTypeOK' /\ RouterInv'
  BY <1>1 DEF NoRequest, durable, RouterTypeOK, RequestState, RouterInv,
              FormerRequestsAreOut, EpochsNameThePin, PinsDurable
<1>2. CASE Get(r)
  BY <1>2 DEF Get, durable, RouterTypeOK, RequestState, RouterInv, FormerRequestsAreOut,
              EpochsNameThePin, PinsDurable
<1>3. CASE PollOutdated(r)
  BY <1>1, <1>3 DEF PollOutdated, Ends, memory, RouterTypeOK
<1>4. CASE PollNative(r)
  BY <1>4, CancelKeepsRouter DEF PollNative, RouterTypeOK, RouterInv
<1>5. CASE PollPinned(r)
  BY <1>1, <1>5 DEF PollPinned, Ends, RouterTypeOK
<1>6. CASE PollUnpinned(r)
  <2>1. /\ request' = [request EXCEPT ![r].pc = "native", ![r].generation = generation]
        /\ UNCHANGED <<scope, generation, store, limit, late>>
    BY <1>6 DEF PollUnpinned, AsksNative
  <2>2. request' \in [Request -> RequestState] /\ \A q \in Request : request'[q].old = request[q].old
    <3>1. request \in [Request -> RequestState] /\ generation \in Nat
      BY DEF RouterTypeOK
    <3>2. [request[r] EXCEPT !.pc = "native", !.generation = generation] \in RequestState
      BY ONLY <3>1 DEF RequestState
    <3> QED
      BY ONLY <2>1, <3>1, <3>2
  <2>3. CASE selected = NoCred /\ UNCHANGED <<memory, durable>>
    BY <2>1, <2>2, <2>3
    DEF memory, durable, RouterTypeOK, RouterInv, FormerRequestsAreOut, EpochsNameThePin,
        PinsDurable
  <2>4. CASE ObserveRelease(FALSE)
    <3>1. /\ epoch' = epoch + 1 /\ selected' = NoCred /\ resolved' = NoCred
          /\ inflight' = inflight
          /\ entries' \in BOOLEAN /\ disk' \in Cred \cup {NoCred} /\ lost' \in BOOLEAN
          /\ scope = "own" /\ entries' /\ ~lost' => disk' = NoCred
      BY <2>4, ReleaseStep
    <3> QED
      BY <2>1, <2>2, <3>1
      DEF RouterTypeOK, RouterInv, FormerRequestsAreOut, EpochsNameThePin, PinsDurable,
          LimitState
  <2> QED
    BY <1>6, <2>3, <2>4 DEF PollUnpinned
<1>7. CASE AnswerNative(r)
  <2>1. CASE request' = Outdated(r) /\ ObserveRelease(TRUE)
    BY <1>7, <2>1, CancelKeepsRouter DEF AnswerNative, RouterTypeOK, RouterInv
  <2>2. CASE Ends(r) /\ UNCHANGED <<memory, durable>>
    BY <1>1, <1>7, <2>2 DEF AnswerNative, Ends, memory, RouterTypeOK
  <2> QED
    BY <1>7, <2>1, <2>2 DEF AnswerNative
<1>8. CASE AnswerFails(r)
  BY <1>1, <1>8 DEF AnswerFails, Ends, RouterTypeOK
<1>9. ASSUME NEW cred \in Cred, Answer(r, cred) PROVE RouterTypeOK' /\ RouterInv'
  <2>1. /\ request' = [request EXCEPT ![r] = NoRequest]
        /\ inflight' \in {inflight, NoCred}
        /\ UNCHANGED <<scope, generation, store, limit>>
    BY <1>9 DEF Answer, Ends
  <2>2. CASE ~(IsCurrent(r) /\ request[r].generation = generation)
    BY <1>1, <1>9, <2>1, <2>2 DEF Answer, RouterTypeOK
  <2>3. CASE IsCurrent(r) /\ request[r].generation = generation
    <3>1. ObserveSelection(cred) /\ resolved' = cred /\ late' = (late \/ request[r].old)
      BY <1>9, <2>3 DEF Answer
    <3>2. late' = FALSE
      BY <2>3, <3>1 DEF IsCurrent, RouterInv, FormerRequestsAreOut, RouterTypeOK, RequestState
    <3>3. /\ epoch' \in Nat /\ selected' = cred
          /\ (epoch' = epoch /\ selected' = selected) \/ epoch' = epoch + 1
          /\ entries' \in BOOLEAN /\ disk' \in Cred \cup {NoCred} /\ lost' \in BOOLEAN
          /\ scope = "own" /\ entries' /\ ~lost' => disk' = cred
      BY <3>1, SelectionStep
    <3>4. request' \in [Request -> RequestState]
          /\ \A q \in Request : request'[q].old => request[q].old
      BY <2>1 DEF NoRequest, RouterTypeOK, RequestState
    <3>5. RouterTypeOK'
      BY <2>1, <3>1, <3>2, <3>3, <3>4 DEF RouterTypeOK
    <3>6. FormerRequestsAreOut' /\ PinsDurable'
      BY <2>1, <3>3, <3>4 DEF RouterInv, FormerRequestsAreOut, PinsDurable
    <3>7. EpochsNameThePin'
      BY <2>1, <3>3 DEF RouterInv, EpochsNameThePin, RouterTypeOK, LimitState
    <3> QED
      BY <3>2, <3>5, <3>6, <3>7 DEF RouterInv
  <2> QED
    BY <2>2, <2>3
<1> QED
  BY <1>2, <1>3, <1>4, <1>5, <1>6, <1>7, <1>8, <1>9

(* What the limits, the store and the session do.                          *)
LEMMA SessionStep ==
  ASSUME RouterTypeOK, RouterInv,
         \/ \E l \in Limit : LimitReached(l) \/ LimitAnswered(l) \/ NotSwitched(l)
         \/ Release \/ NewGeneration \/ ReplaceStore
         \/ Activate \/ ActivateAgain \/ ActivateOther \/ Forget \/ Restart
  PROVE  RouterTypeOK' /\ RouterInv'
<1> USE RouterAssumption
<1> DEFINE Goal == RouterTypeOK' /\ RouterInv'
<1>1. ASSUME NEW l \in Limit, LimitReached(l) PROVE Goal
  BY <1>1 DEF LimitReached, memory, durable, RouterTypeOK, LimitState, RouterInv,
              FormerRequestsAreOut, EpochsNameThePin, PinsDurable
<1>2. ASSUME NEW l \in Limit, limit[l].busy, limit' = [limit EXCEPT ![l] = NoLimit]
      PROVE  /\ limit' \in [Limit -> LimitState]
             /\ \A k \in Limit : limit'[k].busy => limit'[k] = limit[k]
  BY <1>2 DEF NoLimit, RouterTypeOK, LimitState
<1>3. ASSUME NEW l \in Limit, limit[l].busy, limit' = [limit EXCEPT ![l] = NoLimit],
             UNCHANGED <<scope, memory, generation, store, request, durable, late>>
      PROVE  Goal
  BY <1>2, <1>3 DEF memory, durable, RouterTypeOK, RouterInv, FormerRequestsAreOut,
                    EpochsNameThePin, PinsDurable
<1>4. ASSUME NEW l \in Limit, LimitAnswered(l) PROVE Goal
  <2>1. CASE limit[l].store = store /\ limit[l].epoch = epoch
    <3>1. /\ ObserveRelease(TRUE) /\ request' = Outdated(NoCred)
          /\ late' = (late \/ (selected # limit[l].for /\ ~limit[l].void))
          /\ limit' = [limit EXCEPT ![l] = NoLimit] /\ limit[l].busy
          /\ UNCHANGED <<scope, generation, store>>
      BY <1>4, <2>1 DEF LimitAnswered
    <3>2. ~(selected # limit[l].for /\ ~limit[l].void) /\ late = FALSE
      BY <2>1, <3>1 DEF RouterInv, EpochsNameThePin, RouterTypeOK
    <3>3. late' = FALSE
      BY <3>1, <3>2, Zenon
    <3> QED
      BY <1>2, <3>1, <3>3, CancelKeepsRouter DEF RouterTypeOK
  <2>2. CASE ~(limit[l].store = store /\ limit[l].epoch = epoch)
    BY <1>3, <1>4, <2>2 DEF LimitAnswered
  <2> QED
    BY <2>1, <2>2
<1>5. ASSUME NEW l \in Limit, NotSwitched(l) PROVE Goal
  BY <1>3, <1>5 DEF NotSwitched
<1>6. CASE Release
  BY <1>6, CancelKeepsRouter DEF Release, RouterTypeOK, RouterInv
<1>7. CASE NewGeneration
  BY <1>7 DEF NewGeneration, durable, RouterTypeOK, RouterInv, FormerRequestsAreOut,
              EpochsNameThePin, PinsDurable
<1>8. CASE ReplaceStore
  <2>1. CASE ObserveRelease(TRUE)
    BY <1>8, <2>1, CancelKeepsRouter DEF ReplaceStore, RouterTypeOK, RouterInv
  <2>2. CASE inflight' = NoCred /\ resolved' = NoCred /\ UNCHANGED <<selected, epoch, durable>>
    BY <1>8, <2>2, OutdatedTypes
    DEF ReplaceStore, durable, RouterTypeOK, RouterInv, FormerRequestsAreOut,
        EpochsNameThePin, PinsDurable
  <2> QED
    BY <1>8, <2>1, <2>2 DEF ReplaceStore
<1>9. CASE Activate
  <2>1. /\ scope' = "own" /\ epoch' = epoch + 1 /\ inflight' = NoCred
        /\ UNCHANGED <<generation, store, request, limit, late>>
        /\ LoadEntries(selected) \/ LoadEntries(NoCred)
    BY <1>9 DEF Activate
  <2>2. /\ selected' \in Cred \cup {NoCred} /\ resolved' \in Cred \cup {NoCred}
        /\ lost' \in BOOLEAN /\ UNCHANGED <<entries, disk>>
        /\ entries /\ ~lost' => disk = selected'
    BY <2>1 DEF LoadEntries, RouterTypeOK
  <2>3. RouterTypeOK'
    BY <2>1, <2>2 DEF RouterTypeOK
  <2> QED
    BY <2>1, <2>2, <2>3 DEF RouterTypeOK, RouterInv, FormerRequestsAreOut,
                            EpochsNameThePin, PinsDurable, LimitState
<1>13. CASE ActivateAgain
  <2>1. /\ UNCHANGED <<scope, inflight, epoch, generation, store, request, late>>
        /\ LoadEntries(selected)
        /\ limit' = [l \in Limit |->
             [limit[l] EXCEPT !.void = (@ \/ (limit[l].busy /\ selected' # selected))]]
    BY <1>13 DEF ActivateAgain
  <2>2. /\ selected' \in Cred \cup {NoCred} /\ resolved' \in Cred \cup {NoCred}
        /\ lost' \in BOOLEAN /\ UNCHANGED <<entries, disk>>
        /\ entries /\ ~lost' => disk = selected'
    BY <2>1 DEF LoadEntries, RouterTypeOK
  <2>3. /\ limit' \in [Limit -> LimitState]
        /\ \A l \in Limit :
             /\ limit'[l].busy = limit[l].busy /\ limit'[l].epoch = limit[l].epoch
             /\ limit'[l].for = limit[l].for
             /\ limit[l].busy => \/ limit'[l].void
                                 \/ ~limit[l].void /\ selected' = selected
    BY <2>1 DEF RouterTypeOK, LimitState
  <2>4. RouterTypeOK'
    BY <2>1, <2>2, <2>3 DEF RouterTypeOK
  <2>5. EpochsNameThePin'
    BY <2>1, <2>3 DEF RouterInv, EpochsNameThePin
  <2> QED
    BY <2>1, <2>2, <2>4, <2>5 DEF RouterInv, FormerRequestsAreOut, PinsDurable
<1>10. CASE ActivateOther
  BY <1>10 DEF ActivateOther, memory, durable, RouterTypeOK, RouterInv, FormerRequestsAreOut,
               EpochsNameThePin, PinsDurable
<1>11. CASE Forget
  BY <1>11 DEF Forget, durable, RouterTypeOK, RouterInv, FormerRequestsAreOut,
               EpochsNameThePin, PinsDurable, LimitState
<1>12. CASE Restart
  BY <1>12 DEF Restart, durable, NoRequest, NoLimit, RouterTypeOK, RequestState, LimitState,
               RouterInv, FormerRequestsAreOut, EpochsNameThePin, PinsDurable
<1> QED
  BY <1>1, <1>4, <1>5, <1>6, <1>7, <1>8, <1>9, <1>10, <1>11, <1>12, <1>13

LEMMA RouterInvariant == RouterSpec => [](RouterTypeOK /\ RouterInv)
<1>1. RouterInit => RouterTypeOK /\ RouterInv
  <2> SUFFICES ASSUME RouterInit PROVE RouterTypeOK /\ RouterInv
    OBVIOUS
  <2>1. RouterTypeOK
    BY RouterAssumption
    DEF RouterInit, NoRequest, NoLimit, RouterTypeOK, RequestState, LimitState
  <2>2. /\ \A r \in Request : request[r].old = FALSE
        /\ \A l \in Limit : limit[l].busy = FALSE
        /\ scope = "none" /\ late = FALSE
    BY DEF RouterInit, NoRequest, NoLimit
  <2> QED
    BY <2>1, <2>2 DEF RouterInv, FormerRequestsAreOut, EpochsNameThePin, PinsDurable
<1>2. RouterTypeOK /\ RouterInv /\ [RouterNext]_routerVars => (RouterTypeOK /\ RouterInv)'
  <2>1. ASSUME RouterTypeOK, RouterInv, UNCHANGED routerVars PROVE RouterTypeOK' /\ RouterInv'
    BY <2>1 DEF routerVars, memory, durable, RouterTypeOK, RouterInv, FormerRequestsAreOut,
                EpochsNameThePin, PinsDurable
  <2> QED
    BY <2>1, RequestStep, SessionStep DEF RouterNext
<1> QED
  BY <1>1, <1>2, PTL DEF RouterSpec

(* An answer that comes late does no harm (omp-api-key-observer.mjs:295,   *)
(* 327, 339), however many requests and limits are under way.              *)
THEOREM LateAnswersHarmlessHolds == RouterSpec => []LateAnswersHarmless
  BY RouterInvariant, PTL DEF RouterInv, LateAnswersHarmless

(* What a restart would restore is the pin in force                        *)
(* (omp-api-key-observer.mjs:222-228), once an append or a load has        *)
(* succeeded after the last that failed.                                   *)
THEOREM PinsDurableHolds == RouterSpec => []PinsDurable
  BY RouterInvariant, PTL DEF RouterInv

-----------------------------------------------------------------------------
(* The shared daemon directory.                                            *)
Holding == {"locked", "checked", "aside", "leaving"}

FlagsOK == target \in BOOLEAN /\ lock \in BOOLEAN /\ old \in BOOLEAN /\ astray \in BOOLEAN
CountsOK ==
  /\ source \in {"none", "own", "link"}
  /\ backups \in 0..1 /\ shared \in Nat /\ launches \in Nat
Place == {"idle", "seen", "free", "shared"} \cup Holding
LaunchersOK ==
  launcher \in [Launcher -> [pc : Place, saw : {"none", "own", "link"}, made : BOOLEAN]]
DaemonsTypeOK == FlagsOK /\ CountsOK /\ LaunchersOK

(* One launcher holds the lock.                                            *)
LockInv ==
  /\ \A l \in Launcher : launcher[l].pc \in Holding => lock
  /\ \A l, m \in Launcher : launcher[l].pc \in Holding /\ launcher[m].pc \in Holding => l = m

(* What a launcher knows: under the lock, what it checked stays true; what *)
(* it found or made shared stays so.                                       *)
LauncherInv(l) ==
  /\ launcher[l].pc \in {"seen", "free", "locked", "checked", "aside"} => launcher[l].saw # "link"
  /\ launcher[l].made => launcher[l].pc \in {"leaving", "shared"}
  /\ launcher[l].made \/ At(l, "shared") => source = "link"
  /\ At(l, "checked") => source = launcher[l].saw /\ ~old /\ target
  /\ At(l, "aside") => source = "none" /\ target /\ (launcher[l].saw = "own" => backups = 1)

(* The own directory is in one place, and a link leads somewhere.          *)
PlaceInv ==
  /\ source = "own" => backups = 0
  /\ source = "link" => target

DaemonsInv ==
  /\ OneNamespace /\ LockInv /\ PlaceInv
  /\ \A l \in Launcher : LauncherInv(l)

(* A launcher gives up, moves on, or moves on having seen or made a thing. *)
LEMMA LauncherMoves ==
  ASSUME LaunchersOK, NEW l \in Launcher,
         GivesUp(l) \/ \E pc \in Place : To(l, pc)
  PROVE  LaunchersOK'
<1>1. CASE GivesUp(l)
  BY <1>1 DEF LaunchersOK, GivesUp, Idle, Place
<1>2. CASE \E pc \in Place : To(l, pc)
  BY <1>2 DEF LaunchersOK, To
<1> QED
  BY <1>1, <1>2

LEMMA LauncherLearns ==
  ASSUME LaunchersOK, NEW l \in Launcher, NEW pc \in Place,
         NEW saw \in {"none", "own", "link"}, NEW made \in BOOLEAN,
         \/ launcher' = [launcher EXCEPT ![l].pc = pc, ![l].saw = saw]
         \/ launcher' = [launcher EXCEPT ![l].pc = pc, ![l].made = made]
  PROVE  LaunchersOK'
  BY DEF LaunchersOK

LEMMA DaemonsInvariant == DaemonsSpec => [](DaemonsTypeOK /\ DaemonsInv)
<1> DEFINE Inv == DaemonsTypeOK /\ DaemonsInv
<1>1. DaemonsInit => Inv
  <2> SUFFICES ASSUME DaemonsInit PROVE Inv
    OBVIOUS
  <2>1. DaemonsTypeOK
    <3>1. FlagsOK
      BY DEF DaemonsInit, FlagsOK
    <3>3. CountsOK
      BY DEF DaemonsInit, CountsOK
    <3>2. LaunchersOK
      BY DEF DaemonsInit, Idle, LaunchersOK, Place
    <3> QED
      BY <3>1, <3>2, <3>3 DEF DaemonsTypeOK
  <2>2. /\ \A l \in Launcher : launcher[l].pc = "idle" /\ launcher[l].made = FALSE
        /\ old => source = "own"
        /\ shared = 0 /\ astray = FALSE /\ backups = 0 /\ source \in {"none", "own"}
    BY DEF DaemonsInit, Idle
  <2>3. \A l \in Launcher : LauncherInv(l)
    BY <2>2 DEF LauncherInv, At
  <2> QED
    BY <2>1, <2>2, <2>3 DEF DaemonsInv, OneNamespace, LockInv, PlaceInv, Holding
<1>2. Inv /\ [DaemonsNext]_daemonVars => Inv'
  <2> SUFFICES ASSUME Inv, [DaemonsNext]_daemonVars PROVE Inv'
    OBVIOUS
  <2>0. CountsOK
    BY DEF DaemonsTypeOK
  <2> USE DEF DaemonsTypeOK, FlagsOK, CountsOK, LaunchersOK, DaemonsInv, OneNamespace,
              LockInv, PlaceInv, LauncherInv, At, To, GivesUp, Idle, Holding
  <2>1. ASSUME NEW l \in Launcher, Launch(l) PROVE Inv'
    <3> USE <2>1 DEF Launch
    <3>1. FlagsOK'
      OBVIOUS
    <3>2. CountsOK'
      BY ONLY <2>0, <2>1 DEF CountsOK, Launch
    <3>3. LaunchersOK'
      BY Zenon, LauncherLearns DEF Place
    <3>4. OneNamespace' /\ PlaceInv'
      OBVIOUS
    <3>5. LockInv'
      OBVIOUS
    <3>6. ASSUME NEW m \in Launcher PROVE LauncherInv(m)'
      OBVIOUS
    <3> QED
      BY ONLY <3>1, <3>2, <3>3, <3>4, <3>5, <3>6 DEF DaemonsTypeOK, DaemonsInv
  <2>2. ASSUME NEW l \in Launcher, LookAround(l) PROVE Inv'
    <3> USE <2>2 DEF LookAround
    <3>1. FlagsOK'
      OBVIOUS
    <3>2. CountsOK'
      OBVIOUS
    <3>3. LaunchersOK'
      <4>1. GivesUp(l) \/ \E pc \in Place : To(l, pc)
        BY ONLY <2>2 DEF LookAround, Place, Holding
      <4> QED
        BY ONLY <4>1, LauncherMoves, LaunchersOK
    <3>4. OneNamespace' /\ PlaceInv'
      OBVIOUS
    <3>5. LockInv'
      OBVIOUS
    <3>6. ASSUME NEW m \in Launcher PROVE LauncherInv(m)'
      OBVIOUS
    <3> QED
      BY ONLY <3>1, <3>2, <3>3, <3>4, <3>5, <3>6 DEF DaemonsTypeOK, DaemonsInv
  <2>3. ASSUME NEW l \in Launcher, TakeLock(l) PROVE Inv'
    <3> USE <2>3 DEF TakeLock
    <3>1. FlagsOK'
      OBVIOUS
    <3>2. CountsOK'
      OBVIOUS
    <3>3. LaunchersOK'
      <4>1. GivesUp(l) \/ \E pc \in Place : To(l, pc)
        BY ONLY <2>3 DEF TakeLock, Place, Holding
      <4> QED
        BY ONLY <4>1, LauncherMoves, LaunchersOK
    <3>4. OneNamespace' /\ PlaceInv'
      OBVIOUS
    <3>5. LockInv'
      OBVIOUS
    <3>6. ASSUME NEW m \in Launcher PROVE LauncherInv(m)'
      OBVIOUS
    <3> QED
      BY ONLY <3>1, <3>2, <3>3, <3>4, <3>5, <3>6 DEF DaemonsTypeOK, DaemonsInv
  <2>4. ASSUME NEW l \in Launcher, Check(l) PROVE Inv'
    <3> USE <2>4 DEF Check, Live
    <3>1. FlagsOK'
      OBVIOUS
    <3>2. CountsOK'
      OBVIOUS
    <3>3. LaunchersOK'
      <4>1. GivesUp(l) \/ \E pc \in Place : To(l, pc)
        BY ONLY <2>4 DEF Check, Place, Holding
      <4> QED
        BY ONLY <4>1, LauncherMoves, LaunchersOK
    <3>4. OneNamespace' /\ PlaceInv'
      OBVIOUS
    <3>5. LockInv'
      OBVIOUS
    <3>6. ASSUME NEW m \in Launcher PROVE LauncherInv(m)'
      OBVIOUS
    <3> QED
      BY ONLY <3>1, <3>2, <3>3, <3>4, <3>5, <3>6 DEF DaemonsTypeOK, DaemonsInv
  <2>5. ASSUME NEW l \in Launcher, SetAside(l) PROVE Inv'
    <3> USE <2>5 DEF SetAside
    <3>1. FlagsOK'
      OBVIOUS
    <3>2. CountsOK'
      OBVIOUS
    <3>3. LaunchersOK'
      BY LauncherMoves DEF Place
    <3>4. OneNamespace' /\ PlaceInv'
      OBVIOUS
    <3>5. LockInv'
      OBVIOUS
    <3>6. ASSUME NEW m \in Launcher PROVE LauncherInv(m)'
      OBVIOUS
    <3> QED
      BY ONLY <3>1, <3>2, <3>3, <3>4, <3>5, <3>6 DEF DaemonsTypeOK, DaemonsInv
  <2>6. ASSUME NEW l \in Launcher, Link(l) PROVE Inv'
    <3> USE <2>6 DEF Link
    <3>1. FlagsOK'
      OBVIOUS
    <3>2. CountsOK'
      BY ONLY <2>0, <2>6 DEF CountsOK, Link
    <3>3. LaunchersOK'
      BY Zenon, LauncherLearns DEF Place
    <3>4. OneNamespace' /\ PlaceInv'
      OBVIOUS
    <3>5. LockInv'
      OBVIOUS
    <3>6. ASSUME NEW m \in Launcher PROVE LauncherInv(m)'
      OBVIOUS
    <3> QED
      BY ONLY <3>1, <3>2, <3>3, <3>4, <3>5, <3>6 DEF DaemonsTypeOK, DaemonsInv
  <2>7. ASSUME NEW l \in Launcher, LinkFails(l) PROVE Inv'
    <3> USE <2>7 DEF LinkFails
    <3>1. FlagsOK'
      OBVIOUS
    <3>2. CountsOK'
      OBVIOUS
    <3>3. LaunchersOK'
      BY LauncherMoves DEF Place
    <3>4. OneNamespace' /\ PlaceInv'
      OBVIOUS
    <3>5. LockInv'
      OBVIOUS
    <3>6. ASSUME NEW m \in Launcher PROVE LauncherInv(m)'
      OBVIOUS
    <3> QED
      BY ONLY <3>1, <3>2, <3>3, <3>4, <3>5, <3>6 DEF DaemonsTypeOK, DaemonsInv
  <2>8. ASSUME NEW l \in Launcher, Leave(l) PROVE Inv'
    <3> USE <2>8 DEF Leave
    <3>1. FlagsOK'
      OBVIOUS
    <3>2. CountsOK'
      OBVIOUS
    <3>3. LaunchersOK'
      <4>1. GivesUp(l) \/ \E pc \in Place : To(l, pc)
        BY ONLY <2>8 DEF Leave, Place, Holding
      <4> QED
        BY ONLY <4>1, LauncherMoves, LaunchersOK
    <3>4. OneNamespace' /\ PlaceInv'
      OBVIOUS
    <3>5. LockInv'
      OBVIOUS
    <3>6. ASSUME NEW m \in Launcher PROVE LauncherInv(m)'
      OBVIOUS
    <3> QED
      BY ONLY <3>1, <3>2, <3>3, <3>4, <3>5, <3>6 DEF DaemonsTypeOK, DaemonsInv
  <2>9. ASSUME NEW l \in Launcher, Start(l) PROVE Inv'
    <3> USE <2>9 DEF Start
    <3>1. FlagsOK'
      OBVIOUS
    <3>2. CountsOK'
      OBVIOUS
    <3>3. LaunchersOK'
      BY LauncherMoves DEF Place
    <3>4. OneNamespace' /\ PlaceInv'
      OBVIOUS
    <3>5. LockInv'
      OBVIOUS
    <3>6. ASSUME NEW m \in Launcher PROVE LauncherInv(m)'
      OBVIOUS
    <3> QED
      BY ONLY <3>1, <3>2, <3>3, <3>4, <3>5, <3>6 DEF DaemonsTypeOK, DaemonsInv
  <2>10. ASSUME NEW l \in Launcher, LauncherKilled(l) PROVE Inv'
    <3> USE <2>10 DEF LauncherKilled
    <3>1. FlagsOK'
      OBVIOUS
    <3>2. CountsOK'
      OBVIOUS
    <3>3. LaunchersOK'
      BY LauncherMoves DEF Place
    <3>4. OneNamespace' /\ PlaceInv'
      OBVIOUS
    <3>5. LockInv'
      OBVIOUS
    <3>6. ASSUME NEW m \in Launcher PROVE LauncherInv(m)'
      OBVIOUS
    <3> QED
      BY ONLY <3>1, <3>2, <3>3, <3>4, <3>5, <3>6 DEF DaemonsTypeOK, DaemonsInv
  <2>11. CASE OldEnds
    <3> USE <2>11 DEF OldEnds
    <3>1. FlagsOK'
      OBVIOUS
    <3>2. CountsOK'
      OBVIOUS
    <3>3. LaunchersOK'
      OBVIOUS
    <3>4. OneNamespace' /\ PlaceInv'
      OBVIOUS
    <3>5. LockInv'
      OBVIOUS
    <3>6. ASSUME NEW m \in Launcher PROVE LauncherInv(m)'
      OBVIOUS
    <3> QED
      BY ONLY <3>1, <3>2, <3>3, <3>4, <3>5, <3>6 DEF DaemonsTypeOK, DaemonsInv
  <2>12. CASE SharedEnds
    <3> USE <2>12 DEF SharedEnds
    <3>1. FlagsOK'
      OBVIOUS
    <3>2. CountsOK'
      OBVIOUS
    <3>3. LaunchersOK'
      OBVIOUS
    <3>4. OneNamespace' /\ PlaceInv'
      OBVIOUS
    <3>5. LockInv'
      OBVIOUS
    <3>6. ASSUME NEW m \in Launcher PROVE LauncherInv(m)'
      OBVIOUS
    <3> QED
      BY ONLY <3>1, <3>2, <3>3, <3>4, <3>5, <3>6 DEF DaemonsTypeOK, DaemonsInv
  <2>13. CASE RemoveLock
    <3> USE <2>13 DEF RemoveLock
    <3>1. FlagsOK'
      OBVIOUS
    <3>2. CountsOK'
      OBVIOUS
    <3>3. LaunchersOK'
      OBVIOUS
    <3>4. OneNamespace' /\ PlaceInv'
      OBVIOUS
    <3>5. LockInv'
      OBVIOUS
    <3>6. ASSUME NEW m \in Launcher PROVE LauncherInv(m)'
      OBVIOUS
    <3> QED
      BY ONLY <3>1, <3>2, <3>3, <3>4, <3>5, <3>6 DEF DaemonsTypeOK, DaemonsInv
  <2>14. CASE UNCHANGED daemonVars
    BY <2>14 DEF daemonVars
  <2> QED
    BY <2>1, <2>2, <2>3, <2>4, <2>5, <2>6, <2>7, <2>8, <2>9, <2>10, <2>11, <2>12, <2>13, <2>14
    DEF DaemonsNext
<1> QED
  BY <1>1, <1>2, PTL DEF DaemonsSpec

(* "Never stop a running client" (share-omp-daemons.mjs:4), however many   *)
(* launchers race and wherever they are killed.                            *)
THEOREM OneNamespaceHolds == DaemonsSpec => []OneNamespace
  BY DaemonsInvariant, PTL DEF DaemonsInv

-----------------------------------------------------------------------------
(* The row of an agent.                                                    *)
Thing == [number : Nat, clear : BOOLEAN]
Call == [source : {"tps", "legacy"}, says : UNION {[D -> Thing] : D \in SUBSET Field},
         ttl : {"none", "short", "long"}, guarded : BOOLEAN]
Entry == [call : Call, seq : Nat]

RowTypes(seq, s, r) ==
  /\ seq \in Nat /\ s \in [Field -> Nat]
  /\ r \in [seq : Nat, shown : [Field -> Nat], taken : [Field -> Nat], mortal : SUBSET Field]

(* What is on its way was said before, a later report of a field is not    *)
(* older than an earlier one, and what the row would still take in is not  *)
(* older than what it has taken in.                                        *)
SaidBefore(E, seq, s) ==
  \A e \in E :
    e.call.source = "tps" =>
      /\ e.seq <= seq
      /\ \A f \in DOMAIN e.call.says : e.call.says[f].number <= s[f]
LaterIsNewer(E) ==
  \A e1, e2 \in E :
    e1.call.source = "tps" /\ e2.call.source = "tps" /\ e1.seq <= e2.seq =>
      \A f \in DOMAIN e1.call.says \cap DOMAIN e2.call.says :
        e1.call.says[f].number <= e2.call.says[f].number
AheadOfRow(E, r) ==
  \A e \in E :
    e.call.source = "tps" /\ e.seq >= r.seq =>
      \A f \in DOMAIN e.call.says : e.call.says[f].number >= r.taken[f]
RowBehind(s, r) == \A f \in Field : r.taken[f] <= s[f]

RowGood(E, seq, s, r) ==
  /\ E \subseteq Entry
  /\ RowTypes(seq, s, r)
  /\ SaidBefore(E, seq, s)
  /\ LaterIsNewer(E)
  /\ AheadOfRow(E, r)
  /\ RowBehind(s, r)

RowInv == \E E \in SUBSET Entry :
            /\ pending \in Seq(E) /\ wire \subseteq E
            /\ RowGood(E, lastSeq, said, row)

(* Only of the model and the agent a value is known.                       *)
KnownInv == known \subseteq {"model", "agent"}

LEMMA EntryParts ==
  ASSUME NEW e \in Entry
  PROVE  /\ e.call \in Call /\ e.seq \in Nat
         /\ e.call.source \in {"tps", "legacy"}
         /\ DOMAIN e.call.says \subseteq Field
         /\ \A f \in DOMAIN e.call.says : e.call.says[f] \in Thing /\ e.call.says[f].number \in Nat
<1>1. PICK D \in SUBSET Field : e.call.says \in [D -> Thing]
  BY DEF Entry, Call
<1> QED
  BY <1>1 DEF Entry, Call, Thing

(* A report of what was said last, under a number not used before.         *)
Fresh(c, s) ==
  c.source = "tps" => \A f \in DOMAIN c.says : c.says[f].number = s[f]

LEMMA EnqueueStep ==
  ASSUME NEW E \in SUBSET Entry, NEW seq \in Nat, NEW s, NEW r, RowGood(E, seq, s, r),
         NEW s2 \in [Field -> Nat], \A f \in Field : s2[f] >= s[f],
         NEW queue \in Seq(E), NEW c \in Call, Fresh(c, s2), NEW now \in Nat
  PROVE  LET done == Enqueue([seq |-> seq, queue |-> queue], c, now)
             e == [call |-> c, seq |-> NextSeq(seq, now)]
         IN  /\ e \in Entry
             /\ done.queue \in Seq(E \cup {e})
             /\ done.seq \in Nat
             /\ RowGood(E \cup {e}, done.seq, s2, r)
<1> DEFINE e == [call |-> c, seq |-> NextSeq(seq, now)]
           done == Enqueue([seq |-> seq, queue |-> queue], c, now)
           rest == Without(queue, Shape(c))
<1>1. NextSeq(seq, now) \in Nat /\ NextSeq(seq, now) > seq
  BY DEF NextSeq
<1>2. e \in Entry /\ e.call = c /\ e.seq = NextSeq(seq, now)
  BY <1>1 DEF Entry
<1>3. /\ done.seq = IF c.source = "tps" THEN e.seq ELSE seq
      /\ done.queue = Append(rest, e)
  BY DEF Enqueue
<1>4. rest \in Seq(E)
  <2>1. CASE \E i \in DOMAIN queue : Shape(queue[i].call) = Shape(c)
    <3>1. PICK i \in DOMAIN queue : rest = RemoveAt(queue, i)
      BY <2>1 DEF Without
    <3>2. i \in 1..Len(queue) /\ Len(queue) \in Nat
      BY <3>1, LenProperties
    <3>3. SubSeq(queue, 1, i - 1) \in Seq(E) /\ SubSeq(queue, i + 1, Len(queue)) \in Seq(E)
      BY <3>2, SubSeqProperties, ElementOfSeq
    <3> QED
      BY <3>1, <3>3, ConcatProperties DEF RemoveAt
  <2> QED
    BY <2>1 DEF Without
<1>5. done.queue \in Seq(E \cup {e})
  <2>1. rest \in Seq(E \cup {e})
    BY <1>4, SeqMonotonic
  <2> QED
    <3> DEFINE F == E \cup {e}
    <3>1. rest \in Seq(F) /\ e \in F /\ done.queue = Append(rest, e)
      BY <2>1, <1>3
    <3> HIDE DEF F, e, rest, done
    <3>2. done.queue \in Seq(F)
      BY <3>1, AppendProperties
    <3> QED
      BY <3>2 DEF F
<1> HIDE DEF e, done, rest
<1>6. \A d \in E \cup {e} : d \in Entry
  BY <1>2
<1>7. RowTypes(done.seq, s2, r)
  BY <1>1, <1>2, <1>3 DEF RowGood, RowTypes
<1> USE <1>1, <1>2, <1>3, <1>6, <1>7, EntryParts
<1>8. SaidBefore(E \cup {e}, done.seq, s2)
  <2>1. ASSUME NEW d \in E, d.call.source = "tps"
        PROVE  d.seq <= done.seq /\ \A f \in DOMAIN d.call.says : d.call.says[f].number <= s2[f]
    BY <2>1 DEF RowGood, SaidBefore, RowTypes
  <2>2. ASSUME c.source = "tps"
        PROVE  e.seq <= done.seq /\ \A f \in DOMAIN c.says : c.says[f].number <= s2[f]
    BY <2>2 DEF Fresh
  <2> QED
    BY <2>1, <2>2 DEF SaidBefore
<1>9. LaterIsNewer(E \cup {e})
  <2> SUFFICES ASSUME NEW d1 \in E \cup {e}, NEW d2 \in E \cup {e},
                      d1.call.source = "tps", d2.call.source = "tps", d1.seq <= d2.seq,
                      NEW f \in DOMAIN d1.call.says \cap DOMAIN d2.call.says
               PROVE  d1.call.says[f].number <= d2.call.says[f].number
    BY DEF LaterIsNewer
  <2>1. CASE d1 \in E /\ d2 \in E
    BY <2>1 DEF RowGood, LaterIsNewer
  <2>2. CASE d1 = e /\ d2 \in E
    <3>1. d2.seq <= seq
      BY <2>2 DEF RowGood, SaidBefore
    <3> QED
      BY <2>2, <3>1
  <2>3. CASE d1 \in E /\ d2 = e
    <3>1. d1.call.says[f].number <= s[f]
      BY <2>3 DEF RowGood, SaidBefore
    <3>2. d2.call.says[f].number = s2[f] /\ f \in Field
      BY <2>3 DEF Fresh
    <3>3. s[f] \in Nat /\ s2[f] \in Nat /\ s[f] <= s2[f] /\ d1.call.says[f].number \in Nat
      BY <2>3, <3>2, EntryParts DEF RowGood, RowTypes
    <3> QED
      BY ONLY <3>1, <3>2, <3>3
  <2>4. CASE d1 = e /\ d2 = e
    BY <2>4
  <2> QED
    BY <2>1, <2>2, <2>3, <2>4
<1>10. AheadOfRow(E \cup {e}, r)
  <2>1. ASSUME c.source = "tps", NEW f \in DOMAIN c.says
        PROVE  c.says[f].number >= r.taken[f]
    <3>1. c.says[f].number = s2[f] /\ f \in Field
      BY <2>1 DEF Fresh
    <3> QED
      BY <3>1 DEF RowGood, RowBehind, RowTypes
  <2> QED
    BY <2>1 DEF RowGood, AheadOfRow
<1>11. RowBehind(s2, r)
  BY DEF RowGood, RowBehind, RowTypes
<1> QED
  BY <1>5, <1>8, <1>9, <1>10, <1>11 DEF RowGood, e, done

LEMMA FewerEntries ==
  ASSUME NEW E, NEW seq, NEW s, NEW r, RowGood(E, seq, s, r), NEW F \in SUBSET E
  PROVE  RowGood(F, seq, s, r)
BY DEF RowGood, SaidBefore, LaterIsNewer, AheadOfRow

LEMMA PublishStep ==
  ASSUME NEW E \in SUBSET Entry, RowGood(E, lastSeq, said, row), wire \subseteq E,
         said' \in [Field -> Nat], \A f \in Field : said'[f] >= said[f],
         NEW queue \in Seq(E), NEW calls \in Seq(Call), Len(calls) \in {1, 2},
         \A i \in 1..Len(calls) : Fresh(calls[i], said'),
         PublishOnto(queue, calls)
  PROVE  RowInv'
<1> USE PublisherAssumption
<1>1. PICK now \in Clock :
        LET first == Enqueue([seq |-> lastSeq, queue |-> queue], calls[1], now)
            done == IF Len(calls) = 1 THEN first ELSE Enqueue(first, calls[2], now) IN
        lastSeq' = done.seq /\ pending' = done.queue
  BY DEF PublishOnto
<1>2. wire' = wire /\ row' = row
  BY DEF PublishOnto
<1> DEFINE first == Enqueue([seq |-> lastSeq, queue |-> queue], calls[1], now)
           e == [call |-> calls[1], seq |-> NextSeq(lastSeq, now)]
           F == E \cup {e}
<1>3. now \in Nat /\ lastSeq \in Nat
  BY DEF RowGood, RowTypes
<1>4. calls[1] \in Call /\ Fresh(calls[1], said')
  BY ElementOfSeq
<1>5. e \in Entry /\ first.queue \in Seq(F) /\ first.seq \in Nat /\ RowGood(F, first.seq, said', row)
  BY <1>3, <1>4, EnqueueStep
<1>6. first = [seq |-> first.seq, queue |-> first.queue]
  BY DEF Enqueue
<1> HIDE DEF first, e
<1>7. CASE Len(calls) = 1
  <2>1. lastSeq' = first.seq /\ pending' = first.queue
    BY <1>1, <1>7 DEF first
  <2>2. F \in SUBSET Entry /\ wire' \subseteq F
    BY <1>2, <1>5
  <2> QED
    BY <2>1, <2>2, <1>2, <1>5 DEF RowInv
<1>8. CASE Len(calls) = 2
  <2> DEFINE done == Enqueue([seq |-> first.seq, queue |-> first.queue], calls[2], now)
             d == [call |-> calls[2], seq |-> NextSeq(first.seq, now)]
             G == F \cup {d}
  <2>1. calls[2] \in Call /\ Fresh(calls[2], said')
    <3>1. 2 \in 1..Len(calls)
      BY ONLY <1>8
    <3>2. calls[2] \in Call
      BY ONLY <3>1, calls \in Seq(Call), ElementOfSeq
    <3> QED
      BY <3>1, <3>2
  <2>2. F \in SUBSET Entry
    BY <1>5
  <2>3. \A f \in Field : said'[f] >= said'[f]
    OBVIOUS
  <2>4. d \in Entry /\ done.queue \in Seq(G) /\ done.seq \in Nat /\ RowGood(G, done.seq, said', row)
    <3> HIDE DEF F
    <3> QED
      BY <1>3, <1>5, <2>1, <2>2, <2>3, EnqueueStep
  <2>5. lastSeq' = done.seq /\ pending' = done.queue
    BY <1>1, <1>6, <1>8 DEF first
  <2> HIDE DEF done, d
  <2>6. G \in SUBSET Entry /\ wire' \subseteq G
    BY <1>2, <2>2, <2>4
  <2> QED
    BY <2>4, <2>5, <2>6, <1>2 DEF RowInv
<1> QED
  BY <1>7, <1>8

(* What Herdr takes in is not older than what the row has taken in, nor    *)
(* than what it may take in later.                                         *)
LEMMA ReceiveStep ==
  ASSUME NEW E \in SUBSET Entry, NEW seq, NEW s, RowGood(E, seq, s, row),
         NEW e \in E, e.call.source = "tps", e.seq >= row.seq
  PROVE  /\ RowGood(E, seq, s, Accepted(e))
         /\ Accepted(e).taken \in [Field -> Nat] /\ Accepted(e).shown \in [Field -> Nat]
         /\ \A f \in Field :
              /\ Accepted(e).taken[f] >= row.taken[f] /\ Accepted(e).taken[f] <= s[f]
              /\ Accepted(e).shown[f] \in {0, Accepted(e).taken[f]} \cup {row.shown[f]}
              /\ Accepted(e).taken[f] # row.taken[f] => Accepted(e).shown[f] \in {0, Accepted(e).taken[f]}
<1> DEFINE says == e.call.says
           next == Accepted(e)
<1> USE EntryParts
<1>1. /\ next.seq = e.seq
      /\ next.shown = [f \in Field |-> IF f \notin DOMAIN says THEN row.shown[f]
                                        ELSE IF says[f].clear THEN 0 ELSE says[f].number]
      /\ next.taken = [f \in Field |-> IF f \in DOMAIN says THEN says[f].number ELSE row.taken[f]]
  BY DEF Accepted
<1> HIDE DEF next
<1>2. /\ row.shown \in [Field -> Nat] /\ row.taken \in [Field -> Nat] /\ s \in [Field -> Nat]
      /\ row.seq \in Nat /\ e \in Entry
  BY DEF RowGood, RowTypes
<1>3. \A f \in DOMAIN says : says[f].number <= s[f] /\ says[f].number >= row.taken[f]
  BY DEF RowGood, SaidBefore, AheadOfRow
<1>4. next.taken \in [Field -> Nat] /\ next.shown \in [Field -> Nat] /\ next.seq \in Nat
  BY <1>1, <1>2
<1>5. \A f \in Field : next.taken[f] >= row.taken[f] /\ next.taken[f] <= s[f]
  BY <1>1, <1>2, <1>3 DEF RowGood, RowBehind
<1>6. \A f \in Field :
        /\ next.shown[f] \in {0, next.taken[f]} \cup {row.shown[f]}
        /\ next.taken[f] # row.taken[f] => next.shown[f] \in {0, next.taken[f]}
  BY <1>1
<1>7. AheadOfRow(E, next)
  <2> SUFFICES ASSUME NEW d \in E, d.call.source = "tps", d.seq >= next.seq,
                      NEW f \in DOMAIN d.call.says
               PROVE  d.call.says[f].number >= next.taken[f]
    BY DEF AheadOfRow
  <2>1. d \in Entry /\ f \in Field
    OBVIOUS
  <2>2. CASE f \in DOMAIN says
    <3>1. d.call.says[f].number >= says[f].number
      BY <2>2, <1>1 DEF RowGood, LaterIsNewer
    <3> QED
      BY <3>1, <2>1, <2>2, <1>1
  <2>3. CASE f \notin DOMAIN says
    <3>1. d.seq >= row.seq
      BY <1>1, <1>2, <2>1
    <3>2. d.call.says[f].number >= row.taken[f]
      BY <3>1 DEF RowGood, AheadOfRow
    <3> QED
      BY <3>2, <2>1, <2>3, <1>1
  <2> QED
    BY <2>2, <2>3
<1>8. next \in [seq : Nat, shown : [Field -> Nat], taken : [Field -> Nat], mortal : SUBSET Field]
  <2>1. DOMAIN says \subseteq Field /\ row.mortal \subseteq Field
    BY DEF RowGood, RowTypes
  <2>2. next = [seq |-> next.seq, shown |-> next.shown, taken |-> next.taken, mortal |-> next.mortal]
    BY DEF next, Accepted
  <2>3. next.mortal \subseteq Field
    BY <2>1 DEF next, Accepted
  <2> QED
    BY <1>4, <2>2, <2>3
<1> QED
  BY <1>4, <1>5, <1>6, <1>7, <1>8 DEF RowGood, RowTypes, RowBehind, next

(* One thing more is said of some fields.                                  *)
LEMMA SayStep ==
  ASSUME RowInv, NEW fields \in SUBSET Field, SayMore(fields)
  PROVE  /\ said' \in [Field -> Nat]
         /\ \A f \in Field : said'[f] >= said[f]
BY DEF RowInv, RowGood, RowTypes, SayMore

LEMMA CallsAreCalls ==
  ASSUME NEW s \in [Field -> Nat], NEW D \in SUBSET Field, NEW says \in [D -> Thing],
         \A f \in D : says[f].number = s[f],
         NEW ttl \in {"none", "short", "long"}, NEW guarded \in BOOLEAN
  PROVE  /\ Main(says, ttl, guarded) \in Call
         /\ Fresh(Main(says, ttl, guarded), s)
<1>1. says \in UNION {[A -> Thing] : A \in SUBSET Field}
  OBVIOUS
<1> QED
  BY <1>1 DEF Main, Call, Fresh

LEMMA LegacyIsACall ==
  ASSUME NEW s
  PROVE  LegacyClear \in Call /\ Fresh(LegacyClear, s)
<1>1. [f \in {} |-> Null(0)] \in [{} -> Thing]
  BY Zenon
<1>2. [f \in {} |-> Null(0)] \in UNION {[A -> Thing] : A \in SUBSET Field}
  BY <1>1
<1> HIDE DEF Call
<1> QED
  BY <1>2 DEF LegacyClear, Call, Fresh

(* What is said of one field.                                              *)
LEMMA OneField ==
  ASSUME NEW s \in [Field -> Nat], NEW g \in Field,
         NEW ttl \in {"none", "short", "long"}, NEW guarded \in BOOLEAN
  PROVE  /\ Main([f \in {g} |-> Value(s[f])], ttl, guarded) \in Call
         /\ Fresh(Main([f \in {g} |-> Value(s[f])], ttl, guarded), s)
         /\ Main([f \in {g} |-> Null(s[f])], ttl, guarded) \in Call
         /\ Fresh(Main([f \in {g} |-> Null(s[f])], ttl, guarded), s)
<1> DEFINE v == [f \in {g} |-> Value(s[f])]
           n == [f \in {g} |-> Null(s[f])]
<1>1. v \in [{g} -> Thing] /\ n \in [{g} -> Thing]
  BY DEF Value, Null, Thing
<1>2. \A f \in {g} : v[f].number = s[f] /\ n[f].number = s[f]
  BY DEF Value, Null
<1>3. {g} \in SUBSET Field
  OBVIOUS
<1> HIDE DEF v, n
<1>4. Main(v, ttl, guarded) \in Call /\ Fresh(Main(v, ttl, guarded), s)
  BY <1>1, <1>2, <1>3, CallsAreCalls
<1>5. Main(n, ttl, guarded) \in Call /\ Fresh(Main(n, ttl, guarded), s)
  BY <1>1, <1>2, <1>3, CallsAreCalls
<1> QED
  BY <1>4, <1>5 DEF v, n

LEMMA ReportsAreCalls ==
  ASSUME said' \in [Field -> Nat]
  PROVE  \A c \in {PublishModel, PublishZero, PublishRate, PublishAgent, ClearModel} :
           c \in Call /\ Fresh(c, said')
<1>1. {"model", "tps", "agent"} \subseteq Field
  BY ReporterAssumption
<1>2. \A g \in Field : \A ttl \in {"none", "short", "long"}, guarded \in BOOLEAN :
        /\ Main([f \in {g} |-> Value(said'[f])], ttl, guarded) \in Call
        /\ Fresh(Main([f \in {g} |-> Value(said'[f])], ttl, guarded), said')
        /\ Main([f \in {g} |-> Null(said'[f])], ttl, guarded) \in Call
        /\ Fresh(Main([f \in {g} |-> Null(said'[f])], ttl, guarded), said')
  BY OneField
<1> HIDE DEF Main, Call, Fresh, Value, Null
<1>3. PublishModel \in Call /\ Fresh(PublishModel, said')
  BY ONLY <1>1, <1>2 DEF PublishModel
<1>4. PublishZero \in Call /\ Fresh(PublishZero, said')
  BY ONLY <1>1, <1>2 DEF PublishZero
<1>5. PublishRate \in Call /\ Fresh(PublishRate, said')
  BY ONLY <1>1, <1>2 DEF PublishRate
<1>6. PublishAgent \in Call /\ Fresh(PublishAgent, said')
  BY ONLY <1>1, <1>2 DEF PublishAgent
<1>7. ClearModel \in Call /\ Fresh(ClearModel, said')
  BY ONLY <1>1, <1>2 DEF ClearModel
<1> QED
  BY ONLY <1>3, <1>4, <1>5, <1>6, <1>7

LEMMA SayAndPublish ==
  ASSUME RowInv, NEW fields \in SUBSET Field, SayMore(fields), NEW calls \in Seq(Call),
         Len(calls) \in {1, 2}, \A i \in 1..Len(calls) : Fresh(calls[i], said'), Publish(calls)
  PROVE  RowInv' /\ Board!Say
<1>1. PICK E \in SUBSET Entry :
        pending \in Seq(E) /\ wire \subseteq E /\ RowGood(E, lastSeq, said, row)
  BY DEF RowInv
<1>2. said' \in [Field -> Nat] /\ \A f \in Field : said'[f] >= said[f]
  BY SayStep
<1>3. RowInv'
  BY <1>1, <1>2, PublishStep DEF Publish
<1>4. row' = row
  BY DEF Publish, PublishOnto
<1> QED
  BY <1>2, <1>3, <1>4 DEF Board!Say

LEMMA TwoCalls ==
  /\ \A c \in Call : <<c>> \in Seq(Call) /\ Len(<<c>>) = 1 /\ <<c>>[1] = c
  /\ \A c, d \in Call : /\ <<c, d>> \in Seq(Call) /\ Len(<<c, d>>) = 2
                         /\ <<c, d>>[1] = c /\ <<c, d>>[2] = d
<1> HIDE DEF Call
<1> QED
  OBVIOUS

LEMMA ReporterKeeps ==
  ASSUME RowInv, KnownInv, ReporterStep
  PROVE  RowInv' /\ (Board!Say \/ UNCHANGED <<said, row.taken, row.shown>>)
<1> USE ReporterAssumption
<1>0. PICK E \in SUBSET Entry :
        pending \in Seq(E) /\ wire \subseteq E /\ RowGood(E, lastSeq, said, row)
  BY DEF RowInv
<1>1. CASE Open
  <2>1. SayMore(Field) /\ said' \in [Field -> Nat]
    BY <1>1, SayStep DEF Open
  <2> DEFINE says == [f \in Field |-> IF f = "tps" THEN Value(said'[f]) ELSE Null(said'[f])]
             c == Main(says, "long", FALSE)
  <2>2. says \in [Field -> Thing] /\ \A f \in Field : says[f].number = said'[f]
    BY <2>1 DEF Value, Null, Thing
  <2>3. Publish(<<LegacyClear, c>>)
    BY <1>1 DEF Open
  <2> HIDE DEF says
  <2>4. c \in Call /\ Fresh(c, said')
    BY <2>1, <2>2, CallsAreCalls
  <2> HIDE DEF c
  <2>5. LegacyClear \in Call /\ Fresh(LegacyClear, said')
    BY LegacyIsACall
  <2>6. \A i \in 1..2 : Fresh(<<LegacyClear, c>>[i], said')
    BY <2>4, <2>5
  <2> QED
    BY <2>1, <2>3, <2>4, <2>5, <2>6, TwoCalls, SayAndPublish
<1>2. ASSUME NEW fields \in SUBSET Field, SayMore(fields),
             NEW c \in {PublishModel, PublishZero, PublishRate, PublishAgent, ClearModel},
             \/ Publish(<<c>>) \/ Publish(<<PublishZero, c>>)
      PROVE  RowInv' /\ Board!Say
  <2>1. c \in Call /\ PublishZero \in Call /\ Fresh(c, said') /\ Fresh(PublishZero, said')
    BY <1>2, SayStep, ReportsAreCalls
  <2> HIDE DEF Call, Fresh
  <2>2. CASE Publish(<<c>>)
    <3>1. \A i \in 1..1 : Fresh(<<c>>[i], said')
      BY <2>1, TwoCalls
    <3> QED
      BY <1>2, <2>1, <2>2, <3>1, TwoCalls, SayAndPublish
  <2>3. CASE Publish(<<PublishZero, c>>)
    <3>1. \A i \in 1..2 : Fresh(<<PublishZero, c>>[i], said')
      BY <2>1, TwoCalls
    <3> QED
      BY <1>2, <2>1, <2>3, <3>1, TwoCalls, SayAndPublish
  <2> QED
    BY <1>2, <2>2, <2>3
<1>3. CASE SetModel
  BY <1>2, <1>3 DEF SetModel
<1>4. CASE SetDisplayAgent
  BY <1>2, <1>4 DEF SetDisplayAgent
<1>5. CASE ResetSession
  BY <1>2, <1>5 DEF ResetSession
<1>6. CASE ShowRate
  BY <1>2, <1>6 DEF ShowRate
<1>7. CASE ShowZero
  BY <1>2, <1>7 DEF ShowZero
<1>8. CASE RefreshMetadata
  <2> DEFINE says == [f \in known \cup {"tps"} |-> Value(said[f])]
             ttl == IF fast THEN "short" ELSE "long"
             c == Main(says, ttl, "agent" \in known)
  <2>1. Publish(<<c>>) /\ said' = said /\ row' = row
    BY <1>8 DEF RefreshMetadata, reporterVars, Publish, PublishOnto
  <2>2. known \cup {"tps"} \in SUBSET Field /\ said \in [Field -> Nat]
    BY <1>0 DEF KnownInv, RowGood, RowTypes
  <2>3. /\ says \in [known \cup {"tps"} -> Thing]
        /\ \A f \in known \cup {"tps"} : says[f].number = said[f]
    BY <2>2 DEF Value, Thing
  <2>4. ttl \in {"none", "short", "long"} /\ ("agent" \in known) \in BOOLEAN
    OBVIOUS
  <2> HIDE DEF says, ttl
  <2>5. c \in Call /\ Fresh(c, said)
    BY <2>2, <2>3, <2>4, CallsAreCalls
  <2> HIDE DEF c
  <2>6. /\ said' \in [Field -> Nat] /\ \A f \in Field : said'[f] >= said[f]
        /\ \A i \in 1..Len(<<c>>) : Fresh(<<c>>[i], said')
    BY <2>1, <2>2, <2>5
  <2>7. RowInv'
    BY <1>0, <2>1, <2>5, <2>6, TwoCalls, PublishStep DEF Publish
  <2> QED
    BY <2>1, <2>7
<1>9. CASE Close
  <2>1. SayMore(Field) /\ said' \in [Field -> Nat] /\ \A f \in Field : said'[f] >= said[f]
    BY <1>9, SayStep DEF Close
  <2> DEFINE says == [f \in Field |-> Null(said'[f])]
             c == Main(says, "none", FALSE)
             spared == IF Spared = {} THEN <<>> ELSE <<pending[CHOOSE i \in Spared : TRUE]>>
  <2>2. says \in [Field -> Thing] /\ \A f \in Field : says[f].number = said'[f]
    BY <2>1 DEF Null, Thing
  <2>3. PublishOnto(spared, <<c>>)
    BY <1>9 DEF Close, ClearAll
  <2> HIDE DEF says
  <2>4. c \in Call /\ Fresh(c, said')
    BY <2>1, <2>2, CallsAreCalls
  <2> HIDE DEF c
  <2>5. spared \in Seq(E)
    <3>1. CASE Spared = {}
      BY <3>1
    <3>2. CASE Spared # {}
      <4>1. (CHOOSE i \in Spared : TRUE) \in DOMAIN pending
        BY <3>2 DEF Spared
      <4>2. pending[CHOOSE i \in Spared : TRUE] \in E
        BY <1>0, <4>1, LenProperties, ElementOfSeq
      <4> QED
        BY <3>2, <4>2
    <3> QED
      BY <3>1, <3>2
  <2> HIDE DEF spared
  <2>6. \A i \in 1..Len(<<c>>) : Fresh(<<c>>[i], said')
    BY <2>4
  <2>7. RowInv'
    BY <1>0, <2>1, <2>3, <2>4, <2>5, <2>6, TwoCalls, PublishStep
  <2> QED
    BY <2>1, <2>3, <2>7 DEF Board!Say, PublishOnto
<1>10. CASE Killed
  <2>1. pending' \in Seq(E)
    BY <1>10 DEF Killed
  <2> QED
    BY <1>0, <1>10, <2>1 DEF Killed, RowInv
<1> QED
  BY <1>1, <1>3, <1>4, <1>5, <1>6, <1>7, <1>8, <1>9, <1>10 DEF ReporterStep

LEMMA PublisherKeeps ==
  ASSUME RowInv, PublisherStep, UNCHANGED reporterVars
  PROVE  RowInv' /\ (Board!TakeIn \/ UNCHANGED <<said, row.taken, row.shown>>)
<1>0. PICK E \in SUBSET Entry :
        pending \in Seq(E) /\ wire \subseteq E /\ RowGood(E, lastSeq, said, row)
  BY DEF RowInv
<1>1. said' = said
  BY DEF reporterVars
<1>2. CASE DropExpired \/ SendNext \/ Settled
  <2>1. pending # <<>> => Head(pending) \in E /\ Tail(pending) \in Seq(E)
    BY <1>0, HeadTailProperties
  <2>2. pending' \in Seq(E) /\ wire' \subseteq E /\ lastSeq' = lastSeq /\ row' = row
    BY <1>0, <1>2, <2>1 DEF DropExpired, SendNext, Settled
  <2> QED
    BY <1>0, <1>1, <2>2 DEF RowInv
<1>3. ASSUME NEW e \in wire, Lose(e) \/ (Receive(e) /\ row' = row)
      PROVE  RowInv' /\ UNCHANGED <<said, row.taken, row.shown>>
  <2>1. wire' \subseteq E /\ pending' = pending /\ lastSeq' = lastSeq /\ row' = row
    BY <1>0, <1>3 DEF Lose, Receive
  <2> QED
    BY <1>0, <1>1, <2>1 DEF RowInv
<1>4. ASSUME NEW e \in wire, Receive(e), row' # row
      PROVE  RowInv' /\ Board!TakeIn
  <2>1. /\ wire' \subseteq E /\ pending' = pending /\ lastSeq' = lastSeq
        /\ e \in E /\ e.call.source = "tps" /\ e.seq >= row.seq /\ row' = Accepted(e)
    BY <1>0, <1>4 DEF Receive
  <2>2. /\ RowGood(E, lastSeq, said, Accepted(e))
        /\ Accepted(e).taken \in [Field -> Nat] /\ Accepted(e).shown \in [Field -> Nat]
        /\ \A f \in Field :
             /\ Accepted(e).taken[f] >= row.taken[f] /\ Accepted(e).taken[f] <= said[f]
             /\ Accepted(e).shown[f] \in {0, Accepted(e).taken[f]} \cup {row.shown[f]}
             /\ Accepted(e).taken[f] # row.taken[f] =>
                  Accepted(e).shown[f] \in {0, Accepted(e).taken[f]}
    BY <1>0, <2>1, ReceiveStep
  <2> HIDE DEF Accepted
  <2>3. RowInv'
    BY <1>0, <1>1, <2>1, <2>2 DEF RowInv
  <2>4. Board!TakeIn
    BY <1>1, <2>1, <2>2 DEF Board!TakeIn
  <2> QED
    BY <2>3, <2>4
<1>5. ASSUME NEW g \in Field, Expire(g)
      PROVE  RowInv' /\ Board!TakeIn
  <2>1. row.shown \in [Field -> Nat] /\ row.taken \in [Field -> Nat]
    BY <1>0 DEF RowGood, RowTypes
  <2>2. /\ pending' = pending /\ wire' = wire /\ lastSeq' = lastSeq
        /\ row' = [row EXCEPT !.shown[g] = 0]
    BY <1>5 DEF Expire
  <2>3. row'.shown = [row.shown EXCEPT ![g] = 0] /\ row'.taken = row.taken /\ row'.seq = row.seq
    BY <2>2 DEF Expire
  <2>4. RowGood(E, lastSeq, said, row')
    <3>1. row' \in [seq : Nat, shown : [Field -> Nat], taken : [Field -> Nat],
                    mortal : SUBSET Field]
      BY <1>0, <2>1, <2>2 DEF RowGood, RowTypes
    <3> QED
      BY <3>1, <1>0, <2>1, <2>3 DEF RowGood, RowTypes, AheadOfRow, RowBehind
  <2>5. RowInv'
    BY <1>0, <1>1, <2>2, <2>4 DEF RowInv
  <2>6. Board!TakeIn
    BY <1>0, <1>1, <2>1, <2>3 DEF Board!TakeIn, RowGood, RowBehind
  <2> QED
    BY <2>5, <2>6
<1> QED
  BY <1>2, <1>3, <1>4, <1>5 DEF PublisherStep

(* The row keeps what MetadataBoard promises: it shows what was said last  *)
(* or nothing, and never goes back, for every clock and every length of    *)
(* the queue (herdr-metadata-publisher.mjs:159).                           *)
THEOREM RowImplementsBoard == Spec => RowKeepsPromise
<1>1. Init => RowInv /\ KnownInv /\ Board!BoardInit
  <2> SUFFICES ASSUME Init PROVE RowInv /\ KnownInv /\ Board!BoardInit
    OBVIOUS
  <2>1. /\ lastSeq = 0 /\ pending = <<>> /\ wire = {} /\ known = {}
        /\ row = [seq |-> 0, shown |-> [f \in Field |-> 0], taken |-> [f \in Field |-> 0],
                  mortal |-> {}]
        /\ said = [f \in Field |-> 0]
    BY DEF Init, PublisherInit, ReporterInit
  <2>2. row.seq = 0 /\ row.shown = [f \in Field |-> 0] /\ row.taken = [f \in Field |-> 0]
    BY <2>1
  <2>3. RowGood({}, lastSeq, said, row)
    BY <2>1, <2>2 DEF RowGood, RowTypes, SaidBefore, LaterIsNewer, AheadOfRow, RowBehind
  <2>4. {} \in SUBSET Entry /\ pending \in Seq({}) /\ wire \subseteq {}
    BY <2>1
  <2> QED
    BY <2>1, <2>2, <2>3, <2>4 DEF RowInv, KnownInv, Board!BoardInit
<1>2. RowInv /\ KnownInv /\ [Next]_vars =>
        RowInv' /\ KnownInv' /\ [Board!BoardNext]_<<said, row.taken, row.shown>>
  <2> SUFFICES ASSUME RowInv, KnownInv, [Next]_vars
               PROVE  /\ RowInv' /\ KnownInv'
                      /\ Board!BoardNext \/ UNCHANGED <<said, row.taken, row.shown>>
    OBVIOUS
  <2>1. CASE ReporterStep
    <3>1. KnownInv'
      BY <2>1 DEF ReporterStep, Open, SetModel, SetDisplayAgent, ResetSession, ShowRate,
                  ShowZero, RefreshMetadata, Close, Killed, reporterVars, KnownInv
    <3> QED
      BY <2>1, <3>1, ReporterKeeps DEF Board!BoardNext
  <2>2. CASE PublisherStep /\ UNCHANGED reporterVars
    <3>1. KnownInv'
      BY <2>2 DEF reporterVars, KnownInv
    <3> QED
      BY <2>2, <3>1, PublisherKeeps DEF Board!BoardNext
  <2>3. CASE UNCHANGED vars
    BY <2>3 DEF vars, publisherVars, reporterVars, RowInv, KnownInv
  <2> QED
    BY <2>1, <2>2, <2>3 DEF Next
<1> QED
  BY <1>1, <1>2, PTL DEF Spec, RowKeepsPromise, Board!BoardSpec, Board!boardVars

-----------------------------------------------------------------------------
(* Numbers below another are well founded: no set of numbers goes down for *)
(* ever, and one that is bounded has a greatest.                           *)
LEMMA NoDescent ==
  ASSUME NEW S \in SUBSET Nat, \A n \in S : \E m \in S : m < n
  PROVE  S = {}
<1> DEFINE R == {r \in Nat \X Nat : r[1] < r[2]}
<1>1. IsWellFoundedOn(R, Nat)
  BY NatLessThanWellFounded DEF OpToRel
<1>2. SUFFICES ASSUME S # {} PROVE FALSE
  OBVIOUS
<1>3. PICK x \in S : \A y \in S : <<y, x>> \notin R
  <2> HIDE DEF R
  <2> QED
    BY <1>1, <1>2, WFMin
<1> QED
  BY <1>3

LEMMA Greatest ==
  ASSUME NEW n \in Nat, NEW S \in SUBSET (1..n), S # {}
  PROVE  \E m \in S : \A i \in S : i <= m
<1> DEFINE T == {k \in 0..n : n - k \in S}
<1>1. SUFFICES ASSUME \A m \in S : \E i \in S : i > m PROVE FALSE
  OBVIOUS
<1>2. ASSUME NEW k \in T PROVE \E j \in T : j < k
  <2>1. PICK i \in S : i > n - k
    BY <1>1
  <2>2. i \in 1..n /\ n - i \in 0..n /\ n - (n - i) = i /\ n - i < k
    BY <2>1
  <2> QED
    BY <2>2
<1>3. T \in SUBSET Nat
  OBVIOUS
<1>4. T = {}
  <2> HIDE DEF T
  <2> QED
    BY <1>2, <1>3, NoDescent
<1>5. PICK i \in S : TRUE
  OBVIOUS
<1>6. i \in 1..n /\ n - i \in 0..n /\ n - (n - i) = i
  OBVIOUS
<1>7. n - i \in T
  BY <1>6
<1> QED
  BY <1>4, <1>7

-----------------------------------------------------------------------------
(* The meter.                                                              *)
MeterTypeOK ==
  /\ streaming \in BOOLEAN /\ chunked \in BOOLEAN
  /\ buffer \in Text /\ pushed \in Text
  /\ total.text \in Text
  /\ counter \in Tokenizer

(* A kept count is one of the whole buffer, and nothing gathers before the *)
(* first piece.                                                            *)
MeterInv ==
  /\ MeterTypeOK
  /\ TextCountedOnce
  /\ kept # NoCount => kept = Count(buffer)
  /\ chunked \/ buffer = <<>>

LEMMA TextsJoin ==
  ASSUME NEW a \in Text, NEW b \in Text, NEW c \in Text
  PROVE  (a \o b) \o c = a \o (b \o c)
<1> DEFINE L == {"letter", "space"}
<1>1. a \in Seq(L) /\ b \in Seq(L) /\ c \in Seq(L) /\ Text = Seq(L)
  BY DEF Text
<1> HIDE DEF L
<1> QED
  BY <1>1, ConcatAssociative

LEMMA PieceIsText == Piece \subseteq Text
<1>1. <<"letter">> \in Text /\ <<"space">> \in Text /\ <<"letter", "space", "letter">> \in Text
  BY DEF Text
<1> QED
  BY <1>1 DEF Piece

(* A text is cut behind one of its letters, or is empty.                   *)
LEMMA CutInside ==
  ASSUME NEW text \in Text
  PROVE  CutAt(text) \in 0..Len(text) /\ (CutAt(text) > 0 \/ text = <<>>)
<1>1. Len(text) \in Nat /\ (Len(text) > 0 \/ text = <<>>)
  BY DEF Text
<1>2. CASE Boundary(text) # {} /\ Len(text) - LastBoundary(text) + 1 <= WordLimit
  <2>1. Boundary(text) \in SUBSET (1..Len(text))
    BY <1>1 DEF Boundary
  <2>2. \E m \in Boundary(text) : \A i \in Boundary(text) : i <= m
    BY <1>1, <1>2, <2>1, Greatest
  <2>3. LastBoundary(text) \in Boundary(text)
    BY <2>2 DEF LastBoundary
  <2>4. LastBoundary(text) \in 2..Len(text)
    BY <2>3 DEF Boundary
  <2> QED
    BY <1>1, <1>2, <2>4 DEF CutAt
<1>3. CASE ~(Boundary(text) # {} /\ Len(text) - LastBoundary(text) + 1 <= WordLimit)
  BY <1>1, <1>3 DEF CutAt
<1> QED
  BY <1>2, <1>3

(* What a flush counts and what it leaves are the buffer.                  *)
LEMMA FlushedCounts ==
  ASSUME MeterInv, NEW cut \in 0..Len(buffer), chunked => cut > 0 \/ buffer = <<>>
  PROVE  /\ Flushed(cut).text \in Text
         /\ SubSeq(buffer, cut + 1, Len(buffer)) \in Text
         /\ Flushed(cut).text \o SubSeq(buffer, cut + 1, Len(buffer)) = pushed
         /\ Flushed(cut).by \subseteq {counter}
<1> DEFINE head == SubSeq(buffer, 1, cut)
           rest == SubSeq(buffer, cut + 1, Len(buffer))
           L == {"letter", "space"}
<1>0. buffer \in Seq(L) /\ total.text \in Seq(L) /\ Text = Seq(L) /\ Len(buffer) \in Nat
  BY DEF MeterInv, MeterTypeOK, Text
<1>1. head \in Seq(L) /\ rest \in Seq(L) /\ head \o rest = buffer
  <2>1. \A i \in 1..Len(buffer) : buffer[i] \in L
    BY <1>0
  <2>2. /\ cut \in Int /\ cut + 1 \in Int /\ Len(buffer) \in Int /\ 1 \in Int
        /\ cut \in 0..Len(buffer)
    BY <1>0
  <2> HIDE DEF L
  <2>3. head \in Seq(L)
    BY <1>0, <2>1, <2>2, SubSeqProperties
  <2>4. rest \in Seq(L)
    BY <1>0, <2>1, <2>2, SubSeqProperties
  <2>5. head \o rest = SubSeq(buffer, 1, Len(buffer))
    <3>1. \A k \in {cut}, n \in {Len(buffer)} :
            k \in 0..n => 1 \in 1..(n + 1) /\ k \in (1 - 1)..n /\ n \in k..n
      BY <1>0
    <3>2. 1 \in 1..(Len(buffer) + 1) /\ cut \in (1 - 1)..Len(buffer)
          /\ Len(buffer) \in cut..Len(buffer) /\ buffer \in Seq(L)
      BY ONLY <1>0, <2>2, <3>1
    <3> QED
      BY ONLY <3>2, ConcatAdjacentSubSeq
  <2> HIDE DEF L, head, rest
  <2> QED
    BY <1>0, <2>3, <2>4, <2>5, SubSeqFull
<1>2. CASE ~chunked \/ buffer = <<>>
  <2>1. Flushed(cut) = total /\ buffer = <<>>
    BY <1>2 DEF Flushed, MeterInv
  <2>2. rest = buffer
    BY <1>0, <2>1
  <2>3. Flushed(cut).text \o rest = pushed /\ Flushed(cut).by \subseteq {counter}
    BY <2>1, <2>2 DEF MeterInv, TextCountedOnce
  <2> HIDE DEF rest, L
  <2> QED
    BY <1>0, <1>1, <2>1, <2>3 DEF rest
<1>3. CASE chunked /\ buffer # <<>>
  <2> DEFINE counted == [text |-> head, by |-> {counter}]
  <2>1. cut = Len(buffer) => head = buffer
    BY <1>0, SubSeqFull
  <2>2. Flushed(cut) = Plus(total, counted)
    <3> HIDE DEF L
    <3>1. CASE cut = Len(buffer) /\ kept # NoCount
      BY <1>3, <2>1, <3>1 DEF Flushed, Count, MeterInv
    <3>2. CASE ~(cut = Len(buffer) /\ kept # NoCount)
      BY <1>3, <3>2 DEF Flushed, Count
    <3> QED
      BY <3>1, <3>2
  <2> HIDE DEF head, rest, L
  <2>3. Flushed(cut).text = total.text \o head /\ Flushed(cut).by = total.by \cup {counter}
    BY <2>2 DEF Plus
  <2> HIDE DEF counted
  <2>4. (total.text \o head) \o rest = total.text \o (head \o rest)
    <3> total.text \in Text /\ head \in Text /\ rest \in Text
      BY <1>0, <1>1
    <3> QED
      BY TextsJoin
  <2>5. total.text \o head \in Seq(L)
    BY <1>0, <1>1
  <2>6. (total.text \o head) \o rest = pushed
    BY <1>1, <2>4 DEF MeterInv, TextCountedOnce
  <2>7. Flushed(cut).by \subseteq {counter}
    BY <2>3 DEF MeterInv, TextCountedOnce
  <2>8. Flushed(cut).text \o rest = pushed
    BY <2>3, <2>6
  <2> QED
    BY <1>0, <1>1, <2>3, <2>5, <2>7, <2>8 DEF rest
<1> QED
  BY <1>2, <1>3

(* Whatever the pieces and samples, each letter is counted once, with the  *)
(* stream's tokenizer (token-rate-meter.mjs, push, rate, #flush).          *)
THEOREM TextCountedOnceHolds == MeterSpec => []TextCountedOnce
<1>1. MeterInit => MeterInv
  <2> SUFFICES ASSUME MeterInit PROVE MeterInv
    OBVIOUS
  <2>1. <<>> \in Text /\ <<>> \o <<>> = <<>>
    BY DEF Text
  <2>2. total.text = <<>> /\ total.by = {}
    BY DEF MeterInit, Nothing
  <2> QED
    BY <2>1, <2>2 DEF MeterInit, MeterInv, MeterTypeOK, TextCountedOnce
<1>2. MeterInv /\ [MeterNext]_meterVars => MeterInv'
  <2> SUFFICES ASSUME MeterInv, [MeterNext]_meterVars PROVE MeterInv'
    OBVIOUS
  <2> USE DEF MeterInv, MeterTypeOK, TextCountedOnce, Nothing
  <2>0. <<>> \in Text /\ <<>> \o <<>> = <<>>
    BY DEF Text
  <2>1. CASE Begin
    BY <2>0, <2>1 DEF Begin
  <2>2. ASSUME NEW piece \in Piece, NEW next \in BOOLEAN, Push(piece, next)
        PROVE  MeterInv'
    <3> DEFINE cut == IF next /\ chunked THEN CutAt(buffer) ELSE 0
               rest == SubSeq(buffer, cut + 1, Len(buffer))
    <3>1. piece \in Text
      BY PieceIsText
    <3>2. /\ total'.text \in Text /\ rest \in Text
          /\ total'.text \o rest = pushed /\ total'.by \subseteq {counter}
      <4>1. CASE next /\ chunked
        <5>1. cut = CutAt(buffer) /\ total' = Flushed(cut)
          BY <2>2, <4>1 DEF Push
        <5>2. cut \in 0..Len(buffer) /\ (cut > 0 \/ buffer = <<>>)
          BY <5>1, CutInside
        <5> HIDE DEF cut
        <5> QED
          BY <5>1, <5>2, FlushedCounts
      <4>2. CASE next /\ ~chunked
        <5>1. cut = 0 /\ total' = Flushed(cut)
          BY <2>2, <4>2 DEF Push
        <5>2. 0 \in 0..Len(buffer)
          BY DEF Text
        <5> HIDE DEF cut
        <5> QED
          BY <4>2, <5>1, <5>2, FlushedCounts
      <4>3. CASE ~next
        <5>1. cut = 0 /\ total' = total
          BY <2>2, <4>3 DEF Push
        <5>2. rest = buffer
          BY <5>1, SubSeqFull DEF Text
        <5> HIDE DEF cut, rest
        <5> QED
          BY <5>1, <5>2
      <4> QED
        BY <4>1, <4>2, <4>3
    <3>3. /\ buffer' = rest \o piece /\ pushed' = pushed \o piece
          /\ chunked' = TRUE /\ kept' = NoCount
          /\ UNCHANGED <<streaming, counter>>
      BY <2>2 DEF Push
    <3> HIDE DEF cut, rest
    <3>4. buffer' \in Text /\ pushed' \in Text
      BY <3>1, <3>2, <3>3 DEF Text
    <3>5. total'.text \o (rest \o piece) = (total'.text \o rest) \o piece
      <4>1. total'.text \in Text /\ rest \in Text /\ piece \in Text
        BY ONLY <3>1, <3>2
      <4> QED
        BY ONLY <4>1, TextsJoin
    <3>6. total'.text \o buffer' = pushed'
      BY ONLY <3>2, <3>3, <3>5
    <3> QED
      BY <3>2, <3>3, <3>4, <3>6
  <2>3. ASSUME NEW piece \in Piece, PushFirst(piece) PROVE MeterInv'
    <3>1. piece \in Text /\ <<>> \o piece = piece
      BY PieceIsText DEF Text
    <3> QED
      BY <2>0, <2>3, <3>1 DEF PushFirst
  <2>4. CASE Sample
    BY <2>4 DEF Sample, Count
  <2>5. CASE End
    <3>1. Len(buffer) \in 0..Len(buffer) /\ (Len(buffer) > 0 \/ buffer = <<>>)
      BY DEF Text
    <3>2. /\ Flushed(Len(buffer)).text \in Text
          /\ Flushed(Len(buffer)).text \o SubSeq(buffer, Len(buffer) + 1, Len(buffer)) = pushed
          /\ Flushed(Len(buffer)).by \subseteq {counter}
      BY <3>1, FlushedCounts
    <3>3. SubSeq(buffer, Len(buffer) + 1, Len(buffer)) = <<>>
      BY DEF Text
    <3>4. total' = Flushed(Len(buffer)) /\ total'.text \in Text
      BY <2>5, <3>2 DEF End
    <3>5. total'.text \o <<>> = pushed /\ total'.by \subseteq {counter}
      BY <3>2, <3>3, <3>4
    <3> QED
      BY <2>0, <2>5, <3>4, <3>5 DEF End
  <2>6. ASSUME NEW tokenizer \in Tokenizer, Reconfigure(tokenizer) PROVE MeterInv'
    BY <2>0, <2>6 DEF Reconfigure
  <2>7. CASE UNCHANGED meterVars
    BY <2>7 DEF meterVars, Count
  <2> QED
    BY <2>1, <2>2, <2>3, <2>4, <2>5, <2>6, <2>7 DEF MeterNext
<1>3. MeterInv => TextCountedOnce
  BY DEF MeterInv
<1> QED
  BY <1>1, <1>2, <1>3, PTL DEF MeterSpec

-----------------------------------------------------------------------------
(* The observer.                                                           *)
ModelOrNone == Model \cup {Nobody}
ThreadState == [known : BOOLEAN, model : ModelOrNone, seq : Nat]
Queued == [msg : Message, seq : Nat]
ObserverState ==
  [threads : [Thread -> ThreadState],
   resolving : [Thread -> [read : Nat, queue : Seq(Queued)]],
   root : Root \cup {Nobody}, turn : Thread \cup {Nobody},
   model : ModelOrNone, active : Nat, shown : ModelOrNone]

(* A message that says nothing of its thread but what was said of it.      *)
Truthful(told, e) == Sane(e.msg) /\ ModelOf(e.msg) \in told[e.msg.thread] \cup {Nobody}

(* An observer that knows of each thread, and waits to hear of it, only    *)
(* what was said of that thread, and shows the model of its root.          *)
Sound(told) ==
  {o \in ObserverState :
     /\ o.turn \in {Nobody, o.root}
     /\ o.root = Nobody => o.model = Nobody /\ o.shown = Nobody
     /\ o.root # Nobody => {o.model, o.shown} \subseteq told[o.root] \cup {Nobody}
     /\ \A t \in Thread :
          /\ o.threads[t].model \in told[t] \cup {Nobody}
          /\ \A i \in 1..Len(o.resolving[t].queue) :
               /\ o.resolving[t].queue[i].msg.thread = t
               /\ Truthful(told, o.resolving[t].queue[i])}

SaidState == [Thread -> SUBSET Model]

LEMMA ShowSound ==
  ASSUME NEW told \in SaidState, NEW o \in Sound(told), o.root # Nobody,
         NEW m \in told[o.root] \cup {Nobody}
  PROVE  /\ Show(o, m) \in Sound(told) /\ Show(o, m).root = o.root
         /\ TakeModel(o, m) \in Sound(told) /\ TakeModel(o, m).root = o.root
<1>1. m \in ModelOrNone
  BY ObserverAssumption DEF SaidState, ModelOrNone, Sound, ObserverState, Thread
<1>2. ASSUME NEW p \in ObserverState, p.root = o.root, p.turn = o.turn,
             p.threads = o.threads, p.resolving = o.resolving,
             p.model \in {o.model, m}, p.shown \in {o.shown, m}
      PROVE  p \in Sound(told)
  BY <1>2 DEF Sound
<1>3. CASE m = Nobody
  BY <1>3 DEF Show, TakeModel
<1>4. CASE m # Nobody
  <2> DEFINE p == [o EXCEPT !.shown = m]
             q == [p EXCEPT !.model = m]
  <2>1. /\ p \in ObserverState /\ p.shown = m /\ p.root = o.root /\ p.turn = o.turn
        /\ p.threads = o.threads /\ p.resolving = o.resolving /\ p.model = o.model
    BY <1>1 DEF Sound, ObserverState
  <2> HIDE DEF p
  <2>2. /\ q \in ObserverState /\ q.shown = m /\ q.root = o.root /\ q.turn = o.turn
        /\ q.threads = o.threads /\ q.resolving = o.resolving /\ q.model = m
    BY <1>1, <2>1 DEF ObserverState
  <2> HIDE DEF q
  <2>3. p \in Sound(told) /\ q \in Sound(told)
    BY <1>2, <2>1, <2>2
  <2> QED
    BY <1>4, <2>1, <2>2, <2>3 DEF Show, TakeModel, p, q
<1> QED
  BY <1>3, <1>4

(* What is known of a thread is replaced by something that was said of it. *)
LEMMA ThreadSound ==
  ASSUME NEW told \in SaidState, NEW o \in Sound(told), NEW t \in Thread,
         NEW x \in ThreadState, x.model \in told[t] \cup {Nobody}
  PROVE  /\ [o EXCEPT !.threads[t] = x] \in Sound(told)
         /\ [o EXCEPT !.threads[t] = x].root = o.root
<1> DEFINE p == [o EXCEPT !.threads[t] = x]
<1>1. p \in ObserverState
  BY DEF Sound, ObserverState
<1>2. /\ p.root = o.root /\ p.turn = o.turn /\ p.model = o.model /\ p.shown = o.shown
      /\ p.resolving = o.resolving
      /\ \A u \in Thread : p.threads[u] = IF u = t THEN x ELSE o.threads[u]
  BY DEF Sound, ObserverState
<1> HIDE DEF p
<1>3. p \in Sound(told)
  BY <1>1, <1>2 DEF Sound
<1> QED
  BY <1>2, <1>3 DEF p

LEMMA RememberModelSound ==
  ASSUME NEW told \in SaidState, NEW o \in Sound(told), NEW t \in Thread,
         NEW m \in told[t] \cup {Nobody}, NEW seq \in Nat
  PROVE  /\ RememberModel(o, t, m, seq) \in Sound(told)
         /\ RememberModel(o, t, m, seq).root = o.root
<1> DEFINE x == [known |-> o.threads[t].known, model |-> m, seq |-> seq]
<1>1. o.threads \in [Thread -> ThreadState]
  BY DEF Sound, ObserverState
<1>2. x \in ThreadState
  BY <1>1 DEF SaidState, ModelOrNone, ThreadState
<1>3. RememberModel(o, t, m, seq) \in {o, [o EXCEPT !.threads[t] = x]}
  BY <1>1 DEF RememberModel, Sound, ObserverState
<1>4. x.model \in told[t] \cup {Nobody}
  OBVIOUS
<1> HIDE DEF x
<1> QED
  <2>1. [o EXCEPT !.threads[t] = x] \in Sound(told) /\ [o EXCEPT !.threads[t] = x].root = o.root
    BY <1>2, <1>4, ThreadSound
  <2>2. CASE RememberModel(o, t, m, seq) = o
    BY <2>2
  <2>3. CASE RememberModel(o, t, m, seq) = [o EXCEPT !.threads[t] = x]
    BY <2>1, <2>3
  <2> QED
    BY <1>3, <2>2, <2>3

LEMMA RememberThreadSound ==
  ASSUME NEW told \in SaidState, NEW o \in Sound(told), NEW t \in Thread,
         NEW m \in told[t] \cup {Nobody}
  PROVE  /\ RememberThread(o, t, m) \in Sound(told)
         /\ RememberThread(o, t, m).root = o.root
<1> DEFINE x == [known |-> TRUE, seq |-> o.threads[t].seq,
                 model |-> IF o.threads[t].seq > 0 THEN o.threads[t].model ELSE m]
<1>1. o.threads \in [Thread -> ThreadState] /\ o.threads[t].model \in told[t] \cup {Nobody}
  BY DEF Sound, ObserverState
<1>2. x \in ThreadState
  BY <1>1 DEF SaidState, ModelOrNone, ThreadState
<1>3. RememberThread(o, t, m) = [o EXCEPT !.threads[t] = x]
  BY <1>1 DEF RememberThread, Sound, ObserverState
<1>4. x.model \in told[t] \cup {Nobody}
  BY <1>1
<1> HIDE DEF x
<1> QED
  BY <1>2, <1>3, <1>4, ThreadSound

LEMMA ActivateSound ==
  ASSUME NEW told \in SaidState, NEW o \in Sound(told), NEW t \in Thread, NEW seq \in Nat
  PROVE  /\ ActivateThread(o, t, seq) \in Sound(told)
         /\ Activates(o, t, seq) => ActivateThread(o, t, seq).root = t
<1>1. CASE ~Activates(o, t, seq)
  BY <1>1 DEF ActivateThread
<1>2. CASE Activates(o, t, seq) /\ t = o.root
  <2> DEFINE p == [o EXCEPT !.active = seq]
  <2>1. p \in Sound(told) /\ p.root = o.root /\ t # Nobody
    BY <1>2, ObserverAssumption DEF Sound, ObserverState, Thread
  <2>2. o.threads[t].model \in told[p.root] \cup {Nobody}
    BY <1>2, <2>1 DEF Sound
  <2>3. ActivateThread(o, t, seq) = TakeModel(p, o.threads[t].model)
    BY <1>2 DEF ActivateThread
  <2> HIDE DEF p
  <2> QED
    BY <1>2, <2>1, <2>2, <2>3, ShowSound
<1>3. CASE Activates(o, t, seq) /\ t # o.root
  <2> DEFINE p == [o EXCEPT !.active = seq, !.root = t, !.turn = Nobody, !.model = Nobody,
                            !.shown = IF o.root = Nobody THEN @ ELSE Nobody]
  <2>1. t \in Root /\ t # Nobody
    BY <1>3, ObserverAssumption DEF Activates, Thread
  <2>2. p.shown = Nobody
    BY DEF Sound, ObserverState
  <2>3. p \in ObserverState /\ p.root = t /\ p.turn = Nobody /\ p.model = Nobody
        /\ p.threads = o.threads /\ p.resolving = o.resolving
    BY <2>1, <2>2 DEF Sound, ObserverState, ModelOrNone
  <2> HIDE DEF p
  <2>4. p \in Sound(told)
    BY <2>1, <2>2, <2>3 DEF Sound
  <2>5. o.threads[t].model \in told[p.root] \cup {Nobody}
    BY <2>3 DEF Sound
  <2>6. ActivateThread(o, t, seq) = TakeModel(p, o.threads[t].model)
    BY <1>3 DEF ActivateThread, p
  <2> QED
    BY <2>1, <2>3, <2>4, <2>5, <2>6, ShowSound
<1> QED
  BY <1>1, <1>2, <1>3

(* What the messages are made of.                                          *)
LEMMA MessageShape ==
  ASSUME NEW msg \in Message
  PROVE  /\ msg.thread \in Thread
         /\ msg.kind \in {"started", "completed", "delta", "settings", "rerouted", "closed",
                          "announced"}
         /\ msg.kind \in {"settings", "rerouted", "announced"} => ModelOf(msg) = msg.model
         /\ msg.kind \in {"started", "completed", "delta", "rerouted"} /\ Sane(msg)
              => msg.turn = msg.thread
<1>1. CASE msg \in [kind : {"started", "completed", "delta"}, thread : Thread, turn : Thread]
  BY <1>1 DEF Sane
<1>2. CASE msg \in [kind : {"settings"}, thread : Thread, model : Model]
  BY <1>2 DEF ModelOf
<1>3. CASE msg \in [kind : {"rerouted"}, thread : Thread, turn : Thread, model : Model]
  BY <1>3 DEF ModelOf, Sane
<1>4. CASE msg \in [kind : {"closed"}, thread : Thread]
  BY <1>4
<1>5. CASE msg \in [kind : {"announced"}, thread : Thread, model : Model \cup {Nobody}]
  BY <1>5 DEF ModelOf
<1> QED
  BY <1>1, <1>2, <1>3, <1>4, <1>5 DEF Message

(* No message that is true of its thread makes the observer unsound.       *)
LEMMA TurnSound ==
  ASSUME NEW told \in SaidState, NEW o \in Sound(told), NEW turn \in {Nobody, o.root}
  PROVE  [o EXCEPT !.turn = turn] \in Sound(told) /\ [o EXCEPT !.turn = turn].root = o.root
<1>1. turn \in Thread \cup {Nobody}
  BY DEF Sound, ObserverState, Thread
<1> QED
  BY <1>1 DEF Sound, ObserverState

(* A thread is not looked up any longer, or with other messages waiting.   *)
LEMMA LookupSound ==
  ASSUME NEW told \in SaidState, NEW o \in Sound(told), NEW t \in Thread,
         NEW read \in Nat, NEW queue \in Seq(Queued),
         \A i \in 1..Len(queue) : queue[i].msg.thread = t /\ Truthful(told, queue[i])
  PROVE  [o EXCEPT !.resolving[t] = [read |-> read, queue |-> queue]] \in Sound(told)
<1> DEFINE p == [o EXCEPT !.resolving[t] = [read |-> read, queue |-> queue]]
<1>1. p \in ObserverState
  BY DEF Sound, ObserverState
<1>2. /\ p.root = o.root /\ p.turn = o.turn /\ p.model = o.model /\ p.shown = o.shown
      /\ p.threads = o.threads
      /\ \A u \in Thread : p.resolving[u].queue = IF u = t THEN queue ELSE o.resolving[u].queue
  BY DEF Sound, ObserverState
<1> HIDE DEF p
<1>3. p \in Sound(told)
  <2>1. \A u \in Thread : \A i \in 1..Len(p.resolving[u].queue) :
          /\ p.resolving[u].queue[i].msg.thread = u
          /\ Truthful(told, p.resolving[u].queue[i])
    <3> SUFFICES ASSUME NEW u \in Thread, NEW i \in 1..Len(p.resolving[u].queue)
                 PROVE  /\ p.resolving[u].queue[i].msg.thread = u
                        /\ Truthful(told, p.resolving[u].queue[i])
      OBVIOUS
    <3>1. CASE u = t
      BY <1>2, <3>1
    <3>2. CASE u # t
      BY <1>2, <3>2 DEF Sound
    <3> QED
      BY <3>1, <3>2
  <2> QED
    BY <1>1, <1>2, <2>1 DEF Sound
<1> QED
  BY <1>3 DEF p

LEMMA NoLookupSound ==
  ASSUME NEW told \in SaidState, NEW o \in Sound(told), NEW t \in Thread
  PROVE  [o EXCEPT !.resolving[t] = [read |-> 0, queue |-> <<>>]] \in Sound(told)
<1> DEFINE queue == <<>>
<1>1. queue \in Seq(Queued) /\ Len(queue) = 0 /\ 0 \in Nat
  OBVIOUS
<1> HIDE DEF queue
<1>2. \A i \in 1..Len(queue) : queue[i].msg.thread = t /\ Truthful(told, queue[i])
  BY <1>1
<1>3. [o EXCEPT !.resolving[t] = [read |-> 0, queue |-> queue]] \in Sound(told)
  BY <1>1, <1>2, LookupSound
<1> QED
  BY <1>3 DEF queue

LEMMA SettingsSound ==
  ASSUME NEW told \in SaidState, NEW o \in Sound(told), NEW msg \in Message, NEW seq \in Nat,
         msg.kind = "settings", ModelOf(msg) \in told[msg.thread] \cup {Nobody}
  PROVE  Settings(o, msg, seq) \in Sound(told)
<1> DEFINE t == msg.thread
           r == RememberModel(o, t, msg.model, seq)
           a == IF r.root = Nobody THEN ActivateThread(r, t, seq) ELSE r
<1>1. t \in Thread /\ t # Nobody /\ msg.model \in told[t] \cup {Nobody}
  BY MessageShape, ObserverAssumption DEF Thread
<1>2. r \in Sound(told)
  BY <1>1, RememberModelSound
<1>3. a \in Sound(told)
  <2> HIDE DEF r
  <2> QED
    BY <1>1, <1>2, ActivateSound
<1>4. a.threads[t].model \in told[t] \cup {Nobody}
  <2> HIDE DEF a
  <2> QED
    BY <1>1, <1>3 DEF Sound
<1>5. Settings(o, msg, seq) = IF t = a.root THEN TakeModel(a, a.threads[t].model) ELSE a
  BY DEF Settings
<1> HIDE DEF a, t
<1> QED
  BY <1>1, <1>3, <1>4, <1>5, ShowSound

LEMMA HandleSound ==
  ASSUME NEW told \in SaidState, NEW o \in Sound(told), NEW msg \in Message, NEW seq \in Nat,
         Sane(msg), ModelOf(msg) \in told[msg.thread] \cup {Nobody}
  PROVE  Handle(o, msg, seq) \in Sound(told)
<1> DEFINE t == msg.thread
<1>1. t \in Thread /\ t # Nobody /\ ModelOf(msg) \in told[t] \cup {Nobody}
  BY MessageShape, ObserverAssumption DEF Thread
<1>t. msg.thread = t
  OBVIOUS
<1> HIDE DEF t
<1>2. CASE msg.kind = "started"
  <2>1. Handle(o, msg, seq) = Started(o, msg, seq) /\ msg.turn = t
    BY <1>2, <1>t, MessageShape DEF Handle
  <2>2. CASE ~Activates(o, t, seq)
    BY <1>t, <2>1, <2>2 DEF Started
  <2>3. CASE Activates(o, t, seq)
    <3> DEFINE a == ActivateThread(o, t, seq)
    <3>1. a \in Sound(told) /\ a.root = t
      BY <1>1, <2>3, ActivateSound
    <3>2. a.model \in told[t] \cup {Nobody}
      BY <1>1, <3>1 DEF Sound
    <3> HIDE DEF a
    <3> DEFINE b == [a EXCEPT !.turn = t]
    <3>3. b \in Sound(told) /\ b.root = t
      BY <1>1, <3>1, TurnSound
    <3> HIDE DEF b
    <3>4. Handle(o, msg, seq) = Show(b, a.model)
      BY <1>t, <2>1, <2>3 DEF Started, a, b
    <3> QED
      BY <1>1, <3>2, <3>3, <3>4, ShowSound
  <2> QED
    BY <2>2, <2>3
<1>3. CASE msg.kind = "completed"
  <2>1. Handle(o, msg, seq) = o \/ Handle(o, msg, seq) = [o EXCEPT !.turn = Nobody]
    BY <1>3 DEF Handle, Completed
  <2>2. [o EXCEPT !.turn = Nobody] \in Sound(told)
    BY TurnSound
  <2> QED
    BY <2>1, <2>2
<1>4. CASE msg.kind = "settings"
  <2>1. Handle(o, msg, seq) = Settings(o, msg, seq)
    BY <1>4 DEF Handle
  <2> QED
    BY <1>1, <1>4, <1>t, <2>1, SettingsSound, MessageShape
<1>5. CASE msg.kind = "rerouted"
  <2>1. Handle(o, msg, seq) = o \/ (o.root = t /\ Handle(o, msg, seq) = TakeModel(o, msg.model))
    BY <1>5, <1>t DEF Handle, Rerouted
  <2>2. msg.model \in told[t] \cup {Nobody}
    BY <1>1, <1>5, MessageShape
  <2>3. o.root = t => TakeModel(o, msg.model) \in Sound(told)
    BY <1>1, <2>2, ShowSound
  <2> QED
    BY <2>1, <2>3
<1>6. CASE msg.kind = "delta"
  <2>1. Handle(o, msg, seq) = o \/ (o.root = t /\ Handle(o, msg, seq) = Show(o, o.model))
    BY <1>6, <1>t DEF Handle, Delta
  <2>2. o.root = t => o.model \in told[o.root] \cup {Nobody} /\ o.root # Nobody
    BY <1>1 DEF Sound
  <2>3. o.root = t => Show(o, o.model) \in Sound(told)
    BY <2>2, ShowSound
  <2> QED
    BY <2>1, <2>3
<1>7. CASE msg.kind = "closed"
  <2> DEFINE g == [o EXCEPT !.threads[t] = Unknown]
             f == [g EXCEPT !.resolving[t] = [read |-> 0, queue |-> <<>>]]
             h == [f EXCEPT !.root = Nobody, !.turn = Nobody, !.model = Nobody,
                            !.shown = Nobody, !.active = seq]
  <2>1. Unknown \in ThreadState /\ Unknown.model = Nobody
    BY DEF Unknown, ThreadState, ModelOrNone
  <2>2. g \in Sound(told)
    BY <1>1, <2>1, ThreadSound
  <2>3. f \in Sound(told)
    <3> HIDE DEF g
    <3> QED
      BY <1>1, <2>2, NoLookupSound
  <2>4. h \in Sound(told)
    <3> HIDE DEF f
    <3>1. h \in ObserverState /\ h.root = Nobody /\ h.turn = Nobody /\ h.model = Nobody
          /\ h.shown = Nobody /\ h.threads = f.threads /\ h.resolving = f.resolving
      BY <2>3 DEF Sound, ObserverState, ModelOrNone
    <3> HIDE DEF h
    <3> QED
      BY <2>3, <3>1 DEF Sound
  <2>5. Handle(o, msg, seq) \in {f, h}
    BY <1>7, <1>t DEF Handle, Closed
  <2> HIDE DEF f, h
  <2> QED
    BY <2>3, <2>4, <2>5
<1>8. CASE msg.kind = "announced"
  <2> DEFINE r == RememberThread(o, t, msg.model)
  <2>1. r \in Sound(told)
    BY <1>1, <1>8, <1>t, RememberThreadSound, MessageShape
  <2>2. Handle(o, msg, seq) = r \/ Handle(o, msg, seq) = ActivateThread(r, t, seq)
    BY <1>8, <1>t DEF Handle, Announced
  <2> HIDE DEF r
  <2>3. ActivateThread(r, t, seq) \in Sound(told)
    BY <1>1, <2>1, ActivateSound
  <2> QED
    BY <2>1, <2>2, <2>3
<1> QED
  BY <1>2, <1>3, <1>4, <1>5, <1>6, <1>7, <1>8, MessageShape

LEMMA ObserveSound ==
  ASSUME NEW told \in SaidState, NEW o \in Sound(told), NEW msg \in Message, NEW seq \in Nat,
         Sane(msg), ModelOf(msg) \in told[msg.thread] \cup {Nobody}
  PROVE  Observe(o, msg, seq) \in Sound(told)
<1> DEFINE t == msg.thread
           r == IF msg.kind = "settings" THEN Settings(o, msg, seq) ELSE o
           unknown == msg.kind \in Tracked /\ ~r.threads[t].known
           entry == [msg |-> msg, seq |-> seq]
<1>1. t \in Thread
  BY MessageShape
<1>2. r \in Sound(told)
  <2>1. CASE msg.kind = "settings"
    BY <2>1, SettingsSound
  <2>2. CASE msg.kind # "settings"
    BY <2>2
  <2> QED
    BY <2>1, <2>2
<1>3. entry \in Queued /\ entry.msg.thread = t /\ Truthful(told, entry)
  BY DEF Queued, Truthful
<1> HIDE DEF r, entry
<1>4. r.resolving \in [Thread -> [read : Nat, queue : Seq(Queued)]]
  BY <1>2 DEF Sound, ObserverState
<1>5. CASE unknown /\ r.resolving[t].read # 0
  <2> DEFINE full == [r EXCEPT !.resolving[t] = [read |-> 0, queue |-> <<>>]]
             more == [r EXCEPT !.resolving[t] =
                        [read |-> @.read, queue |-> Append(@.queue, entry)]]
  <2>1. Observe(o, msg, seq) = Buffer(r, t, entry)
    BY <1>5 DEF Observe, r, entry
  <2>2. Buffer(r, t, entry) = full \/ Buffer(r, t, entry) = more
    BY DEF Buffer
  <2>3. full \in Sound(told)
    <3> HIDE DEF t
    <3> QED
      BY <1>1, <1>2, NoLookupSound
  <2>4. more \in Sound(told)
    <3> DEFINE queued == r.resolving[t].queue
               queue == Append(queued, entry)
               read == r.resolving[t].read
    <3>1. queued \in Seq(Queued) /\ read \in Nat
      BY <1>1, <1>4
    <3> HIDE DEF queued
    <3>2. /\ queue \in Seq(Queued) /\ Len(queue) = Len(queued) + 1 /\ Len(queued) \in Nat
          /\ \A i \in 1..Len(queued) : queue[i] = queued[i]
          /\ queue[Len(queued) + 1] = entry
      BY <1>3, <3>1
    <3>3. \A i \in 1..Len(queued) : queued[i].msg.thread = t /\ Truthful(told, queued[i])
      BY <1>1, <1>2 DEF Sound, queued
    <3> HIDE DEF queue
    <3>4. \A i \in 1..Len(queue) : queue[i].msg.thread = t /\ Truthful(told, queue[i])
      <4>1. \A i \in 1..Len(queue) : i \in 1..Len(queued) \/ i = Len(queued) + 1
        BY <3>2
      <4> QED
        BY <1>3, <3>2, <3>3, <4>1
    <3>5. more = [r EXCEPT !.resolving[t] = [read |-> read, queue |-> queue]]
      BY DEF more, queue, queued, read
    <3> HIDE DEF t, read, more
    <3> QED
      BY <1>1, <1>2, <3>1, <3>2, <3>4, <3>5, LookupSound
  <2> HIDE DEF full, more
  <2> QED
    BY <2>1, <2>2, <2>3, <2>4
<1>6. CASE unknown /\ r.resolving[t].read = 0 /\ msg.kind = "started"
  <2> DEFINE queue == <<entry>>
  <2>1. Observe(o, msg, seq) = [r EXCEPT !.resolving[t] = [read |-> seq, queue |-> queue]]
    BY <1>6 DEF Observe, r, entry
  <2>2. queue \in Seq(Queued) /\ Len(queue) = 1 /\ queue[1] = entry
    BY <1>3
  <2> HIDE DEF t, queue
  <2>3. \A i \in 1..Len(queue) : queue[i].msg.thread = t /\ Truthful(told, queue[i])
    BY <1>3, <2>2
  <2> QED
    BY <1>1, <1>2, <2>1, <2>2, <2>3, LookupSound
<1>7. CASE ~(unknown /\ (r.resolving[t].read # 0 \/ msg.kind = "started"))
  <2>1. Observe(o, msg, seq) = Handle(o, msg, seq)
    BY <1>7 DEF Observe, r
  <2> QED
    BY <2>1, HandleSound
<1> QED
  BY <1>5, <1>6, <1>7

(* The messages that waited are caught up on one after the other.          *)
LEMMA CaughtUpSound ==
  ASSUME NEW told \in SaidState, NEW o \in Sound(told), NEW queue \in Seq(Queued),
         \A i \in 1..Len(queue) : Truthful(told, queue[i])
  PROVE  CaughtUp(o, queue) \in Sound(told)
<1> DEFINE N == Len(queue)
           Step(f, n) == IF n = 0 THEN o ELSE Observe(f[n - 1], queue[n].msg, queue[n].seq)
           Runs(k) == {f \in [0..k -> Sound(told)] : f = [n \in 0..k |-> Step(f, n)]}
           Stuck == {k \in 0..N : Runs(k) = {}}
<1>1. N \in Nat
  OBVIOUS
<1>2. ASSUME NEW x \in Sound(told), NEW n \in 1..N
      PROVE  Observe(x, queue[n].msg, queue[n].seq) \in Sound(told)
  <2>0. queue[n] \in Queued
    OBVIOUS
  <2>1. queue[n].msg \in Message /\ queue[n].seq \in Nat /\ Truthful(told, queue[n])
    BY <2>0 DEF Queued
  <2> QED
    BY <2>1, ObserveSound DEF Truthful
<1> HIDE DEF N
<1>3. Runs(0) # {}
  <2> DEFINE f == [n \in 0..0 |-> o]
  <2>1. f \in [0..0 -> Sound(told)] /\ \A n \in 0..0 : Step(f, n) = o
    OBVIOUS
  <2>2. f = [n \in 0..0 |-> Step(f, n)]
    BY <2>1
  <2> QED
    BY <2>1, <2>2
<1>4. ASSUME NEW k \in 1..N, Runs(k - 1) # {} PROVE Runs(k) # {}
  <2>1. PICK f \in Runs(k - 1) : TRUE
    BY <1>4
  <2> DEFINE last == Observe(f[k - 1], queue[k].msg, queue[k].seq)
             g == [n \in 0..k |-> IF n = k THEN last ELSE f[n]]
  <2>2. k \in Nat /\ k - 1 \in Nat /\ k # 0 /\ \A n \in 0..k : n = k \/ n \in 0..(k - 1)
    BY <1>1
  <2>3. f \in [0..(k - 1) -> Sound(told)] /\ \A n \in 0..(k - 1) : f[n] = Step(f, n)
    BY <2>1
  <2>4. last \in Sound(told)
    BY <1>2, <2>2, <2>3
  <2>5. g \in [0..k -> Sound(told)]
    BY <2>2, <2>3, <2>4
  <2>6. ASSUME NEW n \in 0..k PROVE g[n] = Step(g, n)
    <3> HIDE DEF last
    <3>1. CASE n = k
      <4>1. g[n] = last /\ g[k - 1] = f[k - 1]
        BY <2>2, <3>1
      <4> HIDE DEF g
      <4> QED
        BY <2>2, <3>1, <4>1 DEF last
    <3>2. CASE n # k /\ n = 0
      <4>1. g[n] = f[n] /\ f[n] = o
        BY <2>2, <2>3, <3>2
      <4> HIDE DEF g
      <4> QED
        BY <3>2, <4>1
    <3>3. CASE n # k /\ n # 0
      <4>1. n \in 0..(k - 1) /\ n - 1 \in 0..(k - 1) /\ n - 1 # k
        BY <2>2, <3>3
      <4>2. g[n] = f[n] /\ g[n - 1] = f[n - 1]
        BY <2>2, <4>1, <3>3
      <4>3. f[n] = Step(f, n)
        BY <2>3, <4>1
      <4> HIDE DEF g
      <4> QED
        BY <3>3, <4>2, <4>3
    <3> QED
      BY <3>1, <3>2, <3>3
  <2>7. g = [n \in 0..k |-> Step(g, n)]
    <3> HIDE DEF Step, last
    <3> QED
      BY <2>6
  <2> QED
    BY <2>5, <2>7
<1>5. Stuck = {}
  <2>1. Stuck \in SUBSET Nat
    OBVIOUS
  <2>2. ASSUME NEW k \in Stuck PROVE \E m \in Stuck : m < k
    <3>1. k \in 0..N /\ Runs(k) = {} /\ k # 0
      BY <1>3
    <3>2. k \in 1..N /\ k - 1 \in 0..N /\ k - 1 < k
      BY <1>1, <3>1
    <3> HIDE DEF Runs
    <3>3. Runs(k - 1) = {}
      BY <1>4, <3>1, <3>2
    <3> QED
      BY <3>2, <3>3
  <2> HIDE DEF Stuck
  <2> QED
    BY <2>1, <2>2, NoDescent
<1>6. \E f : f = [n \in 0..N |-> Step(f, n)]
  <2>1. Runs(N) # {}
    <3> HIDE DEF Runs
    <3> QED
      BY <1>1, <1>5
  <2> HIDE DEF Step
  <2> QED
    BY <2>1
<1> DEFINE run == CHOOSE f : f = [n \in 0..N |-> Step(f, n)]
           Unsound == {n \in 0..N : run[n] \notin Sound(told)}
<1>7. run = [n \in 0..N |-> Step(run, n)]
  <2> HIDE DEF Step
  <2> QED
    BY <1>6
<1>8. CaughtUp(o, queue) = run[N]
  BY DEF CaughtUp, N
<1> HIDE DEF run
<1>9. Unsound = {}
  <2>1. Unsound \in SUBSET Nat
    OBVIOUS
  <2>2. ASSUME NEW n \in Unsound PROVE \E m \in Unsound : m < n
    <3>1. n \in 0..N /\ run[n] = Step(run, n) /\ run[n] \notin Sound(told)
      <4> HIDE DEF Step
      <4> QED
        BY <1>7
    <3>2. n # 0 /\ run[n] = Observe(run[n - 1], queue[n].msg, queue[n].seq)
      BY <3>1
    <3>3. n \in 1..N /\ n - 1 \in 0..N /\ n - 1 < n
      BY <1>1, <3>1, <3>2
    <3>4. run[n - 1] \notin Sound(told)
      BY <1>2, <3>1, <3>2, <3>3
    <3> QED
      BY <3>3, <3>4
  <2> HIDE DEF Unsound
  <2> QED
    BY <2>1, <2>2, NoDescent
<1> QED
  BY <1>1, <1>8, <1>9

LEMMA SoundMonotone ==
  ASSUME NEW told \in SaidState, NEW more \in SaidState,
         \A t \in Thread : told[t] \subseteq more[t]
  PROVE  Sound(told) \subseteq Sound(more)
<1> SUFFICES ASSUME NEW o \in Sound(told) PROVE o \in Sound(more)
  OBVIOUS
<1>1. o \in ObserverState /\ o.turn \in {Nobody, o.root}
      /\ (o.root = Nobody => o.model = Nobody /\ o.shown = Nobody)
  BY DEF Sound
<1>2. o.root # Nobody => {o.model, o.shown} \subseteq more[o.root] \cup {Nobody}
  BY <1>1 DEF Sound, ObserverState, Thread
<1>3. ASSUME NEW t \in Thread
      PROVE  /\ o.threads[t].model \in more[t] \cup {Nobody}
             /\ \A i \in 1..Len(o.resolving[t].queue) :
                  /\ o.resolving[t].queue[i].msg.thread = t
                  /\ Truthful(more, o.resolving[t].queue[i])
  BY <1>3 DEF Sound, Truthful
<1> QED
  BY <1>1, <1>2, <1>3 DEF Sound

ObserverInv ==
  /\ saidOf \in SaidState
  /\ obs \in Sound(saidOf)
  /\ sequence \in Nat
  /\ requests \subseteq [model : ModelOrNone, seq : Nat]
  /\ reads \subseteq Thread \X Nat

(* What is said of a thread is added to what was.                          *)
LEMMA SaysMore ==
  ASSUME ObserverInv, NEW t \in Thread, NEW m \in ModelOrNone, Says(t, m)
  PROVE  saidOf' \in SaidState /\ obs \in Sound(saidOf') /\ m \in saidOf'[t] \cup {Nobody}
<1>1. saidOf' \in SaidState
  BY ObserverAssumption DEF Says, ObserverInv, SaidState, ModelOrNone
<1>2. m \in saidOf'[t] \cup {Nobody} /\ \A u \in Thread : saidOf[u] \subseteq saidOf'[u]
  BY DEF Says, ObserverInv, SaidState
<1> QED
  BY <1>1, <1>2, SoundMonotone DEF ObserverInv

(* The pane speaks of one thread the user talks to, in whatever order the  *)
(* two sides' messages, look-ups and answers come                          *)
(* (codex-tps-observer.mjs, observeServerEvent, activateThread).           *)
THEOREM PaneOfOneRootHolds == ObserverSpec => []PaneOfOneRoot
<1>1. ObserverInit => ObserverInv
  <2> SUFFICES ASSUME ObserverInit PROVE ObserverInv
    OBVIOUS
  <2>1. saidOf \in SaidState /\ sequence \in Nat /\ requests = {} /\ reads = {}
    BY DEF ObserverInit, SaidState
  <2>2. <<>> \in Seq(Queued) /\ Len(<<>>) = 0
    OBVIOUS
  <2>3. obs \in ObserverState
    BY <2>2 DEF ObserverInit, ObserverState, Unknown, ThreadState, ModelOrNone
  <2>4. obs \in Sound(saidOf)
    BY <2>2, <2>3 DEF ObserverInit, Sound, Unknown
  <2> QED
    BY <2>1, <2>4 DEF ObserverInv
<1>2. ObserverInv /\ [ObserverNext]_observerVars => ObserverInv'
  <2> SUFFICES ASSUME ObserverInv, [ObserverNext]_observerVars PROVE ObserverInv'
    OBVIOUS
  <2>0. sequence \in Nat /\ sequence + 1 \in Nat
    BY DEF ObserverInv
  <2>1. ASSUME NEW msg \in Message, ServerMessage(msg) PROVE ObserverInv'
    <3>1. msg.thread \in Thread /\ ModelOf(msg) \in ModelOrNone
      BY MessageShape DEF ModelOf, ModelOrNone, Message
    <3>2. saidOf' \in SaidState /\ obs \in Sound(saidOf')
          /\ ModelOf(msg) \in saidOf'[msg.thread] \cup {Nobody}
      BY <2>1, <3>1, SaysMore DEF ServerMessage
    <3>3. Observe(obs, msg, sequence + 1) \in Sound(saidOf')
      BY <2>0, <2>1, <3>2, ObserveSound DEF ServerMessage
    <3> QED
      BY <2>0, <2>1, <3>1, <3>2, <3>3 DEF ServerMessage, ObserverInv
  <2>2. ASSUME NEW t \in Thread, NEW model \in ModelOrNone, TurnStart(t, model)
        PROVE  ObserverInv'
    <3>1. saidOf' \in SaidState /\ obs \in Sound(saidOf') /\ model \in saidOf'[t] \cup {Nobody}
      BY <2>2, SaysMore DEF TurnStart
    <3>2. RememberModel(obs, t, model, sequence + 1) \in Sound(saidOf')
      BY <2>0, <3>1, RememberModelSound
    <3>3. obs' \in Sound(saidOf')
      BY <2>0, <2>2, <3>1, <3>2, ActivateSound DEF TurnStart
    <3> QED
      BY <2>0, <2>2, <3>1, <3>3 DEF TurnStart, ObserverInv
  <2>3. ASSUME NEW model \in ModelOrNone, ThreadRequest(model) PROVE ObserverInv'
    BY <2>0, <2>3 DEF ThreadRequest, ObserverInv
  <2>4. ASSUME NEW asked \in requests, RequestRefused(asked) PROVE ObserverInv'
    BY <2>0, <2>4 DEF RequestRefused, ObserverInv
  <2>5. ASSUME NEW asked \in requests, NEW t \in Thread, NEW model \in ModelOrNone,
               ThreadResponse(asked, t, model)
        PROVE  ObserverInv'
    <3> DEFINE newest == IF model # Nobody THEN model ELSE asked.model
               r == IF asked.model = Nobody THEN obs
                    ELSE RememberModel(obs, t, newest, asked.seq)
               k == RememberThread(r, t, newest)
               at == IF k.root = Nobody THEN sequence + 1 ELSE asked.seq
    <3>1. asked.seq \in Nat /\ newest \in ModelOrNone
      BY DEF ObserverInv
    <3>2. saidOf' \in SaidState /\ obs \in Sound(saidOf') /\ newest \in saidOf'[t] \cup {Nobody}
      BY <2>5, <3>1, SaysMore DEF ThreadResponse
    <3>3. obs' = IF k.turn # Nobody THEN k ELSE ActivateThread(k, t, at)
      BY <2>5 DEF ThreadResponse
    <3> HIDE DEF newest
    <3>4. r \in Sound(saidOf')
      BY <3>1, <3>2, RememberModelSound
    <3> HIDE DEF r
    <3>5. k \in Sound(saidOf')
      BY <3>2, <3>4, RememberThreadSound
    <3> HIDE DEF k
    <3>6. at \in Nat
      BY <2>0, <3>1
    <3> HIDE DEF at
    <3>7. obs' \in Sound(saidOf')
      BY <3>2, <3>3, <3>5, <3>6, ActivateSound
    <3> QED
      BY <2>0, <2>5, <3>2, <3>7 DEF ThreadResponse, ObserverInv
  <2>6. ASSUME NEW read \in reads, ReadFailed(read) PROVE ObserverInv'
    <3>1. read[1] \in Thread
      BY DEF ObserverInv
    <3>2. [obs EXCEPT !.resolving[read[1]] = [read |-> 0, queue |-> <<>>]] \in Sound(saidOf)
      BY <3>1, NoLookupSound DEF ObserverInv
    <3>3. obs' \in Sound(saidOf)
      BY <2>6, <3>2 DEF ReadFailed, ObserverInv
    <3> QED
      BY <2>6, <3>3 DEF ReadFailed, ObserverInv
  <2>7. ASSUME NEW read \in reads, NEW model \in ModelOrNone, ReadAnswered(read, model)
        PROVE  ObserverInv'
    <3> DEFINE t == read[1]
               p == [obs EXCEPT !.resolving[t] = [read |-> 0, queue |-> <<>>]]
               r == RememberThread(p, t, model)
               queue == obs.resolving[t].queue
    <3>1. t \in Thread
      BY DEF ObserverInv
    <3>2. saidOf' \in SaidState /\ obs \in Sound(saidOf') /\ model \in saidOf'[t] \cup {Nobody}
      BY <2>7, <3>1, SaysMore DEF ReadAnswered
    <3>3. obs' = obs \/ obs' = CaughtUp(r, queue)
      BY <2>7 DEF ReadAnswered
    <3>4. queue \in Seq(Queued)
      BY <3>1, <3>2 DEF Sound, ObserverState
    <3>5. \A i \in 1..Len(queue) : Truthful(saidOf', queue[i])
      BY <3>1, <3>2 DEF Sound
    <3> HIDE DEF t, queue
    <3>6. p \in Sound(saidOf')
      BY <3>1, <3>2, NoLookupSound
    <3> HIDE DEF p
    <3>7. r \in Sound(saidOf')
      BY <3>1, <3>2, <3>6, RememberThreadSound
    <3> HIDE DEF r
    <3>8. CaughtUp(r, queue) \in Sound(saidOf')
      BY <3>2, <3>4, <3>5, <3>7, CaughtUpSound
    <3> QED
      BY <2>7, <3>2, <3>3, <3>8 DEF ReadAnswered, ObserverInv
  <2>8. CASE UNCHANGED observerVars
    BY <2>8 DEF observerVars, ObserverInv
  <2> QED
    BY <2>1, <2>2, <2>3, <2>4, <2>5, <2>6, <2>7, <2>8 DEF ObserverNext, ModelOrNone
<1>3. ObserverInv => PaneOfOneRoot
  BY DEF ObserverInv, PaneOfOneRoot, Sound, ObserverState
<1> QED
  BY <1>1, <1>2, <1>3, PTL DEF ObserverSpec
=============================================================================
