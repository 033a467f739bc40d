----------------------------- MODULE ReportsProofs -----------------------------
(***************************************************************************)
(* Theorems about what the web server and the importer do, for every number *)
(* of workers, commits, hours and events, every calendar, catalogue and     *)
(* quota ledger: the cached totals are fresh, the hourly report is exact,   *)
(* the Cloudflare page is fresh, no event is billed a guessed price and an  *)
(* instant's usage is measured in one billing cycle.                        *)
(***************************************************************************)
EXTENDS ReportCache, CloudflareSync, HourlyReport, PriceTable, PlanCycles,
        HourlyRollupProofs, SequenceTheorems, FunctionTheorems, FiniteSetTheorems

-----------------------------------------------------------------------------
(* The cached totals.                                                      *)
Stats == [commit : Nat, day : Nat]
RequestState ==
  [at : {"none", "asked", "version", "computed", "global", "answered", "failed"},
   day : Nat, since : Nat, version : Nat, stats : Stats, details : Nat]
CacheTypeOK ==
  /\ commits \in Nat /\ today \in Nat
  /\ entry \subseteq [version : Nat, day : Nat, stats : Stats]
  /\ request \in [Worker -> RequestState]

(* The totals of the one entry were read after its version, on its day.    *)
EntryInv ==
  \A c \in entry : /\ c.version <= c.stats.commit /\ c.stats.commit <= commits
                   /\ c.stats.day = c.day
                   /\ entry = {c}

(* What a request has read by each of its steps, in the order it read it.  *)
RequestInv(r, now) ==
  /\ r.since <= now
  /\ r.at \in {"version", "computed"} => r.since <= r.version /\ r.version <= now
  /\ r.at = "computed" => r.version <= r.stats.commit
  /\ r.at \in {"computed", "global", "answered"} =>
       r.since <= r.stats.commit /\ r.stats.commit <= now /\ r.stats.day = r.day
  /\ r.at = "answered" => r.stats.commit <= r.details

CacheInv ==
  /\ CacheTypeOK /\ EntryInv
  /\ \A w \in Worker : RequestInv(request[w], commits)

(* A worker's step leaves the rest as it was, and goes on in order.        *)
LEMMA RequestStep ==
  ASSUME CacheInv, NEW w \in Worker, NEW r \in RequestState, RequestInv(r, commits),
         request' = [request EXCEPT ![w] = r], UNCHANGED <<commits, today, entry>>
  PROVE  CacheInv'
<1>1. CacheTypeOK' /\ EntryInv'
  BY DEF CacheInv, CacheTypeOK, EntryInv
<1>2. ASSUME NEW v \in Worker PROVE RequestInv(request'[v], commits')
  <2>1. request'[v] = IF v = w THEN r ELSE request[v]
    BY DEF CacheInv, CacheTypeOK
  <2> QED
    BY <2>1 DEF CacheInv
<1> QED
  BY <1>1, <1>2 DEF CacheInv

(* A cached answer holds all that was committed when its request arrived,  *)
(* is of its day, and nothing newer than its own list of days              *)
(* (web/mod.rs, cached_global).                                            *)
THEOREM CacheFreshHolds == CacheSpec => []CacheFresh
<1>1. CacheInit => CacheInv
  <2> SUFFICES ASSUME CacheInit PROVE CacheInv
    OBVIOUS
  <2>1. NoRequest \in RequestState /\ RequestInv(NoRequest, 0)
    BY DEF NoRequest, NoStats, Stats, RequestState, RequestInv
  <2> QED
    BY <2>1 DEF CacheInit, CacheInv, CacheTypeOK, EntryInv
<1>2. CacheInv /\ [CacheNext]_cacheVars => CacheInv'
  <2> SUFFICES ASSUME CacheInv, [CacheNext]_cacheVars PROVE CacheInv'
    OBVIOUS
  <2>0. /\ commits \in Nat /\ today \in Nat
        /\ \A w \in Worker : request[w] \in RequestState /\ RequestInv(request[w], commits)
    BY DEF CacheInv, CacheTypeOK
  <2>1. CASE Commit
    <3>1. CacheTypeOK' /\ EntryInv'
      BY <2>1 DEF Commit, CacheInv, CacheTypeOK, EntryInv, Stats
    <3>2. ASSUME NEW w \in Worker PROVE RequestInv(request[w], commits + 1)
      BY <2>0 DEF RequestInv, RequestState, Stats
    <3> QED
      BY <2>1, <3>1, <3>2 DEF Commit, CacheInv
  <2>2. CASE Midnight
    BY <2>2 DEF Midnight, CacheInv, CacheTypeOK, EntryInv
  <2>3. ASSUME NEW w \in Worker, Ask(w) PROVE CacheInv'
    <3> DEFINE r == [NoRequest EXCEPT !.at = "asked", !.day = today, !.since = commits]
    <3>1. r \in RequestState
      BY <2>0 DEF NoRequest, NoStats, Stats, RequestState
    <3>2. r.at = "asked" /\ r.since = commits
      BY DEF NoRequest
    <3>3. RequestInv(r, commits)
      BY <2>0, <3>2 DEF RequestInv
    <3> QED
      BY <2>3, <3>1, <3>3, RequestStep DEF Ask
  <2>4. ASSUME NEW w \in Worker, ReadVersion(w) PROVE CacheInv'
    <3> DEFINE r == [request[w] EXCEPT !.at = "version", !.version = commits]
    <3>1. r \in RequestState
      BY <2>0 DEF RequestState
    <3>2. r.at = "version" /\ r.version = commits /\ r.since = request[w].since
      BY <2>0 DEF RequestState
    <3>3. RequestInv(r, commits)
      BY <2>0, <3>2 DEF RequestInv, RequestState
    <3>4. request' = [request EXCEPT ![w] = r]
      BY <2>4 DEF ReadVersion
    <3> QED
      BY <2>4, <3>1, <3>3, <3>4, RequestStep DEF ReadVersion
  <2>5. ASSUME NEW w \in Worker, Hit(w) PROVE CacheInv'
    <3>1. request[w].at = "version" /\ Current(w)
      BY <2>5 DEF Hit
    <3>2. PICK d \in entry :
            request' = [request EXCEPT ![w] = [@ EXCEPT !.at = "global", !.stats = d.stats]]
      BY <2>5 DEF Hit
    <3> DEFINE r == [request[w] EXCEPT !.at = "global", !.stats = d.stats]
    <3>3. d.version = request[w].version /\ d.day = request[w].day
      BY <3>1 DEF Current, CacheInv, EntryInv
    <3>4. d.version \in Nat /\ d.stats \in Stats /\ d.stats.commit \in Nat
      BY DEF CacheInv, CacheTypeOK, Stats
    <3>5. r \in RequestState
      BY <2>0, <3>4 DEF RequestState
    <3>6. /\ r.at = "global" /\ r.stats = d.stats
          /\ r.since = request[w].since /\ r.day = request[w].day
      BY <2>0 DEF RequestState
    <3>7. request[w].since <= request[w].version
      BY <2>0, <3>1 DEF RequestInv
    <3>8. /\ d.version <= d.stats.commit /\ d.stats.commit <= commits
          /\ d.stats.day = d.day
      BY DEF CacheInv, EntryInv
    <3>9. RequestInv(r, commits)
      BY <2>0, <3>3, <3>4, <3>6, <3>7, <3>8 DEF RequestInv, RequestState
    <3> QED
      BY <2>5, <3>2, <3>5, <3>9, RequestStep DEF Hit
  <2>6. ASSUME NEW w \in Worker, Compute(w) PROVE CacheInv'
    <3> DEFINE s == [commit |-> commits, day |-> request[w].day]
               r == [request[w] EXCEPT !.at = "computed", !.stats = s]
    <3>1. request[w].at = "version"
      BY <2>6 DEF Compute
    <3>2. s \in Stats /\ r \in RequestState
      BY <2>0 DEF RequestState, Stats
    <3>3. /\ r.at = "computed" /\ r.stats.commit = commits /\ r.stats.day = r.day
          /\ r.since = request[w].since /\ r.version = request[w].version
      BY <2>0 DEF RequestState
    <3>4. RequestInv(r, commits)
      BY <2>0, <3>1, <3>3 DEF RequestInv, RequestState
    <3>5. request' = [request EXCEPT ![w] = r]
      BY <2>6 DEF Compute
    <3> QED
      BY <2>6, <3>2, <3>4, <3>5, RequestStep DEF Compute
  <2>7. ASSUME NEW w \in Worker, Keep(w) PROVE CacheInv'
    <3> DEFINE r == [request[w] EXCEPT !.at = "global"]
               c == [version |-> request[w].version, day |-> request[w].day,
                     stats |-> request[w].stats]
    <3>1. request[w].at = "computed"
      BY <2>7 DEF Keep
    <3>2. r \in RequestState /\ RequestInv(r, commits)
      BY <2>0, <3>1 DEF RequestState, RequestInv
    <3>3. /\ request' = [request EXCEPT ![w] = r] /\ entry' = {c}
          /\ UNCHANGED <<commits, today>>
      BY <2>7 DEF Keep
    <3>4. CacheTypeOK'
      BY <2>0, <3>2, <3>3 DEF CacheInv, CacheTypeOK, RequestState
    <3>5. EntryInv'
      BY <2>0, <3>1, <3>3 DEF EntryInv, RequestInv
    <3>6. ASSUME NEW v \in Worker PROVE RequestInv(request'[v], commits')
      <4>1. request'[v] = IF v = w THEN r ELSE request[v]
        BY <3>3 DEF CacheInv, CacheTypeOK
      <4> QED
        BY <2>0, <3>2, <3>3, <4>1
    <3> QED
      BY <3>4, <3>5, <3>6 DEF CacheInv
  <2>8. ASSUME NEW w \in Worker, CacheFails(w) \/ Report(w) PROVE CacheInv'
    <3> DEFINE r == [request[w] EXCEPT !.at = "answered", !.details = commits]
    <3>1. Failed \in RequestState /\ RequestInv(Failed, commits)
      BY <2>0 DEF Failed, NoRequest, NoStats, Stats, RequestState, RequestInv
    <3>2. request[w].at = "global" => r \in RequestState /\ RequestInv(r, commits)
      BY <2>0 DEF RequestState, RequestInv
    <3>3. CASE request' = [request EXCEPT ![w] = Failed]
      BY <2>8, <3>1, <3>3, RequestStep DEF CacheFails, Report
    <3>4. CASE request' = [request EXCEPT ![w] = r] /\ request[w].at = "global"
      BY <2>8, <3>2, <3>4, RequestStep DEF CacheFails, Report
    <3> QED
      BY <2>8, <3>3, <3>4 DEF CacheFails, Report
  <2>9. CASE UNCHANGED cacheVars
    BY <2>9 DEF cacheVars, CacheInv, CacheTypeOK, EntryInv
  <2> QED
    BY <2>1, <2>2, <2>3, <2>4, <2>5, <2>6, <2>7, <2>8, <2>9 DEF CacheNext
<1>3. CacheInv => CacheFresh
  BY DEF CacheInv, CacheTypeOK, RequestState, RequestInv, CacheFresh, Stats
<1> QED
  BY <1>1, <1>2, <1>3, PTL DEF CacheSpec

-----------------------------------------------------------------------------
(* The hourly report.                                                      *)
ReportTypeOK ==
  /\ stage \in [Web -> {"none", "rollup", "labelled", "archive", "done"}]
  /\ began \in [Web -> [hour : Nat, events : SUBSET Event]]
  /\ caughtUp \in [Web -> BOOLEAN]
  /\ label \in [Web -> Nat]
  /\ shown \in [Web -> [Event -> Nat]]

NoFuture == \A e \in stored : HourOf[e] <= clock

(* What the report of w will have to count is stored, and of no later hour.*)
BeganInv(w) ==
  /\ began[w].hour <= clock
  /\ \A e \in began[w].events : e \in stored /\ HourOf[e] <= began[w].hour
LabelInv(w) ==
  stage[w] \in {"labelled", "archive", "done"} =>
    began[w].hour <= label[w] /\ label[w] <= clock

(* The closed hours it will have to count are archived, and then shown.    *)
ClosedIn(w) == {e \in began[w].events \ late : HourOf[e] < began[w].hour}
ClosedArchived(w) ==
  stage[w] = "labelled" /\ caughtUp[w] => \A e \in ClosedIn(w) : archived[e] > 0
ClosedShown(w) ==
  stage[w] = "archive" =>
    /\ \A e \in Event : /\ shown[w][e] <= archived[e]
                        /\ shown[w][e] > 0 => HourOf[e] < clock
    /\ caughtUp[w] => \A e \in ClosedIn(w) : shown[w][e] > 0
DoneExact(w) ==
  stage[w] = "done" =>
    /\ \A e \in Event : shown[w][e] > 1 => archived[e] > 1
    /\ caughtUp[w] /\ clock = began[w].hour =>
         \A e \in began[w].events \ late : shown[w][e] > 0

WorkerInv(w) ==
  BeganInv(w) /\ LabelInv(w) /\ ClosedArchived(w) /\ ClosedShown(w) /\ DoneExact(w)

ReportInv == NoFuture /\ ReportTypeOK /\ \A w \in Web : WorkerInv(w)

(* The archive beside a report only grows, and so does the time.           *)
LEMMA RollupGrows ==
  ASSUME TypeOK, [Next]_vars
  PROVE  /\ clock' >= clock /\ stored \subseteq stored' /\ late \subseteq late'
         /\ \A e \in Event : archived'[e] >= archived[e]
         /\ NoFuture => NoFuture'
<1> USE RollupAssumption DEF TypeOK, NoFuture, db
<1>1. CASE Tick
  BY <1>1 DEF Tick
<1>2. ASSUME NEW b \in SUBSET Event, InsertEvents(b)
      PROVE  /\ clock' >= clock /\ stored \subseteq stored' /\ late \subseteq late'
             /\ \A e \in Event : archived'[e] >= archived[e]
             /\ NoFuture => NoFuture'
  BY <1>2 DEF InsertEvents
<1>3. ASSUME NEW p \in Roller, CommitRollup(p)
      PROVE  /\ clock' = clock /\ stored' = stored /\ late' = late
             /\ \A e \in Event : archived'[e] >= archived[e]
  BY <1>3 DEF CommitRollup
<1>4. ASSUME UNCHANGED <<clock, stored, late, archived>>
      PROVE  /\ clock' >= clock /\ stored \subseteq stored' /\ late \subseteq late'
             /\ \A e \in Event : archived'[e] >= archived[e]
             /\ NoFuture => NoFuture'
  BY <1>4
<1> QED
  BY <1>1, <1>2, <1>3, <1>4
  DEF Next, StartRound, RoundFailed, RoundOk, HourlyLoad, ReadCursor,
      TakeSnapshot, RollupFailed, vars

(* A report takes part in the archive's behaviour, as any caller does.     *)
LEMMA ReportRollsUp == ReportSpec => Spec
<1>1. ReportInit => Init
  BY DEF ReportInit
<1>2. [ReportNext]_hourlyVars => [Next]_vars
  BY DEF ReportNext, RollupStep, BeginReport, ReadLabel, ReadArchive, ReadRunning,
         ReportFails, hourlyVars, Next
<1> QED
  BY <1>1, <1>2, PTL DEF ReportSpec, Spec

(* Whatever the others do, a report's evidence stays good.                 *)
LEMMA OthersKeepReport ==
  ASSUME TypeOK, OnlyClosedHours, ReportInv, [Next]_vars, NEW w \in Web,
         stage'[w] = stage[w], began'[w] = began[w], caughtUp'[w] = caughtUp[w],
         label'[w] = label[w], shown'[w] = shown[w]
  PROVE  WorkerInv(w)'
<1>1. /\ clock' >= clock /\ stored \subseteq stored' /\ late \subseteq late'
      /\ \A e \in Event : archived'[e] >= archived[e]
  BY RollupGrows
<1>2. clock \in Nat /\ clock' \in Nat /\ archived \in [Event -> Nat] /\ archived' \in [Event -> Nat]
  BY TypeStep DEF TypeOK
<1>3. /\ began[w].hour \in Nat /\ began[w].events \subseteq Event /\ label[w] \in Nat
      /\ shown[w] \in [Event -> Nat]
  BY DEF ReportInv, ReportTypeOK
<1>4. WorkerInv(w)
  BY DEF ReportInv
<1>5. HourOf \in [Event -> Nat]
  BY RollupAssumption
<1>6. ClosedIn(w)' \subseteq ClosedIn(w) /\ ClosedIn(w) \subseteq Event
  BY <1>1, <1>3 DEF ClosedIn
<1>7. BeganInv(w)'
  BY <1>1, <1>2, <1>3, <1>4 DEF WorkerInv, BeganInv
<1>8. LabelInv(w)'
  BY <1>1, <1>2, <1>3, <1>4 DEF WorkerInv, LabelInv
<1>9. ClosedArchived(w)'
  BY <1>1, <1>2, <1>4, <1>6 DEF WorkerInv, ClosedArchived
<1>10. ClosedShown(w)'
  BY <1>1, <1>2, <1>3, <1>4, <1>5, <1>6 DEF WorkerInv, ClosedShown
<1>11. DoneExact(w)'
  <2>1. ASSUME stage[w] = "done", caughtUp[w], clock' = began[w].hour,
               NEW e \in began[w].events \ late'
        PROVE  shown[w][e] > 0
    <3>1. clock = began[w].hour
      BY <1>1, <1>2, <1>3, <1>4, <2>1 DEF WorkerInv, BeganInv
    <3>2. e \in began[w].events \ late
      BY <1>1, <2>1
    <3> QED
      BY <1>4, <2>1, <3>1, <3>2 DEF WorkerInv, DoneExact
  <2>2. ASSUME stage[w] = "done", NEW e \in Event, shown[w][e] > 1
        PROVE  archived'[e] > 1
    BY <1>1, <1>2, <1>4, <2>2 DEF WorkerInv, DoneExact
  <2> QED
    BY <2>1, <2>2 DEF DoneExact
<1> QED
  BY <1>7, <1>8, <1>9, <1>10, <1>11 DEF WorkerInv

(* The running hour is read: it replaces its cell, and no other.           *)
LEMMA RunningStep ==
  ASSUME TypeOK, ReportTypeOK, NEW w \in Web, ReadRunning(w)
  PROVE  /\ shown' \in [Web -> [Event -> Nat]]
         /\ \A v \in Web \ {w} : shown'[v] = shown[v]
         /\ \A e \in Event :
              /\ e \in Running => shown'[w][e] = shown[w][e] + 1
              /\ e \notin Running /\ HourOf[e] # label[w] => shown'[w][e] = shown[w][e]
              /\ e \notin Running => shown'[w][e] <= shown[w][e]
<1> DEFINE next == WithRunning(shown[w], label[w])
<1>1. shown \in [Web -> [Event -> Nat]] /\ shown[w] \in [Event -> Nat]
  BY DEF ReportTypeOK
<1>2. shown' = [shown EXCEPT ![w] = next]
  BY DEF ReadRunning
<1>3. next \in [Event -> Nat]
  BY <1>1 DEF WithRunning
<1>4. \A e \in Event :
        /\ e \in Running => next[e] = shown[w][e] + 1
        /\ e \notin Running /\ HourOf[e] # label[w] => next[e] = shown[w][e]
        /\ e \notin Running => next[e] <= shown[w][e]
  BY <1>1 DEF WithRunning
<1> HIDE DEF next
<1> QED
  BY <1>1, <1>2, <1>3, <1>4

LEMMA ReportTypeStep ==
  ASSUME TypeOK, ReportTypeOK, [ReportNext]_hourlyVars
  PROVE  ReportTypeOK'
<1>1. ASSUME NEW w \in Web, BeginReport(w) PROVE ReportTypeOK'
  <2>1. [hour |-> clock, events |-> stored] \in [hour : Nat, events : SUBSET Event]
    BY DEF TypeOK
  <2> QED
    BY <1>1, <2>1 DEF BeginReport, ReportTypeOK
<1>2. ASSUME NEW w \in Web, ReadLabel(w) PROVE ReportTypeOK'
  <2>1. stage' \in [Web -> {"none", "rollup", "labelled", "archive", "done"}] /\ label' \in [Web -> Nat]
    BY <1>2 DEF ReadLabel, ReportTypeOK, TypeOK
  <2>2. (cursor >= began[w].hour /\ NoGap) \in BOOLEAN
    BY DEF NoGap
  <2> HIDE DEF NoGap
  <2>3. caughtUp' \in [Web -> BOOLEAN]
    BY <1>2, <2>2 DEF ReadLabel, ReportTypeOK
  <2> QED
    BY <1>2, <2>1, <2>3 DEF ReadLabel, ReportTypeOK
<1>3. ASSUME NEW w \in Web, ReadArchive(w) PROVE ReportTypeOK'
  BY <1>3 DEF ReadArchive, ReportTypeOK, TypeOK
<1>4. ASSUME NEW w \in Web, ReadRunning(w) PROVE ReportTypeOK'
  <2>1. shown' \in [Web -> [Event -> Nat]]
    BY <1>4, RunningStep
  <2>2. /\ stage' = [stage EXCEPT ![w] = "done"]
        /\ began' = began /\ caughtUp' = caughtUp /\ label' = label
    BY <1>4 DEF ReadRunning
  <2> QED
    BY <2>1, <2>2 DEF ReportTypeOK
<1>5. ASSUME NEW w \in Web, ReportFails(w) PROVE ReportTypeOK'
  BY <1>5 DEF ReportFails, ReportTypeOK
<1>6. ASSUME UNCHANGED reportVars PROVE ReportTypeOK'
  BY <1>6 DEF reportVars, ReportTypeOK
<1> QED
  BY <1>1, <1>2, <1>3, <1>4, <1>5, <1>6 DEF ReportNext, RollupStep, hourlyVars

LEMMA ReportStep ==
  ASSUME TypeOK, OnlyClosedHours, ReportInv, [ReportNext]_hourlyVars
  PROVE  ReportInv'
<1>1. [Next]_vars
  BY DEF ReportNext, RollupStep, BeginReport, ReadLabel, ReadArchive, ReadRunning,
         ReportFails, hourlyVars, Next
<1>2. ReportTypeOK' /\ NoFuture'
  BY <1>1, ReportTypeStep, RollupGrows DEF ReportInv
<1>3. /\ ReportTypeOK /\ clock \in Nat /\ archived \in [Event -> Nat] /\ stored \subseteq Event
      /\ HourOf \in [Event -> Nat] /\ late \subseteq stored
  BY RollupAssumption DEF ReportInv, TypeOK
<1>4. ASSUME NEW w \in Web,
             stage'[w] = stage[w], began'[w] = began[w], caughtUp'[w] = caughtUp[w],
             label'[w] = label[w], shown'[w] = shown[w]
      PROVE  WorkerInv(w)'
  BY <1>1, <1>4, OthersKeepReport
<1>5. ASSUME UNCHANGED reportVars PROVE ReportInv'
  BY <1>2, <1>4, <1>5 DEF reportVars, ReportInv
<1>6. ASSUME NEW w \in Web, BeginReport(w) PROVE ReportInv'
  <2>1. /\ stage'[w] = "rollup" /\ began'[w].hour = clock /\ began'[w].events = stored
        /\ clock' = clock /\ stored' = stored
    BY <1>3, <1>6 DEF BeginReport, ReportTypeOK, HourlyLoad, vars, db
  <2>2. WorkerInv(w)'
    BY <1>3, <2>1 DEF WorkerInv, BeganInv, LabelInv, ClosedArchived, ClosedShown, DoneExact,
                      ReportInv, NoFuture
  <2>3. ASSUME NEW v \in Web \ {w} PROVE WorkerInv(v)'
    BY <1>3, <1>4, <1>6 DEF BeginReport, ReportTypeOK
  <2> QED
    BY <1>2, <2>2, <2>3 DEF ReportInv
<1>7. ASSUME NEW w \in Web, ReadLabel(w) PROVE ReportInv'
  <2>1. /\ stage'[w] = "labelled" /\ label'[w] = clock /\ began' = began
        /\ caughtUp'[w] = (cursor >= began[w].hour /\ NoGap)
        /\ UNCHANGED vars
    BY <1>3, <1>7 DEF ReadLabel, ReportTypeOK
  <2>2. BeganInv(w)' /\ LabelInv(w)'
    BY <1>3, <2>1 DEF ReportInv, WorkerInv, BeganInv, LabelInv, vars
  <2>3. ClosedArchived(w)'
    <3> SUFFICES ASSUME cursor >= began[w].hour, NoGap, NEW e \in ClosedIn(w)
                 PROVE  archived[e] > 0
      BY <2>1 DEF ClosedArchived, ClosedIn, vars
    <3>1. e \in stored \ late /\ HourOf[e] < began[w].hour
      BY DEF ClosedIn, ReportInv, WorkerInv, BeganInv
    <3>2. HourOf[e] \in Nat /\ began[w].hour \in Nat /\ cursor \in Nat
      BY <1>3, <3>1 DEF ReportTypeOK, TypeOK
    <3>3. HourOf[e] < cursor
      BY <3>1, <3>2
    <3> QED
      BY <3>1, <3>3 DEF NoGap
  <2>4. WorkerInv(w)'
    BY <2>1, <2>2, <2>3 DEF WorkerInv, ClosedShown, DoneExact
  <2>5. ASSUME NEW v \in Web \ {w} PROVE WorkerInv(v)'
    BY <1>3, <1>4, <1>7 DEF ReadLabel, ReportTypeOK
  <2> QED
    BY <1>2, <2>4, <2>5 DEF ReportInv
<1>8. ASSUME NEW w \in Web, ReadArchive(w) PROVE ReportInv'
  <2>1. /\ stage[w] = "labelled" /\ stage'[w] = "archive" /\ shown'[w] = archived
        /\ UNCHANGED <<vars, began, caughtUp, label>>
    BY <1>3, <1>8 DEF ReadArchive, ReportTypeOK
  <2>2. BeganInv(w)' /\ LabelInv(w)'
    BY <2>1 DEF ReportInv, WorkerInv, BeganInv, LabelInv, vars
  <2>3. ClosedShown(w)'
    BY <1>3, <2>1 DEF ReportInv, WorkerInv, ClosedArchived, ClosedShown, ClosedIn,
                      OnlyClosedHours, vars
  <2>4. WorkerInv(w)'
    BY <2>1, <2>2, <2>3 DEF WorkerInv, ClosedArchived, DoneExact
  <2>5. ASSUME NEW v \in Web \ {w} PROVE WorkerInv(v)'
    BY <1>3, <1>4, <1>8 DEF ReadArchive, ReportTypeOK
  <2> QED
    BY <1>2, <2>4, <2>5 DEF ReportInv
<1>9. ASSUME NEW w \in Web, ReadRunning(w) PROVE ReportInv'
  <2>1. /\ stage[w] = "archive" /\ stage'[w] = "done"
        /\ UNCHANGED <<vars, began, caughtUp, label>>
        /\ \A v \in Web \ {w} : stage'[v] = stage[v]
    BY <1>3, <1>9 DEF ReadRunning, ReportTypeOK
  <2>2. /\ \A v \in Web \ {w} : shown'[v] = shown[v]
        /\ \A e \in Event :
             /\ e \in Running => shown'[w][e] = shown[w][e] + 1
             /\ e \notin Running /\ HourOf[e] # label[w] => shown'[w][e] = shown[w][e]
             /\ e \notin Running => shown'[w][e] <= shown[w][e]
    BY <1>3, <1>9, RunningStep
  <2>3. BeganInv(w)' /\ LabelInv(w)'
    BY <2>1 DEF ReportInv, WorkerInv, BeganInv, LabelInv, vars
  <2>4. /\ shown[w] \in [Event -> Nat] /\ shown'[w] \in [Event -> Nat]
        /\ began[w].hour \in Nat /\ began[w].events \subseteq Event /\ label[w] \in Nat
    BY <1>2, <1>3 DEF ReportTypeOK
  <2>5. ClosedShown(w) /\ BeganInv(w) /\ LabelInv(w)
    BY DEF ReportInv, WorkerInv
  <2>6. \A e \in Event : e \in Running <=> e \in stored /\ HourOf[e] >= clock
    BY DEF Running
  <2>7. ASSUME NEW e \in Event, shown'[w][e] > 1 PROVE archived[e] > 1
    <3>1. e \in Running => shown[w][e] = 0
      BY <1>3, <2>1, <2>4, <2>5, <2>6 DEF ClosedShown
    <3>2. e \notin Running
      BY <2>2, <2>4, <2>7, <3>1
    <3>3. shown[w][e] > 1
      BY <2>2, <2>4, <2>7, <3>2
    <3> QED
      BY <1>3, <2>1, <2>4, <2>5, <3>3 DEF ClosedShown
  <2>8. ASSUME caughtUp[w], clock = began[w].hour, NEW e \in began[w].events \ late
        PROVE  shown'[w][e] > 0
    <3>1. e \in Event /\ e \in stored /\ HourOf[e] \in Nat /\ HourOf[e] <= began[w].hour
      BY <1>3, <2>4, <2>5 DEF BeganInv
    <3>2. CASE HourOf[e] = clock
      <4>1. e \in Running
        BY <1>3, <2>6, <3>1, <3>2
      <4> QED
        BY <2>2, <2>4, <3>1, <4>1
    <3>3. CASE HourOf[e] < clock
      <4>1. shown[w][e] > 0
        BY <2>1, <2>5, <2>8, <3>1, <3>3 DEF ClosedShown, ClosedIn
      <4>2. e \notin Running
        BY <1>3, <2>6, <3>1, <3>3
      <4>3. HourOf[e] # label[w]
        BY <1>3, <2>1, <2>4, <2>5, <2>8, <3>1, <3>3 DEF LabelInv
      <4> QED
        BY <2>2, <2>4, <3>1, <4>1, <4>2, <4>3
    <3> QED
      BY <1>3, <2>8, <3>1, <3>2, <3>3
  <2>9. DoneExact(w)'
    BY <2>1, <2>7, <2>8 DEF DoneExact, vars
  <2>10. WorkerInv(w)'
    BY <2>1, <2>3, <2>9 DEF WorkerInv, ClosedArchived, ClosedShown
  <2>11. ASSUME NEW v \in Web \ {w} PROVE WorkerInv(v)'
    BY <1>4, <2>1, <2>2
  <2> QED
    BY <1>2, <2>10, <2>11 DEF ReportInv
<1>10. ASSUME NEW w \in Web, ReportFails(w) PROVE ReportInv'
  <2>1. stage'[w] = "none" /\ UNCHANGED <<vars, began, caughtUp, label, shown>>
    BY <1>3, <1>10 DEF ReportFails, ReportTypeOK
  <2>2. WorkerInv(w)'
    BY <2>1 DEF ReportInv, WorkerInv, BeganInv, LabelInv, ClosedArchived, ClosedShown,
                DoneExact, vars
  <2>3. ASSUME NEW v \in Web \ {w} PROVE WorkerInv(v)'
    BY <1>3, <1>4, <1>10 DEF ReportFails, ReportTypeOK
  <2> QED
    BY <1>2, <2>2, <2>3 DEF ReportInv
<1> QED
  BY <1>5, <1>6, <1>7, <1>8, <1>9, <1>10 DEF ReportNext, RollupStep, hourlyVars

(* No finished report counts an event twice, unless the archive does, and  *)
(* one whose hour did not turn, over an archive that is whole, counts all  *)
(* that was recorded before it began (web/hourly.rs, load).                *)
THEOREM ReportExactHolds == ReportSpec => []ReportExact
<1>1. ReportInit => ReportInv
  <2> SUFFICES ASSUME ReportInit PROVE ReportInv
    OBVIOUS
  <2>1. ReportTypeOK
    BY DEF ReportInit, ReportTypeOK
  <2> QED
    BY <2>1 DEF ReportInit, Init, ReportInv, NoFuture, WorkerInv, BeganInv, LabelInv,
                ClosedArchived, ClosedShown, DoneExact
<1>2. TypeOK /\ OnlyClosedHours /\ ReportInv /\ [ReportNext]_hourlyVars => ReportInv'
  BY ReportStep
<1>3. ReportInv => ReportExact
  BY DEF ReportInv, WorkerInv, DoneExact, ReportExact
<1>4. ReportSpec => [](TypeOK /\ OnlyClosedHours)
  BY ReportRollsUp, TypeCorrect, OnlyClosedHoursHolds, PTL
<1> QED
  BY <1>1, <1>2, <1>3, <1>4, PTL DEF ReportSpec

-----------------------------------------------------------------------------
(* The Cloudflare page.                                                    *)
CallState ==
  [at : {"none", "asked", "period", "queried", "persisted", "answered", "error"},
   began : Nat, stale : BOOLEAN, cached : BOOLEAN, period : Period, read : Nat]
Numbers == [read : Nat, period : Period]
SyncTypeOK ==
  /\ time \in FirstTime..LastTime
  /\ kept \subseteq [at : Nat, shown : Numbers]
  /\ call \in [Client -> CallState]

(* A period is that of some day between two times.                         *)
Covers(p, from, upto) == \E t \in Int : from <= t /\ t <= upto /\ t \in DaysOf(p)

KeptInv ==
  \A row \in kept : /\ row.at <= row.shown.read
                    /\ Covers(row.shown.period, row.at, row.shown.read)
CallInv(r, now) ==
  /\ r.at \in {"asked", "period", "queried", "persisted"} => r.began <= now
  /\ r.at = "period" /\ OnCalendar(r.period.start) /\ OnCalendar(r.period.end) =>
       Covers(r.period, r.began, now)
  /\ r.at \in {"queried", "persisted"} =>
       r.began <= r.read /\ r.read <= now /\ Covers(r.period, r.began, r.read)
  /\ r.at = "answered" /\ ~r.stale =>
       r.read > r.began - Ttl /\ Covers(r.period, r.began - Ttl + 1, r.read)

SyncInv == SyncTypeOK /\ KeptInv /\ \A c \in Client : CallInv(call[c], time)

(* A billing period that is on the calendar is that of the day it was      *)
(* asked for on, in each of its three forms.                               *)
LEMMA PeriodOfToday ==
  ASSUME NEW t \in FirstTime..LastTime, NEW p \in BillingPeriods(t)
  PROVE  /\ p \in Period
         /\ OnCalendar(p.start) /\ OnCalendar(p.end) => t \in DaysOf(p)
<1> USE SyncAssumption, CalendarAssumption
<1> DEFINE m == MonthAt(t)
<1>1. /\ Len(MonthStart) \in Nat /\ FirstTime \in Nat /\ t \in Nat /\ LastTime \in Nat
      /\ \A k \in 1..Len(MonthStart) : MonthStart[k] \in Nat
  <2>1. Len(MonthStart) \in Nat /\ \A k \in 1..Len(MonthStart) : MonthStart[k] \in Nat
    BY LenProperties, ElementOfSeq
  <2>2. 2 \in 1..Len(MonthStart)
    BY <2>1 DEF Month
  <2> QED
    BY <2>1, <2>2 DEF FirstTime
<1>2. m \in Month /\ InMonth(t, m)
  BY DEF MonthAt
<1>3. m # 1 /\ m + 1 \in Month /\ m - 1 \in Month
  <2>1. m # 1 /\ m + 1 \in Month
    BY <1>2
  <2> HIDE DEF m
  <2> QED
    BY ONLY <1>1, <1>2, <2>1 DEF Month
<1> HIDE DEF m
<1>4. /\ MonthStart[m - 1] \in Nat /\ MonthStart[m] \in Nat /\ MonthStart[m + 1] \in Nat
      /\ MonthStart[m] <= t /\ t < MonthStart[m + 1]
  BY <1>1, <1>2, <1>3 DEF Month, InMonth
<1>5. CASE /\ p \in Subscription
           /\ OnCalendar(p.start) /\ OnCalendar(p.end) /\ t \in DaysOf(p)
  BY <1>5
<1>6. CASE BillingDay = 0 /\ p = CalendarPeriod(t)
  <2>1. p = [start |-> <<m, 1>>, end |-> <<m + 1, 1>>]
    BY <1>6 DEF CalendarPeriod, m
  <2>2. p \in Period
    BY <1>2, <1>3, <2>1 DEF Period, Date
  <2>3. DayOf(p.start) = MonthStart[m] /\ DayOf(p.end) = MonthStart[m + 1]
    <3>1. DayOf(p.start) = MonthStart[m] + 1 - 1 /\ DayOf(p.end) = MonthStart[m + 1] + 1 - 1
      BY ONLY <2>1 DEF DayOf
    <3> QED
      BY ONLY <1>4, <3>1
  <2>4. t \in DaysOf(p)
    BY <1>1, <1>4, <2>3 DEF DaysOf
  <2> QED
    BY <2>2, <2>4
<1>7. CASE BillingDay # 0 /\ p = ConfiguredPeriod(t)
  <2> DEFINE n == IF t - MonthStart[m] + 1 >= BillingDay THEN m ELSE m - 1
  <2>1. p = [start |-> <<n, BillingDay>>, end |-> <<n + 1, BillingDay>>]
    BY <1>7 DEF ConfiguredPeriod, m
  <2>2. n \in Month /\ n + 1 \in Month /\ BillingDay \in 1..31
    BY <1>1, <1>2, <1>3, <1>7 DEF Month
  <2>3. p \in Period
    BY <2>1, <2>2 DEF Period, Date
  <2>4. /\ DayOf(p.start) = MonthStart[n] + BillingDay - 1
        /\ DayOf(p.end) = MonthStart[n + 1] + BillingDay - 1
        /\ OnCalendar(p.start) <=> BillingDay <= MonthStart[n + 1] - MonthStart[n]
    BY <2>1 DEF DayOf, OnCalendar
  <2>5. CASE t - MonthStart[m] + 1 >= BillingDay
    <3>1. n = m
      BY <2>5
    <3>2. /\ DayOf(p.start) = MonthStart[m] + BillingDay - 1
          /\ DayOf(p.end) = MonthStart[m + 1] + BillingDay - 1
      BY <2>4, <3>1
    <3> HIDE DEF n
    <3>3. /\ DayOf(p.start) \in Int /\ DayOf(p.end) \in Int
          /\ DayOf(p.start) <= t /\ t < DayOf(p.end)
      <4>1. t \in Nat /\ BillingDay \in Nat /\ BillingDay >= 1
        BY ONLY <1>1, <2>2
      <4> QED
        BY ONLY <4>1, <1>4, <2>5, <3>2
    <3>4. t \in DaysOf(p)
      BY ONLY <1>1, <3>3 DEF DaysOf
    <3> QED
      BY ONLY <2>3, <3>4
  <2>6. CASE ~(t - MonthStart[m] + 1 >= BillingDay)
    <3>1. n = m - 1 /\ n + 1 = m
      <4>1. m \in Int
        BY <1>1, <1>2 DEF Month
      <4> QED
        BY <2>6, <4>1
    <3>2. /\ DayOf(p.start) = MonthStart[m - 1] + BillingDay - 1
          /\ DayOf(p.end) = MonthStart[m] + BillingDay - 1
          /\ OnCalendar(p.start) => BillingDay <= MonthStart[m] - MonthStart[m - 1]
      BY SMTT(30), <2>4, <3>1
    <3> HIDE DEF n
    <3>3. ASSUME OnCalendar(p.start)
          PROVE  /\ DayOf(p.start) \in Int /\ DayOf(p.end) \in Int
                 /\ DayOf(p.start) <= t /\ t < DayOf(p.end)
      <4>1. /\ t \in Int /\ BillingDay \in Int
            /\ MonthStart[m - 1] \in Int /\ MonthStart[m] \in Int
        BY ONLY <1>1, <1>4, <2>2
      <4>2. BillingDay <= MonthStart[m] - MonthStart[m - 1]
        BY ONLY <3>2, <3>3
      <4>3. t - MonthStart[m] + 1 < BillingDay
        BY ONLY <2>6, <4>1
      <4>4. MonthStart[m - 1] + BillingDay - 1 <= t
        BY ONLY <1>4, <4>1, <4>2
      <4>5. t < MonthStart[m] + BillingDay - 1
        BY ONLY <4>1, <4>3
      <4> QED
        BY ONLY <3>2, <4>1, <4>4, <4>5
    <3>4. OnCalendar(p.start) => t \in DaysOf(p)
      BY ONLY <1>1, <3>3 DEF DaysOf
    <3> QED
      BY ONLY <2>3, <3>4
  <2> QED
    BY <2>5, <2>6
<1> QED
  BY <1>5, <1>6, <1>7 DEF BillingPeriods

(* A request's step leaves the rest as it was, and goes on in order.       *)
LEMMA CallStep ==
  ASSUME SyncInv, NEW c \in Client, NEW r \in CallState, CallInv(r, time),
         call' = [call EXCEPT ![c] = r], UNCHANGED <<time, kept>>
  PROVE  SyncInv'
<1>1. SyncTypeOK' /\ KeptInv'
  BY DEF SyncInv, SyncTypeOK, KeptInv
<1>2. ASSUME NEW d \in Client PROVE CallInv(call'[d], time')
  <2>1. call'[d] = IF d = c THEN r ELSE call[d]
    BY DEF SyncInv, SyncTypeOK
  <2> QED
    BY <2>1 DEF SyncInv
<1> QED
  BY <1>1, <1>2 DEF SyncInv

(* What is shown, and of which request.                                    *)
LEMMA AnswerParts ==
  ASSUME NEW since \in Nat, NEW numbers \in Numbers
  PROVE  LET r == Answer(since, numbers) IN
         /\ r \in CallState /\ r.at = "answered" /\ r.began = since
         /\ r.read = numbers.read /\ r.period = numbers.period
<1>1. NoPeriod \in Period
  BY CalendarAssumption DEF NoPeriod, Period, Date, Month
<1> QED
  BY <1>1 DEF Answer, NoCall, CallState, Numbers

(* The page shows numbers read less than the time to live before it was    *)
(* asked for, and of the billing period of a day since, unless it says     *)
(* that they are stale (cloudflare.rs, report).                            *)
THEOREM FreshAnswersHolds == SyncSpec => []FreshAnswers
<1> USE SyncAssumption, CalendarAssumption
<1>0. FirstTime \in Nat /\ NoCall \in CallState
  <2>1. MonthStart[2] \in Nat
    <3>1. 2 \in 1..Len(MonthStart)
      BY LenProperties DEF Month
    <3> QED
      BY <3>1, ElementOfSeq
  <2>2. NoPeriod \in Period
    BY DEF NoPeriod, Period, Date, Month
  <2> QED
    BY <2>1, <2>2 DEF FirstTime, NoCall, CallState
<1>1. SyncInit => SyncInv
  <2> SUFFICES ASSUME SyncInit PROVE SyncInv
    OBVIOUS
  <2>1. CallInv(NoCall, time)
    BY DEF NoCall, CallInv
  <2> QED
    BY <1>0, <2>1 DEF SyncInit, SyncInv, SyncTypeOK, KeptInv
<1>2. SyncInv /\ [SyncNext]_syncVars => SyncInv'
  <2> SUFFICES ASSUME SyncInv, [SyncNext]_syncVars PROVE SyncInv'
    OBVIOUS
  <2>0. /\ time \in Nat /\ time \in FirstTime..LastTime /\ Ttl \in Nat /\ Ttl > 0
        /\ \A c \in Client : call[c] \in CallState /\ CallInv(call[c], time)
        /\ \A row \in kept : /\ row.at \in Nat /\ row.shown \in Numbers
                             /\ row.shown.read \in Nat
    BY <1>0 DEF SyncInv, SyncTypeOK, Numbers
  <2>1. CASE Pass
    <3>1. SyncTypeOK' /\ KeptInv' /\ time' = time + 1 /\ call' = call
      BY <1>0, <2>0, <2>1 DEF Pass, SyncInv, SyncTypeOK, KeptInv
    <3>2. ASSUME NEW c \in Client PROVE CallInv(call[c], time + 1)
      BY <2>0 DEF CallInv, CallState, Covers
    <3> QED
      BY <3>1, <3>2 DEF SyncInv
  <2>2. ASSUME NEW c \in Client, NEW force \in BOOLEAN, AskCloudflare(c, force)
        PROVE  SyncInv'
    <3>1. UNCHANGED <<time, kept>>
      BY <2>2 DEF AskCloudflare
    <3>2. ASSUME NEW row \in kept, Young(row, time),
                 call' = [call EXCEPT ![c] = Answer(time, row.shown)]
          PROVE  SyncInv'
      <4> DEFINE r == Answer(time, row.shown)
      <4>1. /\ r \in CallState /\ r.at = "answered" /\ r.began = time
            /\ r.read = row.shown.read /\ r.period = row.shown.period
        BY <2>0, AnswerParts
      <4>2. row.at <= row.shown.read /\ Covers(row.shown.period, row.at, row.shown.read)
        BY DEF SyncInv, KeptInv
      <4>3. row.at > time - Ttl
        BY <2>0, <3>2 DEF Young
      <4> HIDE DEF r
      <4>4. r.read > r.began - Ttl
        BY <2>0, <4>1, <4>2, <4>3
      <4>5. Covers(r.period, r.began - Ttl + 1, r.read)
        BY <2>0, <4>1, <4>2, <4>3 DEF Covers
      <4>6. CallInv(r, time)
        BY <4>1, <4>4, <4>5 DEF CallInv
      <4> QED
        BY <3>1, <3>2, <4>1, <4>6, CallStep DEF r
    <3>3. ASSUME NEW b \in BOOLEAN, call' = [call EXCEPT ![c] =
                   [NoCall EXCEPT !.at = "asked", !.began = time, !.cached = b]]
          PROVE  SyncInv'
      <4> DEFINE r == [NoCall EXCEPT !.at = "asked", !.began = time, !.cached = b]
      <4>1. r \in CallState /\ r.at = "asked" /\ r.began = time
        BY <1>0, <2>0 DEF CallState
      <4> HIDE DEF r
      <4>2. CallInv(r, time)
        BY <2>0, <4>1 DEF CallInv
      <4> QED
        BY <3>1, <3>3, <4>1, <4>2, CallStep DEF r
    <3>4. (kept # {}) \in BOOLEAN
      OBVIOUS
    <3> QED
      BY <2>2, <3>2, <3>3, <3>4 DEF AskCloudflare
  <2>3. ASSUME NEW c \in Client, AskFails(c) \/ QueryFails(c) PROVE SyncInv'
    <3> DEFINE bad == [NoCall EXCEPT !.at = "error"]
               old == [NoCall EXCEPT !.at = "answered", !.stale = TRUE]
    <3>1. bad \in CallState /\ bad.at = "error" /\ old \in CallState /\ old.stale = TRUE
          /\ old.at = "answered"
      BY <1>0 DEF CallState
    <3>2. call' = [call EXCEPT ![c] = bad] \/ call' = [call EXCEPT ![c] = old]
      BY <2>3 DEF AskFails, QueryFails
    <3>3. UNCHANGED <<time, kept>>
      BY <2>3 DEF AskFails, QueryFails
    <3> HIDE DEF bad, old
    <3>4. CallInv(bad, time) /\ CallInv(old, time)
      BY <3>1 DEF CallInv
    <3> QED
      BY <3>1, <3>2, <3>3, <3>4, CallStep
  <2>4. ASSUME NEW c \in Client, FetchPeriod(c) PROVE SyncInv'
    <3>1. PICK p \in BillingPeriods(time) :
            call' = [call EXCEPT ![c] = [@ EXCEPT !.at = "period", !.period = p]]
      BY <2>4 DEF FetchPeriod
    <3> DEFINE r == [call[c] EXCEPT !.at = "period", !.period = p]
    <3>2. /\ p \in Period
          /\ OnCalendar(p.start) /\ OnCalendar(p.end) => time \in DaysOf(p)
      BY <2>0, PeriodOfToday
    <3>3. r \in CallState /\ r.at = "period" /\ r.period = p /\ r.began = call[c].began
      BY <2>0, <3>2 DEF CallState
    <3>4. call[c].began <= time /\ call[c].at = "asked"
      BY <2>0, <2>4 DEF FetchPeriod, CallInv
    <3>5. call' = [call EXCEPT ![c] = r] /\ UNCHANGED <<time, kept>>
      BY <2>4, <3>1 DEF FetchPeriod
    <3> HIDE DEF r
    <3>6. OnCalendar(p.start) /\ OnCalendar(p.end) => Covers(p, r.began, time)
      BY <2>0, <3>2, <3>3, <3>4 DEF Covers
    <3>7. CallInv(r, time)
      BY <3>3, <3>4, <3>6 DEF CallInv
    <3> QED
      BY <3>3, <3>5, <3>7, CallStep
  <2>5. ASSUME NEW c \in Client, QueryOk(c) PROVE SyncInv'
    <3> DEFINE r == [call[c] EXCEPT !.at = "queried", !.read = time]
    <3>1. /\ r \in CallState /\ r.at = "queried" /\ r.read = time
          /\ r.began = call[c].began /\ r.period = call[c].period
      BY <2>0 DEF CallState
    <3>2. call[c].began <= time /\ Covers(call[c].period, call[c].began, time)
      BY <2>0, <2>5 DEF QueryOk, CallInv
    <3>3. call' = [call EXCEPT ![c] = r] /\ UNCHANGED <<time, kept>>
      BY <2>5 DEF QueryOk, Counted
    <3> HIDE DEF r
    <3>4. CallInv(r, time)
      BY <2>0, <3>1, <3>2 DEF CallInv
    <3> QED
      BY <3>1, <3>3, <3>4, CallStep
  <2>6. ASSUME NEW c \in Client, Persist(c) PROVE SyncInv'
    <3> DEFINE r == [call[c] EXCEPT !.at = "persisted"]
    <3>1. /\ r \in CallState /\ r.at = "persisted" /\ r.read = call[c].read
          /\ r.began = call[c].began /\ r.period = call[c].period
      BY <2>0 DEF CallState
    <3>2. call' = [call EXCEPT ![c] = r] /\ UNCHANGED <<time, kept>> /\ call[c].at = "queried"
      BY <2>6 DEF Persist
    <3> HIDE DEF r
    <3>3. CallInv(r, time)
      BY <2>0, <3>1, <3>2 DEF CallInv
    <3> QED
      BY <3>1, <3>2, <3>3, CallStep
  <2>7. ASSUME NEW c \in Client, Store(c) PROVE SyncInv'
    <3> DEFINE numbers == Shown(c)
               r == Answer(call[c].began, numbers)
               row == [at |-> call[c].began, shown |-> numbers]
    <3>1. /\ call[c].at = "persisted" /\ call[c] \in CallState /\ call[c].began \in Nat
          /\ call[c].read \in Nat
      BY <2>0, <2>7 DEF Store, CallState
    <3>2. numbers \in Numbers /\ numbers.read = call[c].read /\ numbers.period = call[c].period
      BY <3>1 DEF Shown, Numbers, CallState
    <3>3. /\ call[c].began <= call[c].read /\ call[c].read <= time
          /\ Covers(call[c].period, call[c].began, call[c].read)
      BY <2>0, <3>1 DEF CallInv
    <3>4. /\ r \in CallState /\ r.at = "answered" /\ r.began = call[c].began
          /\ r.read = call[c].read /\ r.period = call[c].period
      BY <3>1, <3>2, AnswerParts
    <3>5. /\ call' = [call EXCEPT ![c] = r] /\ UNCHANGED <<time>>
          /\ kept' = kept \/ kept' = {row}
      BY <2>7 DEF Store
    <3> HIDE DEF numbers, r
    <3>6. CallInv(r, time)
      <4>1. r.read > r.began - Ttl
        BY <2>0, <3>1, <3>3, <3>4
      <4>2. Covers(r.period, r.began - Ttl + 1, r.read)
        BY <2>0, <3>1, <3>3, <3>4 DEF Covers
      <4> QED
        BY <3>4, <4>1, <4>2 DEF CallInv
    <3>7. SyncTypeOK' /\ KeptInv'
      BY <3>1, <3>2, <3>3, <3>4, <3>5 DEF SyncInv, SyncTypeOK, KeptInv
    <3>8. ASSUME NEW d \in Client PROVE CallInv(call'[d], time')
      <4>1. call'[d] = IF d = c THEN r ELSE call[d]
        BY <3>5 DEF SyncInv, SyncTypeOK
      <4> QED
        BY <2>0, <3>5, <3>6, <4>1
    <3> QED
      BY <3>7, <3>8 DEF SyncInv
  <2>8. CASE UNCHANGED syncVars
    BY <2>8 DEF syncVars, SyncInv, SyncTypeOK, KeptInv
  <2> QED
    BY <2>1, <2>2, <2>3, <2>4, <2>5, <2>6, <2>7, <2>8 DEF SyncNext
<1>3. SyncInv => FreshAnswers
  <2> SUFFICES ASSUME SyncInv, NEW c \in Client, call[c].at = "answered", ~call[c].stale
               PROVE  /\ call[c].read > call[c].began - Ttl
                      /\ (call[c].began - Ttl + 1 .. call[c].read) \cap DaysOf(call[c].period) # {}
    BY DEF FreshAnswers
  <2>1. /\ call[c].read > call[c].began - Ttl
        /\ Covers(call[c].period, call[c].began - Ttl + 1, call[c].read)
    BY DEF SyncInv, CallInv
  <2>2. call[c].read \in Nat /\ call[c].began \in Nat
    BY DEF SyncInv, SyncTypeOK, CallState
  <2> QED
    BY <2>1, <2>2 DEF Covers
<1> QED
  BY <1>1, <1>2, <1>3, PTL DEF SyncSpec
-----------------------------------------------------------------------------
(* The prices.  A table names no price twice, so of two prices with one    *)
(* bare name neither is found by it: a third one would be.                 *)
Table == {t \in Seq(PriceId) : \A i, j \in DOMAIN t : t[i] = t[j] => i = j}
AtMostTwoOfName ==
  \A a, b, c \in PriceId :
    BareOf[a] = BareOf[b] /\ BareOf[b] = BareOf[c] => a = b \/ b = c \/ a = c

(* The first n prices whose bare name no other of them has.                *)
Alone(table, n) ==
  {table[i] : i \in {i \in 1..n : \A j \in 1..n :
                       BareOf[table[j]] = BareOf[table[i]] => j = i}}

(* A price is added to the ones found by their bare names: of its name     *)
(* there was none before it, or one, which goes.                           *)
LEMMA AddedAlone ==
  ASSUME AtMostTwoOfName, NEW table \in Table, NEW n \in 1..Len(table)
  PROVE  Added(Alone(table, n - 1), table[n]) = Alone(table, n)
<1> DEFINE id     == table[n]
           before == Alone(table, n - 1)
           same   == {c \in before : BareOf[c] = BareOf[id]}
<1>1. /\ Len(table) \in Nat /\ n \in Nat /\ n - 1 \in Nat
      /\ \A i \in 1..n : i \in DOMAIN table /\ table[i] \in PriceId
      /\ \A i, j \in 1..n : table[i] = table[j] => i = j
      /\ \A i \in 1..n : i = n \/ i \in 1..(n - 1)
      /\ \A i \in 1..(n - 1) : i \in 1..n /\ i # n
      /\ n \in 1..n
  BY DEF Table
<1>2. ASSUME NEW i \in 1..(n - 1), NEW j \in 1..(n - 1),
             BareOf[table[i]] = BareOf[id], BareOf[table[j]] = BareOf[id]
      PROVE  i = j
  BY <1>1, <1>2 DEF AtMostTwoOfName
<1>3. CASE \E i \in 1..(n - 1) : BareOf[table[i]] = BareOf[id]
  <2>1. PICK i \in 1..(n - 1) : BareOf[table[i]] = BareOf[id]
    BY <1>3
  <2>2. table[i] \in same
    BY <2>1, <1>2 DEF Alone
  <2>3. Added(before, id) = before \ same
    BY <2>2 DEF Added
  <2>4. ASSUME NEW x \in before \ same PROVE x \in Alone(table, n)
    BY <2>4, <1>1 DEF Alone
  <2>5. ASSUME NEW x \in Alone(table, n) PROVE x \in before \ same
    <3>1. PICK k \in 1..n : x = table[k] /\ \A j \in 1..n :
                              BareOf[table[j]] = BareOf[table[k]] => j = k
      BY <2>5 DEF Alone
    <3>2. k # n
      BY <3>1, <2>1, <1>1
    <3>3. BareOf[x] # BareOf[id]
      BY <3>1, <3>2, <1>1
    <3> QED
      BY <3>1, <3>2, <3>3, <1>1 DEF Alone
  <2>6. before \ same = Alone(table, n)
    <3> HIDE DEF before, same
    <3> QED
      BY <2>4, <2>5
  <2> QED
    BY <2>3, <2>6
<1>4. CASE ~ \E i \in 1..(n - 1) : BareOf[table[i]] = BareOf[id]
  <2>1. same = {}
    BY <1>4 DEF Alone
  <2>2. Added(before, id) = before \cup {id}
    BY <2>1 DEF Added
  <2>3. ASSUME NEW x \in before \cup {id} PROVE x \in Alone(table, n)
    <3>1. CASE x = id
      BY <3>1, <1>4, <1>1 DEF Alone
    <3>2. CASE x \in before
      BY <3>2, <1>4, <1>1 DEF Alone
    <3> QED
      BY <2>3, <3>1, <3>2
  <2>4. ASSUME NEW x \in Alone(table, n) PROVE x \in before \cup {id}
    BY <2>4, <1>1 DEF Alone
  <2>5. before \cup {id} = Alone(table, n)
    <3> HIDE DEF before
    <3> QED
      BY <2>3, <2>4
  <2> QED
    BY <2>2, <2>5
<1> QED
  BY <1>3, <1>4

(* Nothing descends through the naturals for ever.                        *)
LEMMA NoDescent ==
  ASSUME NEW S \in SUBSET Nat, \A n \in S : \E m \in S : m < n
  PROVE  S = {}
<1> DEFINE R == {r \in Nat \X Nat : r[1] < r[2]}
<1>1. IsWellFoundedOn(R, Nat)
  BY NatLessThanWellFounded DEF OpToRel
<1>2. SUFFICES ASSUME S # {} PROVE FALSE
  OBVIOUS
<1>3. PICK x \in S : \A y \in S : <<y, x>> \notin R
  <2> HIDE DEF R
  <2> QED
    BY <1>1, <1>2, WFMin
<1> QED
  BY <1>3

(* by_bare_name, once built, has the prices that are alone with their name. *)
LEMMA ByBareNameAlone ==
  ASSUME AtMostTwoOfName, NEW table \in Table
  PROVE  ByBareName(table) = Alone(table, Len(table))
<1> DEFINE N == Len(table)
           Step(f, n) == IF n = 0 THEN {} ELSE Added(f[n - 1], table[n])
<1>1. N \in Nat /\ Alone(table, 0) = {}
  BY DEF Table, Alone
<1>2. \A n \in 1..N : Added(Alone(table, n - 1), table[n]) = Alone(table, n)
  BY AddedAlone
<1> HIDE DEF N
<1>3. \E f : f = [n \in 0..N |-> Step(f, n)]
  <2> DEFINE f == [n \in 0..N |-> Alone(table, n)]
  <2>1. ASSUME NEW n \in 0..N PROVE f[n] = Step(f, n)
    <3>1. CASE n = 0
      BY <3>1, <1>1
    <3>2. CASE n # 0
      <4>1. n \in 1..N /\ n - 1 \in 0..N
        BY <3>2, <1>1
      <4>2. f[n] = Alone(table, n) /\ f[n - 1] = Alone(table, n - 1)
        BY <4>1
      <4> HIDE DEF f
      <4> QED
        BY <4>1, <4>2, <3>2, <1>2
    <3> QED
      BY <3>1, <3>2
  <2>2. f = [n \in 0..N |-> Step(f, n)]
    <3> HIDE DEF Step
    <3> QED
      BY <2>1
  <2> QED
    BY <2>2
<1> DEFINE run == CHOOSE f : f = [n \in 0..N |-> Step(f, n)]
           Wrong == {n \in 0..N : run[n] # Alone(table, n)}
<1>4. run = [n \in 0..N |-> Step(run, n)]
  <2> HIDE DEF Step
  <2> QED
    BY <1>3
<1>5. ByBareName(table) = run[N]
  BY DEF ByBareName, N
<1> HIDE DEF run
<1>6. Wrong = {}
  <2>1. Wrong \in SUBSET Nat
    BY <1>1
  <2>2. ASSUME NEW n \in Wrong PROVE \E m \in Wrong : m < n
    <3>1. n \in 0..N /\ run[n] = Step(run, n) /\ run[n] # Alone(table, n)
      <4> HIDE DEF Step
      <4> QED
        BY <1>4
    <3>2. n # 0
      BY <3>1, <1>1
    <3>3. n \in 1..N /\ n - 1 \in 0..N /\ n - 1 < n
      BY <1>1, <3>1, <3>2
    <3>4. run[n] = Added(run[n - 1], table[n])
      BY <3>1, <3>2
    <3>5. run[n - 1] # Alone(table, n - 1)
      BY <3>1, <3>3, <3>4, <1>2
    <3> QED
      BY <3>3, <3>5
  <2> HIDE DEF Wrong
  <2> QED
    BY <2>1, <2>2, NoDescent
<1> QED
  BY <1>1, <1>5, <1>6 DEF N

(* Every table that prices were taken from is the catalogue of some time.  *)
PricesInv ==
  /\ catalogue \in Table
  /\ loaded \subseteq Table
  /\ importer.at = "found" => importer.table \in Table
  /\ \A e \in DOMAIN cost : \E table \in Table : cost[e] = Priced(table, e)

(* New prices go behind the ones there are.                                *)
LEMMA TableGrows ==
  ASSUME NEW table \in Table, NEW new \in SUBSET (PriceId \ Range(table)),
         NEW order \in SetToSeqs(new)
  PROVE  table \o order \in Table
<1>1. IsFiniteSet(new)
  BY PricesAssumption, FS_Subset
<1>2. Cardinality(new) \in Nat
  BY <1>1, FS_CardinalityType
<1>3. /\ order \in [1..Cardinality(new) -> new]
      /\ \A i, j \in 1..Cardinality(new) : i # j => order[i] # order[j]
  BY DEF SetToSeqs
<1>4. order \in Seq(PriceId) /\ Len(order) = Cardinality(new)
  BY <1>2, <1>3
<1> DEFINE both == table \o order
           N    == Len(table)
<1>5. /\ table \in Seq(PriceId) /\ N \in Nat /\ Len(order) \in Nat
      /\ both \in Seq(PriceId) /\ Len(both) = N + Len(order)
  BY <1>4 DEF Table
<1>6. ASSUME NEW i \in DOMAIN both
      PROVE  \/ i \in 1..N /\ both[i] = table[i]
             \/ i - N \in 1..Len(order) /\ both[i] = order[i - N]
  BY <1>4, <1>5
<1>7. \A i \in 1..N, j \in 1..Len(order) : table[i] # order[j]
  BY <1>3, <1>4, <1>5 DEF Range
<1>8. \A i, j \in 1..N : table[i] = table[j] => i = j
  BY <1>5 DEF Table
<1>9. ASSUME NEW i \in DOMAIN both, NEW j \in DOMAIN both, both[i] = both[j]
      PROVE  i = j
  <2>0. i \in Int /\ j \in Int
    BY <1>5
  <2>1. \/ i \in 1..N /\ both[i] = table[i]
        \/ i - N \in 1..Len(order) /\ both[i] = order[i - N]
    BY <1>6
  <2>2. \/ j \in 1..N /\ both[j] = table[j]
        \/ j - N \in 1..Len(order) /\ both[j] = order[j - N]
    BY <1>6
  <2>3. \A k, l \in 1..Len(order) : order[k] = order[l] => k = l
    BY <1>3, <1>4
  <2> HIDE DEF both, N
  <2>4. i - N = j - N => i = j
    BY <2>0, <1>5
  <2> QED
    BY <2>1, <2>2, <2>3, <2>4, <1>7, <1>8, <1>9
<1> QED
  BY <1>5, <1>9 DEF Table

(* The invariant: no step of the rounds or of the importer takes a price   *)
(* from anything but a table.                                              *)
LEMMA PricesInvariant == PricesSpec => []PricesInv
<1>1. PricesInit => PricesInv
  <2> SUFFICES ASSUME PricesInit PROVE PricesInv
    OBVIOUS
  <2>1. <<>> \in Table
    BY DEF Table
  <2> QED
    BY <2>1 DEF PricesInit, PricesInv
<1>2. PricesInv /\ [PricesNext]_priceVars => PricesInv'
  <2> SUFFICES ASSUME PricesInv, [PricesNext]_priceVars PROVE PricesInv'
    OBVIOUS
  <2> USE DEF PricesInv
  <2>1. CASE LoadTable
    BY <2>1 DEF LoadTable
  <2>2. CASE RoundEnds
    BY <2>2 DEF RoundEnds
  <2>3. CASE ImportPrices
    <3>1. PICK new \in SUBSET (PriceId \ Range(catalogue)) :
            \E order \in SetToSeqs(new) : catalogue' = catalogue \o order
      BY <2>3 DEF ImportPrices
    <3>2. catalogue' \in Table
      BY <3>1, TableGrows
    <3> QED
      BY <2>3, <3>2 DEF ImportPrices
  <2>4. CASE FindUnpriced
    BY <2>4 DEF FindUnpriced
  <2>5. CASE Reprice
    <3>1. ASSUME NEW e \in DOMAIN cost'
          PROVE  \E table \in Table : cost'[e] = Priced(table, e)
      <4>1. e \in DOMAIN cost
        BY <2>5 DEF Reprice
      <4>2. CASE e \in importer.bills
        BY <4>1, <4>2, <2>5 DEF Reprice
      <4>3. CASE e \notin importer.bills
        BY <4>1, <4>3, <2>5 DEF Reprice
      <4> QED
        BY <4>2, <4>3
    <3> QED
      BY <2>5, <3>1 DEF Reprice
  <2>6. CASE ImportFails
    BY <2>6 DEF ImportFails
  <2>7. CASE \E e \in Bill : InsertBill(e)
    <3>1. PICK e \in Bill : InsertBill(e)
      BY <2>7
    <3>2. PICK table \in loaded : cost' = [x \in DOMAIN cost \cup {e} |->
                                  IF x = e THEN Priced(table, e) ELSE cost[x]]
      BY <3>1 DEF InsertBill
    <3>3. ASSUME NEW x \in DOMAIN cost'
          PROVE  \E t \in Table : cost'[x] = Priced(t, x)
      <4>1. CASE x = e
        BY <4>1, <3>2
      <4>2. CASE x # e
        BY <4>2, <3>2
      <4> QED
        BY <4>1, <4>2
    <3> QED
      BY <3>1, <3>3 DEF InsertBill
  <2>8. CASE UNCHANGED priceVars
    BY <2>8 DEF priceVars
  <2> QED
    BY <2>1, <2>2, <2>3, <2>4, <2>5, <2>6, <2>7, <2>8 DEF PricesNext
<1> QED
  BY <1>1, <1>2, PTL DEF PricesSpec

(* While at most two prices of the catalogue share a bare name, no event   *)
(* is ever billed one of several prices its table had for it, whatever the *)
(* order of imports, rounds, failures and repricing (cost.rs:27).          *)
THEOREM NoGuessHolds ==
  ASSUME AtMostTwoOfName
  PROVE  PricesSpec => []NoGuess
<1>1. ASSUME PricesInv PROVE NoGuess
  <2> SUFFICES ASSUME NEW e \in DOMAIN cost,
                      cost[e].price \notin {NoCost, AliasOf[ModelOf[e]], ModelOf[e],
                                            BareOf[ModelOf[e]]}
               PROVE  {id \in cost[e].table : BareOf[id] = BareOf[ModelOf[e]]}
                        = {cost[e].price}
    BY DEF NoGuess
  <2>1. PICK table \in Table : cost[e] = Priced(table, e)
    BY <1>1 DEF PricesInv
  <2> DEFINE m     == ModelOf[e]
             found == Resolve(table, m)
             price == cost[e].price
  <2>2. /\ cost[e].table = Range(table)
        /\ price = IF found = {} THEN NoCost ELSE CHOOSE id \in found : TRUE
    BY <2>1 DEF Priced
  <2>3. price \in found
    BY <2>2
  <2>4. price \in ByBareName(table) /\ BareOf[price] = BareOf[m]
    BY <2>3 DEF Resolve
  <2>5. PICK i \in 1..Len(table) : /\ price = table[i]
                                   /\ \A j \in 1..Len(table) :
                                        BareOf[table[j]] = BareOf[table[i]] => j = i
    BY <2>4, ByBareNameAlone DEF Alone
  <2>6. DOMAIN table = 1..Len(table)
    BY DEF Table
  <2> HIDE DEF m, price
  <2>7. \A id \in Range(table) : BareOf[id] = BareOf[m] => id = price
    BY <2>4, <2>5, <2>6 DEF Range
  <2>8. price \in Range(table)
    BY <2>5, <2>6 DEF Range
  <2>9. {id \in Range(table) : BareOf[id] = BareOf[m]} = {price}
    BY <2>4, <2>7, <2>8
  <2> QED
    BY <2>2, <2>9 DEF m, price
<1> QED
  BY <1>1, PricesInvariant, PTL

-----------------------------------------------------------------------------
(* The plan page's cycles.                                                 *)
LEMMA MinMaxOfTwo ==
  ASSUME NEW x \in Int, NEW y \in Int
  PROVE  /\ Min({x, y}) = IF x <= y THEN x ELSE y
         /\ Max({x, y}) = IF x >= y THEN x ELSE y
<1>1. Min({x, y}) = IF x <= y THEN x ELSE y
  BY DEF Min
<1>2. Max({x, y}) = IF x >= y THEN x ELSE y
  BY DEF Max
<1> QED
  BY <1>1, <1>2

(* A machine that takes n steps from a state has a run.                    *)
HasRun(S, base, n, step) ==
  \E f \in [0..n -> S] : f[0] = base /\ \A i \in 1..n : f[i] = step[<<f[i - 1], i>>]

LEMMA RunExists ==
  ASSUME NEW S, NEW base \in S, NEW n \in Nat, NEW step \in [S \X (1..n) -> S]
  PROVE  HasRun(S, base, n, step)
<1> DEFINE Run(k, f) == /\ f \in [0..k -> S] /\ f[0] = base
                        /\ \A i \in 1..k : f[i] = step[<<f[i - 1], i>>]
           Bad == {k \in 0..n : ~\E f : Run(k, f)}
<1>1. ASSUME NEW k \in Bad PROVE \E m \in Bad : m < k
  <2>1. k # 0
    <3>1. Run(0, [i \in 0..0 |-> base])
      OBVIOUS
    <3> QED
      BY <3>1
  <2>2. k - 1 \in 0..n /\ k \in 1..n /\ k \in Nat
    BY <2>1
  <2>3. SUFFICES ASSUME NEW f, Run(k - 1, f) PROVE FALSE
    BY <2>2
  <2> DEFINE g == [i \in 0..k |-> IF i = k THEN step[<<f[k - 1], k>>] ELSE f[i]]
  <2>4. f[k - 1] \in S /\ step[<<f[k - 1], k>>] \in S
    BY <2>2, <2>3
  <2>5. g \in [0..k -> S] /\ g[0] = base
    BY <2>1, <2>2, <2>3, <2>4
  <2>6. ASSUME NEW i \in 1..k PROVE g[i] = step[<<g[i - 1], i>>]
    <3>1. i - 1 \in 0..k /\ i - 1 # k /\ i \in 0..k
      BY <2>2
    <3>2. g[i - 1] = f[i - 1]
      BY <3>1
    <3>3. CASE i = k
      BY <3>1, <3>2, <3>3
    <3>4. CASE i # k
      <4>1. i \in 1..(k - 1)
        BY <3>4, <2>2
      <4> QED
        BY <3>1, <3>2, <3>4, <4>1, <2>3
    <3> QED
      BY <3>3, <3>4
  <2>7. Run(k, g)
    <3> HIDE DEF g
    <3> QED
      BY <2>5, <2>6
  <2> QED
    BY <2>7
<1>2. Bad \in SUBSET Nat
  OBVIOUS
<1>3. Bad = {}
  <2> HIDE DEF Bad
  <2> QED
    BY <1>1, <1>2, NoDescent
<1>4. \E f : Run(n, f)
  <2> HIDE DEF Run
  <2>1. n \in 0..n
    OBVIOUS
  <2> QED
    BY <1>3, <2>1, Zenon
<1> QED
  BY <1>4 DEF HasRun

(* A strict total order.                                                   *)
OrderOn(S, R) ==
  /\ \A x \in S : <<x, x>> \notin R
  /\ \A x, y \in S : x # y => <<x, y>> \in R \/ <<y, x>> \in R
  /\ \A x, y, z \in S : <<x, y>> \in R /\ <<y, z>> \in R => <<x, z>> \in R

(* A finite set can be put in order, and Sorted does.                      *)
LEMMA SortedInOrder ==
  ASSUME NEW S, IsFiniteSet(S), NEW R, OrderOn(S, R)
  PROVE  /\ Cardinality(S) \in Nat
         /\ Sorted(S, R) \in [1..Cardinality(S) -> S]
         /\ \A i, j \in 1..Cardinality(S) :
              i < j => <<Sorted(S, R)[i], Sorted(S, R)[j]>> \in R
<1> DEFINE N == Cardinality(S)
           Below(x) == {y \in S : <<y, x>> \in R}
           Rank(x) == Cardinality(Below(x)) + 1
           rank == [x \in S |-> Rank(x)]
<1>0. N \in Nat
  BY FS_CardinalityType
<1>1. ASSUME NEW x \in S
      PROVE  IsFiniteSet(Below(x)) /\ Cardinality(Below(x)) \in Nat
  <2>1. Below(x) \in SUBSET S
    OBVIOUS
  <2> HIDE DEF Below
  <2>2. IsFiniteSet(Below(x))
    BY <2>1, FS_Subset
  <2> QED
    BY <2>2, FS_CardinalityType
<1>2. ASSUME NEW x \in S PROVE Rank(x) \in 1..N
  <2>1. Below(x) \in SUBSET S /\ Below(x) # S
    BY DEF OrderOn
  <2> HIDE DEF Below
  <2>2. Cardinality(Below(x)) <= N /\ Cardinality(Below(x)) # N
    BY <2>1, FS_Subset
  <2> QED
    BY <2>2, <1>0, <1>1
<1>3. ASSUME NEW x \in S, NEW y \in S, <<x, y>> \in R PROVE Rank(x) < Rank(y)
  <2>1. Below(x) \in SUBSET Below(y) /\ Below(x) # Below(y)
    BY <1>3 DEF OrderOn
  <2> HIDE DEF Below
  <2>2. Cardinality(Below(x)) <= Cardinality(Below(y))
        /\ Cardinality(Below(x)) # Cardinality(Below(y))
    BY <2>1, <1>1, FS_Subset
  <2> QED
    BY <2>2, <1>1
<1> HIDE DEF Rank
<1>4. rank \in [S -> 1..N]
  BY <1>2
<1>5. ASSUME NEW x \in S, NEW y \in S, rank[x] = rank[y] PROVE x = y
  <2>1. Rank(x) = Rank(y) /\ Rank(x) \in Int /\ Rank(y) \in Int
    BY <1>2, <1>5
  <2>2. <<x, y>> \notin R
    <3> SUFFICES ASSUME <<x, y>> \in R PROVE FALSE
      OBVIOUS
    <3>1. Rank(x) < Rank(y)
      BY <1>3
    <3> QED
      BY <2>1, <3>1
  <2>3. <<y, x>> \notin R
    <3> SUFFICES ASSUME <<y, x>> \in R PROVE FALSE
      OBVIOUS
    <3>1. Rank(y) < Rank(x)
      BY <1>3
    <3> QED
      BY <2>1, <3>1
  <2> QED
    BY <2>2, <2>3 DEF OrderOn
<1>6. rank \in Injection(S, 1..N)
  <2> HIDE DEF rank
  <2> QED
    BY <1>4, <1>5, Fun_IsInj
<1>7. IsFiniteSet(1..N) /\ Cardinality(1..N) = N
  BY <1>0, FS_Interval
<1>8. rank \in Surjection(S, 1..N)
  <2> HIDE DEF rank, N
  <2>1. Cardinality(S) = Cardinality(1..N) <=> rank \in Surjection(S, 1..N)
    BY <1>6, <1>7, FS_Injection
  <2> QED
    BY <2>1, <1>7 DEF N
<1>9. \A i \in 1..N : \E x \in S : Rank(x) = i
  <2>1. \A i \in 1..N : \E x \in S : rank[x] = i
    <3> HIDE DEF rank
    <3> QED
      BY <1>8, Fun_SurjectionProperties
  <2> QED
    BY <2>1
<1> DEFINE q == [i \in 1..N |-> CHOOSE x \in S : Rank(x) = i]
<1>10. \A i \in 1..N : q[i] \in S /\ Rank(q[i]) = i
  BY <1>9
<1>11. q \in [1..N -> S]
  BY <1>10
<1>12. ASSUME NEW i \in 1..N, NEW j \in 1..N, i < j PROVE <<q[i], q[j]>> \in R
  <2> HIDE DEF q
  <2>1. q[i] \in S /\ q[j] \in S /\ Rank(q[i]) = i /\ Rank(q[j]) = j
    BY <1>10
  <2>2. q[i] # q[j] /\ ~(Rank(q[j]) < Rank(q[i]))
    BY <2>1, <1>12, <1>0
  <2> QED
    BY <2>1, <2>2, <1>3 DEF OrderOn
<1>13. \E p \in [1..N -> S] : \A i, j \in 1..N : i < j => <<p[i], p[j]>> \in R
  <2> HIDE DEF q
  <2> QED
    BY <1>11, <1>12
<1> QED
  BY <1>0, <1>13 DEF Sorted

Sample ==
  [account : Account, at : Nat, window : Nat, percent : Nat, resets : Nat]

(* A sample tells of a window that has begun when it is recorded.          *)
SamplesInv ==
  /\ instant \in Nat
  /\ samples \in Seq(Sample)
  /\ \A m \in 1..Len(samples) : StartOf(m) <= instant

(* What an account's cycle in progress holds.                              *)
Quota == [anchor : Nat, total : Nat, peak : Nat]

LEMMA SamplesTyped ==
  ASSUME SamplesInv
  PROVE  /\ Len(samples) \in Nat /\ DOMAIN samples = 1..Len(samples)
         /\ \A m \in 1..Len(samples) :
              /\ samples[m] \in Sample
              /\ samples[m].account \in Account /\ samples[m].at \in Nat
              /\ samples[m].window \in Nat /\ samples[m].percent \in Nat
              /\ samples[m].resets \in Nat
<1>1. Len(samples) \in Nat /\ DOMAIN samples = 1..Len(samples)
  BY DEF SamplesInv
<1>2. \A m \in 1..Len(samples) : samples[m] \in Sample
  BY ElementOfSeq DEF SamplesInv
<1> QED
  BY <1>1, <1>2 DEF Sample

(* The peak of the cycle in progress is the last share, and falls add up.  *)
LEMMA ClustersTyped ==
  ASSUME SamplesInv, NEW m \in 1..Len(samples)
  PROVE  Cluster(m) \in Quota /\ Cluster(m).peak = samples[m].percent
<1> DEFINE N == Len(samples)
           S == [Account -> Quota]
           base == [a \in Account |-> [anchor |-> 0, total |-> 0, peak |-> 0]]
           Next1(c, n) == IF SameReset(samples[n], c.anchor)
                          THEN Climb(c, samples[n].percent)
                          ELSE [anchor |-> n, total |-> 0, peak |-> samples[n].percent]
           Step(f, n) == [f EXCEPT ![samples[n].account] = Next1(@, n)]
           step == [x \in S \X (1..N) |-> Step(x[1], x[2])]
<1>1. N \in Nat
  BY SamplesTyped
<1>2. ASSUME NEW c \in Quota, NEW n \in 1..N
      PROVE  Next1(c, n) \in Quota /\ Next1(c, n).peak = samples[n].percent
  <2>1. samples[n].percent \in Nat /\ n \in Nat
    BY SamplesTyped
  <2> DEFINE p == samples[n].percent
  <2>2. c.total \in Nat /\ c.peak \in Nat /\ c.anchor \in Nat
    BY DEF Quota
  <2>3. Climb(c, p) \in Quota /\ Climb(c, p).peak = p
    <3> HIDE DEF p
    <3>0. p \in Nat
      BY <2>1 DEF p
    <3>1. c.total + c.peak \in Nat
      BY <2>2
    <3>2. /\ [c EXCEPT !.total = @ + c.peak, !.peak = p] \in Quota
          /\ [c EXCEPT !.total = @ + c.peak, !.peak = p].peak = p
      BY <3>0, <3>1 DEF Quota
    <3>3. [c EXCEPT !.peak = p] \in Quota /\ [c EXCEPT !.peak = p].peak = p
      BY <3>0 DEF Quota
    <3> QED
      BY <3>2, <3>3 DEF Climb
  <2>4. /\ [anchor |-> n, total |-> 0, peak |-> p] \in Quota
        /\ [anchor |-> n, total |-> 0, peak |-> p].peak = p
    BY <2>1 DEF Quota
  <2> QED
    BY <2>3, <2>4
<1> HIDE DEF Next1
<1>3. ASSUME NEW f \in S, NEW n \in 1..N
      PROVE  /\ Step(f, n) \in S
             /\ Step(f, n)[samples[n].account] = Next1(f[samples[n].account], n)
  <2>1. samples[n].account \in Account /\ f[samples[n].account] \in Quota
    BY SamplesTyped
  <2> QED
    BY <2>1, <1>2
<1>4. base \in S
  BY DEF Quota
<1>5. step \in [S \X (1..N) -> S]
  <2> HIDE DEF Step, S
  <2> QED
    BY <1>3
<1>6. PICK f \in [0..N -> S] : f[0] = base /\ \A i \in 1..N : f[i] = step[<<f[i - 1], i>>]
  <2> HIDE DEF step, S, base, N
  <2>1. HasRun(S, base, N, step)
    BY <1>1, <1>4, <1>5, RunExists
  <2> QED
    BY <2>1 DEF HasRun
<1>7. \A i \in 1..N : f[i - 1] \in S /\ f[i] = Step(f[i - 1], i)
  <2> SUFFICES ASSUME NEW i \in 1..N PROVE f[i - 1] \in S /\ f[i] = Step(f[i - 1], i)
    OBVIOUS
  <2>1. i - 1 \in 0..N
    BY <1>1
  <2> HIDE DEF S, Step
  <2> QED
    BY <2>1, <1>6
<1>8. \E g : g = [n \in 0..N |-> IF n = 0 THEN base ELSE Step(g[n - 1], n)]
  <2> HIDE DEF S, Step, base
  <2>1. f = [n \in 0..N |-> IF n = 0 THEN base ELSE Step(f[n - 1], n)]
    <3>1. \A n \in 0..N : f[n] = IF n = 0 THEN base ELSE Step(f[n - 1], n)
      BY <1>1, <1>6, <1>7
    <3> QED
      BY <3>1, <1>6
  <2> QED
    BY <2>1
<1> DEFINE g == CHOOSE g : g = [n \in 0..N |-> IF n = 0 THEN base ELSE Step(g[n - 1], n)]
<1>9. Clusters = g
  BY DEF Clusters, Next1
<1>10. g = [n \in 0..N |-> IF n = 0 THEN base ELSE Step(g[n - 1], n)]
  <2> HIDE DEF Step, base, N
  <2> QED
    BY <1>8
<1> HIDE DEF g
<1>11. \A n \in 0..N : g[n] \in S
  <2> HIDE DEF S, Step, base
  <2> DEFINE Bad == {n \in 0..N : g[n] \notin S}
  <2>1. ASSUME NEW n \in Bad PROVE \E k \in Bad : k < n
    <3>1. n # 0
      BY <1>10, <1>1, <1>4
    <3>2. n \in 1..N /\ n - 1 \in 0..N /\ n - 1 < n
      BY <3>1, <1>1
    <3>3. g[n] = Step(g[n - 1], n)
      BY <3>1, <3>2, <1>10
    <3>4. g[n - 1] \notin S
      BY <3>2, <3>3, <1>3
    <3> QED
      BY <3>2, <3>4
  <2>2. Bad \in SUBSET Nat
    BY <1>1
  <2>3. Bad = {}
    <3> HIDE DEF Bad
    <3> QED
      BY <2>1, <2>2, NoDescent
  <2> QED
    BY <2>3
<1>12. m \in 1..N /\ m \in 0..N /\ m # 0 /\ m - 1 \in 0..N
  BY <1>1
<1>13. g[m] = Step(g[m - 1], m) /\ g[m - 1] \in S
  <2> HIDE DEF S, Step, base
  <2> QED
    BY <1>10, <1>11, <1>12
<1>14. Cluster(m) = Next1(g[m - 1][samples[m].account], m)
  <2> HIDE DEF Step
  <2>1. Step(g[m - 1], m)[samples[m].account] = Next1(g[m - 1][samples[m].account], m)
    <3> HIDE DEF S
    <3> QED
      BY <1>3, <1>12, <1>13
  <2> QED
    BY <2>1, <1>9, <1>13 DEF Cluster
<1>15. g[m - 1][samples[m].account] \in Quota
  BY <1>13, <1>12, SamplesTyped
<1> QED
  BY <1>2, <1>12, <1>14, <1>15

Cycle ==
  [start : Int, end : Int, window : Nat, sum : Nat, last : Nat, sample : Nat,
   upto : Int]

(* A cycle begins a window before its end, and by now; its shares cover    *)
(* what its last sample says.                                              *)
CycleInv(c) ==
  /\ c \in Cycle
  /\ c.start = c.end - c.window /\ c.start <= instant /\ c.last <= c.sum

LEMMA CycleOfSample ==
  ASSUME SamplesInv, NEW m \in 1..Len(samples)
  PROVE  CycleInv(CycleOf(m)) /\ CycleOf(m).start = StartOf(m)
<1> DEFINE s == samples[m]
           u == Min({s.resets, instant})
<1>1. /\ s.at \in Nat /\ s.window \in Nat /\ s.percent \in Nat /\ s.resets \in Nat
  BY SamplesTyped
<1>2. StartOf(m) = s.resets - s.window /\ StartOf(m) <= instant /\ StartOf(m) \in Int
  BY <1>1 DEF StartOf, SamplesInv
<1>3. u \in Int
  BY <1>1, MinMaxOfTwo DEF SamplesInv
<1> DEFINE t == Cluster(m).total
           p == Cluster(m).peak
<1>4. t \in Nat /\ p \in Nat /\ p = s.percent
  BY ClustersTyped DEF Quota
<1>5. t + p \in Nat /\ s.percent <= t + p
  BY <1>1, <1>4
<1>6. CycleOf(m) =
        [start |-> StartOf(m), end |-> s.resets, window |-> s.window, sum |-> t + p,
         last |-> s.percent, sample |-> s.at, upto |-> u]
  BY DEF CycleOf
<1>7. CycleOf(m) \in Cycle
  <2> HIDE DEF s, u, t, p
  <2> QED
    BY <1>1, <1>2, <1>3, <1>5, <1>6 DEF Cycle
<1>8. /\ CycleOf(m).start = StartOf(m) /\ CycleOf(m).end = s.resets
      /\ CycleOf(m).window = s.window /\ CycleOf(m).sum = t + p
      /\ CycleOf(m).last = s.percent
  <2> HIDE DEF s, u, t, p
  <2> QED
    BY <1>6
<1> QED
  BY <1>2, <1>5, <1>7, <1>8 DEF CycleInv

(* account_cycles' order.                                                  *)
LEMMA OrderOfAccount ==
  ASSUME SamplesInv, NEW a \in Account
  PROVE  LET n == Cardinality(Canonical(a))
             q == Sorted(Canonical(a), StartOrder)
         IN  /\ n \in Nat
             /\ q \in [1..n -> 1..Len(samples)]
             /\ \A i \in 1..n : samples[q[i]].account = a
             /\ \A i, j \in 1..n : i < j => q[i] # q[j] /\ StartOf(q[i]) <= StartOf(q[j])
<1> DEFINE n == Cardinality(Canonical(a))
           q == Sorted(Canonical(a), StartOrder)
<1>1. Len(samples) \in Nat /\ DOMAIN samples = 1..Len(samples)
  BY SamplesTyped
<1>2. Canonical(a) \in SUBSET (1..Len(samples))
  BY <1>1 DEF Canonical
<1>3. IsFiniteSet(Canonical(a))
  <2>1. IsFiniteSet(1..Len(samples))
    BY <1>1, FS_Interval
  <2> QED
    BY <1>2, <2>1, FS_Subset
<1>4. \A m \in 1..Len(samples) : StartOf(m) \in Int
  BY SamplesTyped DEF StartOf
<1>5. \A x, y \in 1..Len(samples) :
        <<x, y>> \in StartOrder <=> StartOf(x) < StartOf(y) \/ (StartOf(x) = StartOf(y) /\ x < y)
  BY <1>1 DEF StartOrder
<1>6. OrderOn(Canonical(a), StartOrder)
  <2>1. \A x \in Canonical(a) : x \in 1..Len(samples) /\ x \in Int /\ StartOf(x) \in Int
    BY <1>2, <1>4
  <2>2. \A x \in Canonical(a) : <<x, x>> \notin StartOrder
    BY <1>5, <2>1
  <2>3. \A x, y \in Canonical(a) :
          x # y => <<x, y>> \in StartOrder \/ <<y, x>> \in StartOrder
    BY <1>5, <2>1
  <2>4. ASSUME NEW x \in Canonical(a), NEW y \in Canonical(a), NEW z \in Canonical(a),
               <<x, y>> \in StartOrder, <<y, z>> \in StartOrder
        PROVE  <<x, z>> \in StartOrder
    <3>1. /\ StartOf(x) < StartOf(y) \/ (StartOf(x) = StartOf(y) /\ x < y)
          /\ StartOf(y) < StartOf(z) \/ (StartOf(y) = StartOf(z) /\ y < z)
      BY <1>5, <2>1, <2>4
    <3>2. StartOf(x) < StartOf(z) \/ (StartOf(x) = StartOf(z) /\ x < z)
      BY <2>1, <3>1
    <3> QED
      BY <1>5, <2>1, <3>2
  <2> QED
    BY <2>2, <2>3, <2>4 DEF OrderOn
<1>7. /\ n \in Nat /\ q \in [1..n -> Canonical(a)]
      /\ \A i, j \in 1..n : i < j => <<q[i], q[j]>> \in StartOrder
  BY <1>3, <1>6, SortedInOrder
<1> HIDE DEF q, n
<1>8. \A i \in 1..n : q[i] \in Canonical(a) /\ q[i] \in 1..Len(samples)
  BY <1>2, <1>7
<1>9. \A i \in 1..n : samples[q[i]].account = a
  BY <1>8 DEF Canonical
<1>10. q \in [1..n -> 1..Len(samples)]
  BY <1>7, <1>8
<1>11. ASSUME NEW i \in 1..n, NEW j \in 1..n, i < j
       PROVE  q[i] # q[j] /\ StartOf(q[i]) <= StartOf(q[j])
  <2>1. StartOf(q[i]) < StartOf(q[j]) \/ (StartOf(q[i]) = StartOf(q[j]) /\ q[i] < q[j])
    BY <1>5, <1>7, <1>8, <1>11
  <2>2. q[i] \in Int /\ q[j] \in Int /\ StartOf(q[i]) \in Int /\ StartOf(q[j]) \in Int
    BY <1>4, <1>8
  <2> QED
    BY <2>1, <2>2
<1> QED
  BY <1>7, <1>9, <1>10, <1>11 DEF n, q

(* The cycles of an account: each is counted up to the next one at most,   *)
(* which is why no two of them count an instant.                           *)
LEMMA CyclesOfAccount ==
  ASSUME SamplesInv, NEW a \in Account
  PROVE  LET n == Cardinality(Canonical(a))
             cycles == AccountCycles(a)
         IN  /\ n \in Nat /\ DOMAIN cycles = 1..n
             /\ \A i \in 1..n : CycleInv(cycles[i])
             /\ \A i, j \in 1..n : i < j => cycles[i].upto <= cycles[j].start
<1> DEFINE n == Cardinality(Canonical(a))
           q == Sorted(Canonical(a), StartOrder)
           raw == [i \in DOMAIN q |-> CycleOf(q[i])]
           cycles == AccountCycles(a)
<1>1. /\ n \in Nat
      /\ q \in [1..n -> 1..Len(samples)]
      /\ \A i, j \in 1..n : i < j => StartOf(q[i]) <= StartOf(q[j])
  BY OrderOfAccount
<1>2. cycles = Truncate(raw)
  BY DEF AccountCycles
<1> HIDE DEF n, q
<1> DEFINE Cycles == {CycleOf(q[i]) : i \in 1..n}
<1>3. DOMAIN raw = 1..n /\ raw \in [1..n -> Cycles]
  <2>1. DOMAIN q = 1..n
    BY <1>1
  <2> QED
    BY <2>1
<1>4. Len(raw) = n
  <2> HIDE DEF raw, Cycles
  <2> QED
    BY <1>1, <1>3
<1>5. \A i \in 1..n : CycleInv(raw[i]) /\ raw[i].start = StartOf(q[i])
  <2> SUFFICES ASSUME NEW i \in 1..n PROVE CycleInv(raw[i]) /\ raw[i].start = StartOf(q[i])
    OBVIOUS
  <2>1. q[i] \in 1..Len(samples) /\ raw[i] = CycleOf(q[i])
    BY <1>1
  <2> QED
    BY <2>1, CycleOfSample
<1> HIDE DEF raw, cycles
<1>6. /\ DOMAIN cycles = 1..n
      /\ \A i \in 1..n :
           cycles[i] = IF i = n THEN raw[i]
                       ELSE [raw[i] EXCEPT !.upto = Min({@, raw[i + 1].start})]
  BY <1>2, <1>3, <1>4 DEF Truncate
<1>7. ASSUME NEW i \in 1..n
      PROVE  /\ CycleInv(cycles[i]) /\ cycles[i].start = StartOf(q[i])
             /\ i # n => cycles[i].upto <= StartOf(q[i + 1])
  <2>1. CycleInv(raw[i]) /\ raw[i].start = StartOf(q[i]) /\ raw[i] \in Cycle
    BY <1>5 DEF CycleInv
  <2>2. CASE i = n
    BY <1>6, <2>1, <2>2
  <2>3. CASE i # n
    <3> DEFINE b == raw[i + 1].start
               u == Min({raw[i].upto, b})
    <3>1. i + 1 \in 1..n
      BY <2>3, <1>1
    <3>2. CycleInv(raw[i + 1]) /\ b = StartOf(q[i + 1])
      BY <3>1, <1>5
    <3>3. b \in Int /\ raw[i].upto \in Int
      BY <2>1, <3>2 DEF CycleInv, Cycle
    <3>4. u \in Int /\ u <= b
      <4> HIDE DEF b
      <4>1. \A x \in Int, y \in Int : Min({x, y}) \in Int /\ Min({x, y}) <= y
        BY MinMaxOfTwo
      <4> QED
        BY <3>3, <4>1
    <3>5. cycles[i] = [raw[i] EXCEPT !.upto = u]
      BY <1>6, <2>3
    <3> HIDE DEF b, u
    <3>6. /\ cycles[i] \in Cycle /\ cycles[i].upto = u /\ cycles[i].start = raw[i].start
          /\ cycles[i].end = raw[i].end /\ cycles[i].window = raw[i].window
          /\ cycles[i].last = raw[i].last /\ cycles[i].sum = raw[i].sum
      BY <2>1, <3>4, <3>5 DEF Cycle
    <3> QED
      BY <2>1, <3>2, <3>4, <3>6 DEF CycleInv
  <2> QED
    BY <2>2, <2>3
<1>8. ASSUME NEW i \in 1..n, NEW j \in 1..n, i < j PROVE cycles[i].upto <= cycles[j].start
  <2>1. i # n /\ i + 1 \in 1..n /\ (i + 1 = j \/ i + 1 < j)
    BY <1>1, <1>8
  <2>2. StartOf(q[i + 1]) <= StartOf(q[j])
    <3>1. CASE i + 1 = j
      <4>1. StartOf(q[j]) \in Int
        BY <1>7 DEF CycleInv, Cycle
      <4> QED
        BY <3>1, <4>1
    <3>2. CASE i + 1 < j
      BY <2>1, <3>2, <1>1
    <3> QED
      BY <2>1, <3>1, <3>2
  <2>3. cycles[i].upto <= StartOf(q[i + 1]) /\ cycles[j].start = StartOf(q[j])
    BY <2>1, <1>7
  <2>4. cycles[i].upto \in Int /\ StartOf(q[i + 1]) \in Int /\ StartOf(q[j]) \in Int
    <3>1. CycleInv(cycles[i]) /\ CycleInv(cycles[i + 1]) /\ CycleInv(cycles[j])
          /\ cycles[i + 1].start = StartOf(q[i + 1]) /\ cycles[j].start = StartOf(q[j])
      BY <2>1, <1>7
    <3> QED
      BY <3>1 DEF CycleInv, Cycle
  <2> QED
    BY <2>2, <2>3, <2>4
<1> QED
  BY <1>1, <1>6, <1>7, <1>8 DEF n, cycles

LEMMA ItemIs ==
  ASSUME SamplesInv, NEW x \in Item
  PROVE  /\ x.account \in Account /\ x.account \in Nat
         /\ x.place \in 1..Cardinality(Canonical(x.account)) /\ x.place \in Nat
         /\ x.cycle = AccountCycles(x.account)[x.place]
         /\ CycleInv(x.cycle)
         /\ x = [account |-> x.account, place |-> x.place, cycle |-> x.cycle]
<1>0. PICK a \in Account : x \in ItemsOf(a)
  BY DEF Item
<1>1. PICK k \in DOMAIN AccountCycles(a) :
        x = [account |-> a, place |-> k, cycle |-> AccountCycles(a)[k]]
  BY <1>0 DEF ItemsOf
<1>2. x.account = a /\ x.place = k /\ x.cycle = AccountCycles(a)[k]
  BY <1>1
<1>3. /\ Cardinality(Canonical(a)) \in Nat
      /\ DOMAIN AccountCycles(a) = 1..Cardinality(Canonical(a))
      /\ \A i \in 1..Cardinality(Canonical(a)) : CycleInv(AccountCycles(a)[i])
  BY CyclesOfAccount
<1>4. k \in 1..Cardinality(Canonical(a)) /\ k \in Nat /\ CycleInv(AccountCycles(a)[k])
  BY <1>3
<1>5. a \in Nat
  BY CyclesAssumption
<1> QED
  BY <1>1, <1>2, <1>4, <1>5

(* Each cycle has a sample of its own, the last, so they are finitely many.*)
LEMMA ItemFinite ==
  ASSUME SamplesInv
  PROVE  IsFiniteSet(Item)
<1> DEFINE Order(a) == Sorted(Canonical(a), StartOrder)
           T == 1..Len(samples)
           last == [x \in Item |-> Order(x.account)[x.place]]
<1>1. ASSUME NEW a \in Account
      PROVE  LET n == Cardinality(Canonical(a)) IN
             /\ n \in Nat /\ Order(a) \in [1..n -> T]
             /\ \A i \in 1..n : samples[Order(a)[i]].account = a
             /\ \A i, j \in 1..n : i < j => Order(a)[i] # Order(a)[j]
  BY OrderOfAccount
<1> HIDE DEF Order
<1>2. \A x \in Item : last[x] \in T /\ samples[last[x]].account = x.account
  <2> SUFFICES ASSUME NEW x \in Item
               PROVE  last[x] \in T /\ samples[last[x]].account = x.account
    OBVIOUS
  <2>1. x.account \in Account /\ x.place \in 1..Cardinality(Canonical(x.account))
    BY ItemIs
  <2> HIDE DEF T
  <2> QED
    BY <1>1, <2>1
<1>3. last \in [Item -> T]
  BY <1>2
<1>4. ASSUME NEW x \in Item, NEW y \in Item, last[x] = last[y] PROVE x = y
  <2>1. x.account = y.account
    BY <1>2, <1>4
  <2> DEFINE a == x.account
             i == x.place
             j == y.place
  <2>2. /\ a \in Account /\ i \in 1..Cardinality(Canonical(a)) /\ i \in Nat
        /\ j \in 1..Cardinality(Canonical(a)) /\ j \in Nat
    BY <2>1, ItemIs
  <2>3. Order(a)[i] = Order(a)[j]
    BY <1>4, <2>1
  <2> HIDE DEF i, j
  <2>4. ~(i < j) /\ ~(j < i)
    BY <1>1, <2>2, <2>3
  <2>5. i = j
    BY <2>2, <2>4
  <2> QED
    BY <2>1, <2>5, ItemIs DEF i, j
<1>5. last \in Injection(Item, T)
  <2> HIDE DEF last, T
  <2> QED
    BY <1>3, <1>4, Fun_IsInj
<1>6. IsFiniteSet(T)
  BY SamplesTyped, FS_Interval
<1> QED
  BY <1>5, <1>6, FS_Injection

(* group_cycles' order.                                                    *)
LEMMA ItemsInOrder ==
  ASSUME SamplesInv
  PROVE  LET n == Cardinality(Item)
             q == Sorted(Item, EndOrder(Item))
         IN  /\ n \in Nat /\ q \in [1..n -> Item]
             /\ \A i, j \in 1..n : i < j => q[i] # q[j]
<1> DEFINE Before(x, y) ==
             \/ x.cycle.end < y.cycle.end
             \/ /\ x.cycle.end = y.cycle.end
                /\ x.account < y.account \/ (x.account = y.account /\ x.place < y.place)
           R == EndOrder(Item)
<1>1. \A x, y \in Item : <<x, y>> \in R <=> Before(x, y)
  BY DEF EndOrder
<1>2. \A x \in Item : x.cycle.end \in Int /\ x.account \in Nat /\ x.place \in Nat
  <2> SUFFICES ASSUME NEW x \in Item
               PROVE  x.cycle.end \in Int /\ x.account \in Nat /\ x.place \in Nat
    OBVIOUS
  <2>1. x.cycle \in Cycle /\ x.account \in Nat /\ x.place \in Nat
    BY ItemIs DEF CycleInv
  <2> QED
    BY <2>1 DEF Cycle
<1>3. \A x \in Item : ~Before(x, x)
  BY <1>2
<1>4. ASSUME NEW x \in Item, NEW y \in Item, x # y PROVE Before(x, y) \/ Before(y, x)
  <2>1. x.account # y.account \/ x.place # y.place
    <3> SUFFICES ASSUME x.account = y.account, x.place = y.place PROVE FALSE
      OBVIOUS
    <3>1. x.cycle = y.cycle
      BY ItemIs
    <3> QED
      BY <1>4, <3>1, ItemIs
  <2> QED
    BY <1>2, <2>1
<1>5. ASSUME NEW x \in Item, NEW y \in Item, NEW z \in Item, Before(x, y), Before(y, z)
      PROVE  Before(x, z)
  BY <1>2, <1>5
<1> HIDE DEF Before, R
<1>6. OrderOn(Item, R)
  BY <1>1, <1>3, <1>4, <1>5 DEF OrderOn
<1> DEFINE n == Cardinality(Item)
           q == Sorted(Item, R)
<1>7. /\ n \in Nat /\ q \in [1..n -> Item]
      /\ \A i, j \in 1..n : i < j => <<q[i], q[j]>> \in R
  BY <1>6, ItemFinite, SortedInOrder
<1> HIDE DEF q, n
<1>8. \A i, j \in 1..n : i < j => q[i] # q[j]
  BY <1>6, <1>7 DEF OrderOn
<1> QED
  BY <1>7, <1>8 DEF q, n, R

(* A group begins a window before its end, and by now.                     *)
Group ==
  {g \in [start : Int, end : Int, window : Nat, upto : Int, sum : Nat, sample : Nat,
          members : SUBSET Account] :
     g.start = g.end - g.window /\ g.start <= instant}

LEMMA NewGroupIs ==
  ASSUME SamplesInv, NEW x \in Item
  PROVE  NewGroup(x.account, x.cycle) \in Group
<1>1. CycleInv(x.cycle) /\ x.account \in Account
  BY ItemIs
<1> QED
  BY <1>1 DEF NewGroup, Group, CycleInv, Cycle

LEMMA JoinedIs ==
  ASSUME SamplesInv, NEW g \in Group, NEW x \in Item
  PROVE  Joined(g, x.account, x.cycle) \in Group
<1> DEFINE a == x.account
           c == x.cycle
           end == Min({g.end, c.end})
           upto == Min({g.upto, c.upto})
           sum == g.sum + c.sum
           sample == Max({g.sample, c.sample})
           members == g.members \cup {a}
<1>1. CycleInv(c) /\ c \in Cycle /\ a \in Account
  BY ItemIs DEF CycleInv
<1>2. /\ c.end \in Int /\ c.upto \in Int /\ c.sum \in Nat /\ c.sample \in Nat
      /\ g.end \in Int /\ g.upto \in Int /\ g.sum \in Nat /\ g.sample \in Nat
      /\ g.start \in Int /\ g.window \in Nat /\ g.members \in SUBSET Account
      /\ g.start = g.end - g.window /\ g.start <= instant
  BY <1>1 DEF Group, Cycle
<1>3. end \in Int /\ end <= g.end
  <2>1. \A i \in Int, j \in Int : Min({i, j}) \in Int /\ Min({i, j}) <= i
    BY MinMaxOfTwo
  <2> QED
    BY <1>2, <2>1
<1>4. upto \in Int /\ sample \in Nat
  <2>1. \A i \in Int, j \in Int : Min({i, j}) \in Int
    BY MinMaxOfTwo
  <2>2. \A i \in Nat, j \in Nat : Max({i, j}) \in Nat
    BY MinMaxOfTwo
  <2> QED
    BY <1>2, <2>1, <2>2
<1>5. sum \in Nat /\ members \in SUBSET Account
  BY <1>1, <1>2
<1> DEFINE start == end - g.window
<1>6. Joined(g, a, c) = [g EXCEPT !.end = end, !.start = start, !.upto = upto,
                                  !.sum = sum, !.sample = sample, !.members = members]
  BY DEF Joined
<1>7. start \in Int /\ start <= instant
  <2>1. instant \in Int
    BY DEF SamplesInv
  <2>2. \A i, j, w \in Int : i <= j /\ j - w <= instant => i - w <= instant
    BY <2>1
  <2>3. /\ end \in Int /\ g.end \in Int /\ g.window \in Int
        /\ end <= g.end /\ g.end - g.window <= instant
    BY <1>2, <1>3
  <2> HIDE DEF end
  <2>4. start \in Int
    BY ONLY <2>3
  <2>5. start <= instant
    BY <2>2, <2>3, Zenon
  <2> QED
    BY <2>4, <2>5
<1>8. start = end - g.window
  OBVIOUS
<1> DEFINE all == [start |-> start, end |-> end, window |-> g.window, upto |-> upto,
                   sum |-> sum, sample |-> sample, members |-> members]
<1> HIDE DEF end, upto, sum, sample, members, start, a, c
<1>9. Joined(g, a, c) = all
  BY <1>6 DEF Group
<1>10. all \in Group
  BY <1>2, <1>3, <1>4, <1>5, <1>7, <1>8 DEF Group
<1> QED
  BY <1>9, <1>10 DEF a, c

LEMMA GroupedIs ==
  ASSUME SamplesInv, NEW gs \in Seq(Group), NEW x \in Item
  PROVE  Grouped(gs, x) \in Seq(Group)
<1>1. CASE gs = <<>>
  <2>1. Grouped(gs, x) = Append(gs, NewGroup(x.account, x.cycle))
    BY <1>1 DEF Grouped
  <2> QED
    BY <2>1, NewGroupIs, AppendProperties
<1>2. CASE gs # <<>>
  <2>1. Len(gs) \in 1..Len(gs) /\ gs[Len(gs)] \in Group
    BY <1>2, EmptySeq, ElementOfSeq
  <2> DEFINE g == Joined(gs[Len(gs)], x.account, x.cycle)
             h == NewGroup(x.account, x.cycle)
  <2>2. g \in Group /\ h \in Group
    BY <2>1, JoinedIs, NewGroupIs
  <2>3. Grouped(gs, x) = [gs EXCEPT ![Len(gs)] = g] \/ Grouped(gs, x) = Append(gs, h)
    BY DEF Grouped
  <2> HIDE DEF g, h
  <2>4. [gs EXCEPT ![Len(gs)] = g] \in Seq(Group)
    BY <2>1, <2>2, ExceptSeq
  <2>5. Append(gs, h) \in Seq(Group)
    BY <2>2, AppendProperties
  <2> QED
    BY <2>3, <2>4, <2>5
<1> QED
  BY <1>1, <1>2

(* group_cycles goes through the cycles in order.                          *)
LEMMA GroupsRun ==
  ASSUME SamplesInv, NEW n \in Nat, NEW q \in [1..n -> Item]
  PROVE  \E f \in [0..n -> Seq(Group)] :
           /\ f[0] = <<>> /\ Groups(q) = f[n]
           /\ \A i \in 1..n : f[i] = Grouped(f[i - 1], q[i])
<1> DEFINE S == Seq(Group)
           step == [x \in S \X (1..n) |-> Grouped(x[1], q[x[2]])]
<1>1. \A gs \in S, i \in 1..n : Grouped(gs, q[i]) \in S
  BY GroupedIs
<1>2. <<>> \in S
  OBVIOUS
<1> HIDE DEF S
<1>3. step \in [S \X (1..n) -> S]
  BY <1>1
<1>4. HasRun(S, <<>>, n, step)
  <2> HIDE DEF step
  <2> QED
    BY <1>2, <1>3, RunExists
<1>5. PICK f \in [0..n -> S] : f[0] = <<>> /\ \A i \in 1..n : f[i] = step[<<f[i - 1], i>>]
  BY <1>4 DEF HasRun
<1>6. \A i \in 1..n : f[i - 1] \in S /\ f[i] = Grouped(f[i - 1], q[i])
  <2> SUFFICES ASSUME NEW i \in 1..n
               PROVE  f[i - 1] \in S /\ f[i] = Grouped(f[i - 1], q[i])
    OBVIOUS
  <2>1. i - 1 \in 0..n
    OBVIOUS
  <2> QED
    BY <2>1, <1>5
<1> DEFINE Step(g, i) == IF i = 0 THEN <<>> ELSE Grouped(g[i - 1], q[i])
<1>7. \E g : g = [i \in 0..n |-> Step(g, i)]
  <2>1. f = [i \in 0..n |-> Step(f, i)]
    <3>1. \A i \in 0..n : f[i] = Step(f, i)
      BY <1>5, <1>6
    <3> HIDE DEF Step
    <3> QED
      BY <3>1, <1>5
  <2> QED
    BY <2>1
<1> DEFINE g == CHOOSE g : g = [i \in 0..n |-> Step(g, i)]
<1>8. Len(q) = n
  OBVIOUS
<1>9. Groups(q) = g[n]
  BY <1>8 DEF Groups
<1>10. g = [i \in 0..n |-> Step(g, i)]
  <2> HIDE DEF Step
  <2> QED
    BY <1>7
<1> HIDE DEF g
<1> DEFINE Bad == {i \in 0..n : g[i] # f[i]}
<1>11. ASSUME NEW i \in Bad PROVE \E k \in Bad : k < i
  <2>1. i \in 0..n /\ g[i] = Step(g, i)
    <3> HIDE DEF Step
    <3> QED
      BY <1>10
  <2>2. i # 0
    BY <2>1, <1>5
  <2>3. i \in 1..n /\ i - 1 \in 0..n /\ i - 1 < i
    BY <2>1, <2>2
  <2>4. g[i] = Grouped(g[i - 1], q[i]) /\ f[i] = Grouped(f[i - 1], q[i])
    BY <2>1, <2>2, <2>3, <1>6
  <2>5. g[i - 1] # f[i - 1]
    BY <2>4
  <2> QED
    BY <2>3, <2>5
<1>12. Bad \in SUBSET Nat
  OBVIOUS
<1>13. Bad = {}
  <2> HIDE DEF Bad
  <2> QED
    BY <1>11, <1>12, NoDescent
<1>14. Groups(q) = f[n]
  BY <1>9, <1>13
<1> QED
  BY <1>5, <1>6, <1>14 DEF S

(* The bounds of every group are in order.                                 *)
LEMMA GroupCyclesIs ==
  ASSUME SamplesInv
  PROVE  GroupCycles \in Seq(Group)
<1> DEFINE n == Cardinality(Item)
           q == Sorted(Item, EndOrder(Item))
<1>1. n \in Nat /\ q \in [1..n -> Item]
  BY ItemsInOrder
<1> HIDE DEF n, q
<1>2. Groups(q) \in Seq(Group)
  <2>1. PICK f \in [0..n -> Seq(Group)] : Groups(q) = f[n]
    BY <1>1, GroupsRun
  <2> QED
    BY <1>1, <2>1
<1> QED
  BY <1>2 DEF GroupCycles, q

(* With one account every cycle is a group of its own.                     *)
OneAccount == \A a, b \in Account : a = b

LEMMA GroupOfEachCycle ==
  ASSUME SamplesInv, OneAccount
  PROVE  LET n == Cardinality(Item)
             q == Sorted(Item, EndOrder(Item))
         IN  /\ Len(GroupCycles) = n
             /\ \A i \in 1..n : GroupCycles[i] = NewGroup(q[i].account, q[i].cycle)
<1> DEFINE n == Cardinality(Item)
           q == Sorted(Item, EndOrder(Item))
<1>1. n \in Nat /\ q \in [1..n -> Item]
  BY ItemsInOrder
<1>2. GroupCycles = Groups(q)
  BY DEF GroupCycles
<1> HIDE DEF n, q
<1>3. PICK f \in [0..n -> Seq(Group)] :
        /\ f[0] = <<>> /\ Groups(q) = f[n]
        /\ \A i \in 1..n : f[i] = Grouped(f[i - 1], q[i])
  BY <1>1, GroupsRun
<1> DEFINE Own(i) == NewGroup(q[i].account, q[i].cycle)
           Each(k) == Len(f[k]) = k /\ \A i \in 1..k : f[k][i] = Own(i)
           Bad == {k \in 0..n : ~Each(k)}
<1>4. ASSUME NEW k \in 1..n, Each(k - 1) PROVE Each(k)
  <2> DEFINE gs == f[k - 1]
             x == q[k]
  <2>1. k - 1 \in 0..n /\ k \in 0..n /\ k \in Nat
    BY <1>1
  <2>2. gs \in Seq(Group) /\ x \in Item
    BY <1>1, <1>3, <2>1
  <2>3. Len(gs) = k - 1 /\ \A i \in 1..(k - 1) : gs[i] = Own(i)
    BY <1>4
  <2>4. gs # <<>> => x.account \in gs[Len(gs)].members
    <3> SUFFICES ASSUME gs # <<>> PROVE x.account \in gs[Len(gs)].members
      OBVIOUS
    <3>1. Len(gs) \in 1..(k - 1) /\ Len(gs) \in 1..n
      BY <1>1, <2>1, <2>2, <2>3, EmptySeq
    <3>2. gs[Len(gs)] = Own(Len(gs)) /\ q[Len(gs)] \in Item
      BY <1>1, <2>3, <3>1
    <3>3. gs[Len(gs)].members = {q[Len(gs)].account}
      BY <3>2 DEF NewGroup
    <3>4. q[Len(gs)].account \in Account /\ x.account \in Account
      BY <2>2, <3>2, ItemIs
    <3> QED
      BY <3>3, <3>4 DEF OneAccount
  <2>5. f[k] = Grouped(gs, x)
    BY <1>3
  <2> HIDE DEF gs
  <2>6. f[k] = Append(gs, Own(k))
    BY <2>4, <2>5 DEF Grouped
  <2>7. Own(k) \in Group
    BY <2>2, NewGroupIs
  <2> HIDE DEF Own, x
  <2>8. /\ Len(f[k]) = k
        /\ \A i \in 1..(k - 1) : f[k][i] = gs[i]
        /\ f[k][k] = Own(k)
    <3>1. /\ Len(Append(gs, Own(k))) = Len(gs) + 1
          /\ \A i \in 1..Len(gs) : Append(gs, Own(k))[i] = gs[i]
          /\ Append(gs, Own(k))[Len(gs) + 1] = Own(k)
      BY <2>2, <2>7, AppendProperties
    <3> QED
      BY <2>1, <2>3, <2>6, <3>1
  <2>9. ASSUME NEW i \in 1..k PROVE f[k][i] = Own(i)
    <3>1. CASE i = k
      BY <2>8, <3>1
    <3>2. CASE i # k
      <4>1. i \in 1..(k - 1)
        BY <2>1, <3>2
      <4> QED
        BY <2>3, <2>8, <4>1
    <3> QED
      BY <3>1, <3>2
  <2> QED
    BY <2>8, <2>9
<1>5. Each(0)
  BY <1>3
<1>6. ASSUME NEW k \in Bad PROVE \E m \in Bad : m < k
  <2> HIDE DEF Each
  <2>1. k \in 1..n /\ k - 1 \in 0..n /\ k - 1 < k
    BY <1>1, <1>5
  <2>2. ~Each(k - 1)
    BY <1>4, <2>1
  <2> QED
    BY <2>1, <2>2
<1>7. Bad = {}
  <2>1. Bad \in SUBSET Nat
    BY <1>1
  <2> HIDE DEF Bad
  <2> QED
    BY <1>6, <2>1, NoDescent
<1>8. Each(n)
  <2> HIDE DEF Each
  <2>1. n \in 0..n
    BY <1>1
  <2> QED
    BY <1>7, <2>1, Zenon
<1> QED
  BY <1>2, <1>3, <1>8 DEF n, q

(* What a new group counts is before the end of its cycle.                 *)
LEMMA MeasuredWithin ==
  ASSUME SamplesInv, NEW x \in Item
  PROVE  LET g == NewGroup(x.account, x.cycle)
         IN  \A t \in Measured(g) : t \in Int /\ x.cycle.start <= t /\ t < x.cycle.upto
<1> DEFINE g == NewGroup(x.account, x.cycle)
           start == x.cycle.start
           upto == x.cycle.upto
<1>1. start \in Int /\ upto \in Int
  <2>1. x.cycle \in Cycle
    BY ItemIs DEF CycleInv
  <2> QED
    BY <2>1 DEF Cycle
<1>2. g.start = start /\ g.upto = upto
  BY DEF NewGroup
<1> HIDE DEF g, start, upto
<1>3. Measured(g) = start .. Max({start, Min({upto, instant})}) - 1
  BY <1>2 DEF Measured, MeasuredEnd
<1>4. Min({upto, instant}) \in Int /\ Min({upto, instant}) <= upto
  <2>1. \A i \in Int, j \in Int : Min({i, j}) \in Int /\ Min({i, j}) <= i
    BY MinMaxOfTwo
  <2> QED
    BY <1>1, <2>1 DEF SamplesInv
<1> DEFINE low == Min({upto, instant})
<1> HIDE DEF low
<1>5. Max({start, low}) = IF start >= low THEN start ELSE low
  BY <1>1, <1>4, MinMaxOfTwo DEF low
<1>6. \A t \in start .. Max({start, low}) - 1 : t \in Int /\ start <= t /\ t < upto
  <2>1. low \in Int /\ low <= upto
    BY <1>4 DEF low
  <2> DEFINE high == Max({start, low})
  <2>2. high = IF start >= low THEN start ELSE low
    BY <1>5
  <2> HIDE DEF high
  <2>3. \A t \in start .. high - 1 : t \in Int /\ start <= t /\ t < upto
    BY <1>1, <2>1, <2>2
  <2> QED
    BY <2>3 DEF high
<1> QED
  BY <1>3, <1>6 DEF g, start, upto, low

(* The usage of an instant is counted in one cycle.                        *)
LEMMA OneCycle ==
  ASSUME SamplesInv, OneAccount
  PROVE  OneCyclePerInstant(GroupCycles)
<1> DEFINE n == Cardinality(Item)
           q == Sorted(Item, EndOrder(Item))
           gs == GroupCycles
<1>1. /\ n \in Nat /\ q \in [1..n -> Item]
      /\ \A i, j \in 1..n : i < j => q[i] # q[j]
  BY ItemsInOrder
<1>2. Len(gs) = n /\ \A i \in 1..n : gs[i] = NewGroup(q[i].account, q[i].cycle)
  BY GroupOfEachCycle
<1>3. DOMAIN gs = 1..n
  BY <1>2, GroupCyclesIs, LenProperties
<1> HIDE DEF n, q, gs
<1>4. ASSUME NEW i \in 1..n, NEW j \in 1..n, i < j
      PROVE  Measured(gs[i]) \cap Measured(gs[j]) = {}
  <2> DEFINE x == q[i]
             y == q[j]
             a == x.account
  <2>1. x \in Item /\ y \in Item /\ x # y
    BY <1>1, <1>4
  <2>2. /\ gs[i] = NewGroup(x.account, x.cycle)
        /\ gs[j] = NewGroup(y.account, y.cycle)
    BY <1>2
  <2> HIDE DEF x, y
  <2>3. y.account = a /\ a \in Account
    BY <2>1, ItemIs DEF OneAccount
  <2>4. /\ x.place \in 1..Cardinality(Canonical(a)) /\ x.place \in Nat
        /\ y.place \in 1..Cardinality(Canonical(a)) /\ y.place \in Nat
        /\ x.cycle = AccountCycles(a)[x.place] /\ y.cycle = AccountCycles(a)[y.place]
    BY <2>1, <2>3, ItemIs
  <2>5. x.place # y.place
    BY <2>1, <2>3, <2>4, ItemIs
  <2>6. x.cycle.upto <= y.cycle.start \/ y.cycle.upto <= x.cycle.start
    <3>1. \A k, l \in 1..Cardinality(Canonical(a)) :
            k < l => AccountCycles(a)[k].upto <= AccountCycles(a)[l].start
      BY <2>3, CyclesOfAccount
    <3>2. x.place < y.place \/ y.place < x.place
      BY <2>4, <2>5
    <3> QED
      BY <2>4, <3>1, <3>2
  <2>7. /\ x.cycle.upto \in Int /\ x.cycle.start \in Int
        /\ y.cycle.upto \in Int /\ y.cycle.start \in Int
    <3>1. x.cycle \in Cycle /\ y.cycle \in Cycle
      BY <2>1, ItemIs DEF CycleInv
    <3> QED
      BY <3>1 DEF Cycle
  <2>8. /\ \A t \in Measured(gs[i]) : t \in Int /\ x.cycle.start <= t /\ t < x.cycle.upto
        /\ \A t \in Measured(gs[j]) : t \in Int /\ y.cycle.start <= t /\ t < y.cycle.upto
    BY <2>1, <2>2, MeasuredWithin
  <2> QED
    BY <2>6, <2>7, <2>8
<1> QED
  BY <1>3, <1>4 DEF OneCyclePerInstant, gs

(* A sample is recorded in its window, and time only moves on.             *)
LEMMA SamplesInvariant == CyclesSpec => []SamplesInv
<1>1. CyclesInit => SamplesInv
  <2> SUFFICES ASSUME CyclesInit PROVE SamplesInv
    OBVIOUS
  <2>1. instant = 0 /\ samples = <<>> /\ Len(samples) = 0
    BY DEF CyclesInit
  <2>2. 1..Len(samples) = {}
    BY <2>1
  <2>3. samples \in Seq(Sample)
    BY <2>1
  <2> QED
    BY <2>1, <2>2, <2>3 DEF SamplesInv
<1>2. SamplesInv /\ [CyclesNext]_cycleVars => SamplesInv'
  <2> SUFFICES ASSUME SamplesInv, [CyclesNext]_cycleVars PROVE SamplesInv'
    OBVIOUS
  <2>0. \A m \in 1..Len(samples) : StartOf(m) \in Int /\ StartOf(m) <= instant
    BY SamplesTyped DEF SamplesInv, StartOf
  <2>1. CASE Elapse
    <3>1. samples' = samples /\ instant' = instant + 1 /\ instant \in Nat
      BY <2>1 DEF Elapse, SamplesInv
    <3>2. \A m \in 1..Len(samples) : StartOf(m) <= instant + 1
      BY <2>0, <3>1
    <3>3. \A m \in 1..Len(samples) : StartOf(m)' = StartOf(m)
      BY <3>1 DEF StartOf
    <3> QED
      BY <3>1, <3>2, <3>3 DEF SamplesInv
  <2>2. ASSUME NEW a \in Account, NEW p \in Percent, NEW w \in Window, NEW d \in Nat,
               Record(a, p, w, instant + d)
        PROVE  SamplesInv'
    <3> DEFINE s == [account |-> a, at |-> instant, window |-> w, percent |-> p,
                     resets |-> instant + d]
    <3>1. w \in Nat /\ p \in Nat /\ instant \in Nat /\ instant + d \in Nat
      BY CyclesAssumption DEF SamplesInv
    <3>2. s \in Sample
      BY <3>1 DEF Sample
    <3>3. instant' = instant /\ samples' = Append(samples, s)
      BY <2>2 DEF Record
    <3>4. s.resets - s.window <= instant
      <4>1. instant + d <= instant + w
        BY <2>2, <3>1 DEF Record
      <4> QED
        BY <3>1, <4>1
    <3> HIDE DEF s
    <3>5. /\ samples' \in Seq(Sample) /\ Len(samples') = Len(samples) + 1
          /\ \A m \in 1..Len(samples) : samples'[m] = samples[m]
          /\ samples'[Len(samples) + 1] = s
      BY <3>2, <3>3, AppendProperties DEF SamplesInv
    <3>6. Len(samples) \in Nat
      BY SamplesTyped
    <3>7. ASSUME NEW m \in 1..Len(samples')
          PROVE  samples'[m].resets - samples'[m].window <= instant
      <4>1. CASE m = Len(samples) + 1
        BY <3>4, <3>5, <4>1
      <4>2. CASE m # Len(samples) + 1
        <5>1. m \in 1..Len(samples)
          BY <3>5, <3>6, <4>2
        <5> QED
          BY <3>5, <5>1 DEF SamplesInv, StartOf
      <4> QED
        BY <4>1, <4>2
    <3> QED
      BY <3>1, <3>3, <3>5, <3>7 DEF SamplesInv, StartOf
  <2>3. CASE UNCHANGED cycleVars
    <3>1. instant' = instant /\ samples' = samples
      BY <2>3 DEF cycleVars
    <3> QED
      BY <3>1 DEF SamplesInv, StartOf
  <2>4. CASE \E a \in Account, p \in Percent, w \in Window, d \in 1..Max(Window) :
               Record(a, p, w, instant + d)
    <3>1. PICK a \in Account, p \in Percent, w \in Window, d \in 1..Max(Window) :
            Record(a, p, w, instant + d)
      BY <2>4
    <3>2. d \in Nat
      OBVIOUS
    <3> QED
      BY <3>1, <3>2, <2>2
  <2> QED
    BY <2>1, <2>3, <2>4 DEF CyclesNext
<1> QED
  BY <1>1, <1>2, PTL DEF CyclesSpec

(* What measure is given is in order, and the shares of a cycle cover its  *)
(* last sample, whatever the samples and however many accounts.            *)
CycleBounds == ClampInOrder(GroupCycles) /\ SharesCovered

LEMMA CycleBoundsStep == SamplesInv => CycleBounds
<1> SUFFICES ASSUME SamplesInv PROVE CycleBounds
  OBVIOUS
<1>1. ClampInOrder(GroupCycles)
  <2>1. \A i \in DOMAIN GroupCycles : GroupCycles[i] \in Group
    BY GroupCyclesIs, ElementOfSeq, LenProperties
  <2> QED
    BY <2>1 DEF ClampInOrder, Group
<1>2. SharesCovered
  <2> SUFFICES ASSUME NEW a \in Account, NEW i \in DOMAIN AccountCycles(a)
               PROVE  AccountCycles(a)[i].sum >= AccountCycles(a)[i].last
    BY DEF SharesCovered
  <2>1. CycleInv(AccountCycles(a)[i])
    BY CyclesOfAccount
  <2> DEFINE c == AccountCycles(a)[i]
  <2> HIDE DEF c
  <2>2. c.last <= c.sum /\ c.last \in Nat /\ c.sum \in Nat
    BY <2>1 DEF c, CycleInv, Cycle
  <2>3. c.sum >= c.last
    BY <2>2
  <2> QED
    BY <2>3 DEF c
<1> QED
  BY <1>1, <1>2 DEF CycleBounds

THEOREM CycleBoundsHold == CyclesSpec => []CycleBounds
BY SamplesInvariant, CycleBoundsStep, PTL

(* With one account to a provider no instant's usage is set against two    *)
(* cycles (plans.rs, account_cycles and measure).                          *)
THEOREM UsageInOneCycleHolds ==
  ASSUME OneAccount
  PROVE  CyclesSpec => []UsageInOneCycle
<1>1. SamplesInv => UsageInOneCycle
  <2> SUFFICES ASSUME SamplesInv PROVE UsageInOneCycle
    OBVIOUS
  <2>1. ClampInOrder(GroupCycles) /\ SharesCovered
    BY CycleBoundsStep DEF CycleBounds
  <2>2. OneCyclePerInstant(GroupCycles)
    BY OneCycle
  <2> QED
    BY <2>1, <2>2 DEF UsageInOneCycle
<1> QED
  BY <1>1, SamplesInvariant, PTL
=============================================================================
