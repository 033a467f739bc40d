------------------------------ MODULE ReportCache ------------------------------
(***************************************************************************)
(* The totals behind /api/usage (web/mod.rs): computing them scans all of  *)
(* usage_event, so they are kept in one cache entry per database, with the *)
(* connection they were read through, its PRAGMA data_version and the day. *)
(* The four workers share the entry under a mutex.  The database is the    *)
(* number of commits so far; an answer is known by the commit and the day  *)
(* it is computed from.                                                    *)
(***************************************************************************)
EXTENDS Integers

CONSTANTS
  Worker,       \* the web server's workers
  LastCommit,   \* bound: commits of the collector and of price imports
  LastDay       \* bound: midnights

ASSUME CacheAssumption == LastCommit \in Nat /\ LastDay \in Nat

VARIABLES
  commits,      \* what is in the database
  today,        \* the local date
  entry,        \* GLOBAL_CACHE for the path: {} or one entry
  holder,       \* who holds the mutex: {} or one worker
  request       \* the request each worker serves

cacheVars == <<commits, today, entry, holder, request>>

NoStats == [commit |-> 0, day |-> 0]
NoRequest == [at |-> "none", day |-> 0, since |-> 0, version |-> 0,
              stats |-> NoStats, details |-> 0]
Failed == [NoRequest EXCEPT !.at = "failed"]

CacheInit ==
  /\ commits = 0
  /\ today = 0
  /\ entry = {}
  /\ holder = {}
  /\ request = [w \in Worker |-> NoRequest]

-----------------------------------------------------------------------------
Commit ==
  /\ commits < LastCommit
  /\ commits' = commits + 1
  /\ UNCHANGED <<today, entry, holder, request>>

Midnight ==
  /\ today < LastDay
  /\ today' = today + 1
  /\ UNCHANGED <<commits, entry, holder, request>>

(* load: the date is taken once, before the lock.                          *)
Ask(w) ==
  /\ request[w].at \in {"none", "answered", "failed"}
  /\ request' = [request EXCEPT ![w] =
                   [NoRequest EXCEPT !.at = "asked", !.day = today, !.since = commits]]
  /\ UNCHANGED <<commits, today, entry, holder>>

(* cached_global: the mutex (a poisoned one is entered all the same), and  *)
(* data_version on the entry's connection or on a new one.                 *)
ReadVersion(w) ==
  /\ request[w].at = "asked"
  /\ holder = {}
  /\ holder' = {w}
  /\ request' = [request EXCEPT ![w] = [@ EXCEPT !.at = "version", !.version = commits]]
  /\ UNCHANGED <<commits, today, entry>>

Current(w) ==
  \E c \in entry : c.version = request[w].version /\ c.day = request[w].day

(* The entry is as old as the database and of this day: it is cloned.      *)
Hit(w) ==
  /\ request[w].at = "version"
  /\ Current(w)
  /\ \E c \in entry :
       request' = [request EXCEPT ![w] = [@ EXCEPT !.at = "global", !.stats = c.stats]]
  /\ holder' = {}
  /\ UNCHANGED <<commits, today, entry>>

(* global_stats reads a snapshot of its own, some commits later perhaps.   *)
Compute(w) ==
  /\ request[w].at = "version"
  /\ ~Current(w)
  /\ request' = [request EXCEPT ![w] =
       [@ EXCEPT !.at = "computed", !.stats = [commit |-> commits, day |-> request[w].day]]]
  /\ UNCHANGED <<commits, today, entry, holder>>

(* Mutant: the entry is stored under the version at the end.               *)
KeepUnderLatest(w) ==
  /\ request[w].at = "computed"
  /\ entry' = {[version |-> commits, day |-> request[w].day,
                stats |-> request[w].stats]}
  /\ holder' = {}
  /\ request' = [request EXCEPT ![w] = [@ EXCEPT !.at = "global"]]
  /\ UNCHANGED <<commits, today>>

(* The entry gets the totals, the version read before them, and the day.   *)
Keep(w) ==
  /\ request[w].at = "computed"
  /\ entry' = {[version |-> request[w].version, day |-> request[w].day,
                stats |-> request[w].stats]}
  /\ holder' = {}
  /\ request' = [request EXCEPT ![w] = [@ EXCEPT !.at = "global"]]
  /\ UNCHANGED <<commits, today>>

(* The PRAGMA or the scan fails, or panics: the entry stays as it was.     *)
CacheFails(w) ==
  /\ request[w].at = "version"
  /\ holder' = {}
  /\ request' = [request EXCEPT ![w] = Failed]
  /\ UNCHANGED <<commits, today, entry>>

(* report_with_global: the days asked for, by a query of its own; or the   *)
(* bounds or the query are refused.                                        *)
Report(w) ==
  /\ request[w].at = "global"
  /\ \/ request' = [request EXCEPT ![w] =
          [@ EXCEPT !.at = "answered", !.details = commits]]
     \/ request' = [request EXCEPT ![w] = Failed]
  /\ UNCHANGED <<commits, today, entry, holder>>

CacheNext ==
  \/ Commit \/ Midnight
  \/ \E w \in Worker : Ask(w) \/ ReadVersion(w) \/ Hit(w) \/ Compute(w)
                         \/ Keep(w) \/ CacheFails(w) \/ Report(w)

CacheSpec == CacheInit /\ [][CacheNext]_cacheVars

-----------------------------------------------------------------------------
(* A cached answer is as good as a computed one: its totals hold all that  *)
(* was committed when the request arrived, belong to the day it arrived,   *)
(* and hold nothing its own list of days could miss -- with other workers  *)
(* filling the entry, commits during the scan, failed scans and midnight.  *)
CacheFresh ==
  \A w \in Worker : request[w].at = "answered" =>
    /\ request[w].stats.commit \in request[w].since..request[w].details
    /\ request[w].stats.day = request[w].day
=============================================================================
