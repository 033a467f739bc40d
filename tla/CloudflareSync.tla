---------------------------- MODULE CloudflareSync ----------------------------
(***************************************************************************)
(* The Cloudflare page (cloudflare.rs, report): a request is answered from *)
(* cf_sync_state when that is younger than the time to live, and otherwise *)
(* asks Cloudflare, in a dozen calls of up to 20 s each.  The workers of   *)
(* the server do so without a lock.  The numbers are known by the time     *)
(* they were read at.  The unit of time is a day, and a date is a pair of  *)
(* a month and a day of it.                                                *)
(***************************************************************************)
EXTENDS Integers, Sequences

CONSTANTS
  Client,       \* the web server's workers
  Ttl,          \* CACHE_TTL_MS
  MonthStart,   \* the calendar: the first day of each month, and the end of the last
  Subscription, \* the periods the account's subscription has
  BillingDay,   \* billing_day of the configuration, 0 for none
  LastTime      \* bound: time stops there

Month == 1..(Len(MonthStart) - 1)
Date == Month \X (1..31)
Period == [start : Date, end : Date]

InMonth(t, m) == MonthStart[m] <= t /\ t < MonthStart[m + 1]

(* Time starts in the second month and ends before the last.               *)
FirstTime == MonthStart[2]

ASSUME SyncAssumption ==
  /\ Ttl \in Nat \ {0}
  /\ Subscription \subseteq Period
  /\ BillingDay \in 0..31
  /\ LastTime \in Nat

ASSUME CalendarAssumption ==
  /\ MonthStart \in Seq(Nat) /\ 2 \in Month /\ FirstTime <= LastTime
  /\ \A m \in Month : MonthStart[m] < MonthStart[m + 1]
  /\ \A t \in FirstTime..LastTime :
       /\ \E m \in Month : InMonth(t, m)
       /\ \A m \in Month : InMonth(t, m) => m # 1 /\ m + 1 \in Month

VARIABLES
  time,         \* Utc::now()
  kept,         \* the account's row of cf_sync_state: {} or one
  daily,        \* cf_daily_usage: the days with a row read when they were over
  call          \* the request each worker serves

syncVars == <<time, kept, daily, call>>

DayOf(date) == MonthStart[date[1]] + date[2] - 1
DaysOf(period) == DayOf(period.start)..(DayOf(period.end) - 1)
OnCalendar(date) == date[2] <= MonthStart[date[1] + 1] - MonthStart[date[1]]
MonthAt(t) == CHOOSE m \in Month : InMonth(t, m)

NoPeriod == [start |-> <<1, 1>>, end |-> <<1, 1>>]
NoCall == [at |-> "none", began |-> 0, stale |-> FALSE, cached |-> FALSE,
           period |-> NoPeriod, read |-> 0]

SyncInit ==
  /\ time = FirstTime
  /\ kept = {}
  /\ daily = {}
  /\ call = [c \in Client |-> NoCall]

-----------------------------------------------------------------------------
(* calculate_billing_period_with_day: the dates are put together without a *)
(* look at the length of the months.                                       *)
ConfiguredPeriod(t) ==
  LET m == MonthAt(t)
      n == IF t - MonthStart[m] + 1 >= BillingDay THEN m ELSE m - 1
  IN  [start |-> <<n, BillingDay>>, end |-> <<n + 1, BillingDay>>]

(* fallback_billing_period: the calendar month.                            *)
CalendarPeriod(t) == [start |-> <<MonthAt(t), 1>>, end |-> <<MonthAt(t) + 1, 1>>]

(* fetch_billing_period: the subscription's own period if Cloudflare tells *)
(* it, which is one around the present; else the configured day; else the  *)
(* calendar month.                                                         *)
BillingPeriods(t) ==
  {p \in Subscription :
     OnCalendar(p.start) /\ OnCalendar(p.end) /\ t \in DaysOf(p)}
  \cup {IF BillingDay = 0 THEN CalendarPeriod(t) ELSE ConfiguredPeriod(t)}

Young(row, t) == t - row.at < Ttl

(* A report is shown: numbers read at a time for a period.                 *)
Answer(began, shown) ==
  [NoCall EXCEPT !.at = "answered", !.began = began,
                 !.read = shown.read, !.period = shown.period]

Pass ==
  /\ time < LastTime
  /\ time' = time + 1
  /\ UNCHANGED <<kept, daily, call>>

(* The row is read once, when the request arrives.  Without `refresh' a    *)
(* young row is the answer.                                                *)
AskCloudflare(c, force) ==
  /\ call[c].at \in {"none", "answered", "error"}
  /\ \/ \E row \in kept :
          /\ ~force /\ Young(row, time)
          /\ call' = [call EXCEPT ![c] = Answer(time, row.shown)]
     \/ /\ force \/ \A row \in kept : ~Young(row, time)
        /\ call' = [call EXCEPT ![c] =
             [NoCall EXCEPT !.at = "asked", !.began = time, !.cached = (kept # {})]]
  /\ UNCHANGED <<time, kept, daily>>

(* No account or token, or the database does not open.                     *)
AskFails(c) ==
  /\ call[c].at \in {"none", "answered", "error"}
  /\ call' = [call EXCEPT ![c] = [NoCall EXCEPT !.at = "error"]]
  /\ UNCHANGED <<time, kept, daily>>

(* The billing period.  The counts and sizes of fetch_storage_details, each*)
(* left 0 when its call fails, belong to this step too.                    *)
FetchPeriod(c) ==
  /\ call[c].at = "asked"
  /\ \E p \in BillingPeriods(time) :
       call' = [call EXCEPT ![c] = [@ EXCEPT !.at = "period", !.period = p]]
  /\ UNCHANGED <<time, kept, daily>>

(* The answer of query_analytics is summed up by service and day; of the   *)
(* sums only the time they were read at is told apart.                     *)
Counted(c) == [call[c] EXCEPT !.at = "queried", !.read = time]

(* query_analytics answers; Cloudflare knows no dates off the calendar.    *)
(* Persisting the days is best effort: a day still running gets what is    *)
(* known of it, and an older sync may overwrite a newer one.               *)
QueryOk(c) ==
  LET p == call[c].period IN
  /\ call[c].at = "period"
  /\ OnCalendar(p.start) /\ OnCalendar(p.end)
  /\ call' = [call EXCEPT ![c] = Counted(c)]
  /\ UNCHANGED <<time, kept, daily>>

Persist(c) ==
  LET p == call[c].period IN
  /\ call[c].at = "queried"
  /\ call' = [call EXCEPT ![c] = [@ EXCEPT !.at = "persisted"]]
  /\ \/ daily' = (daily \ (DaysOf(p) \cap {call[c].read})) \cup
                   {d \in DaysOf(p) : FirstTime <= d /\ d < call[c].read}
     \/ UNCHANGED daily
  /\ UNCHANGED <<time, kept>>

Shown(c) == [read |-> call[c].read, period |-> call[c].period]

(* Mutant: the row is dated when it is written.                            *)
StoreAsOfNow(c) ==
  /\ call[c].at = "persisted"
  /\ kept' = {[at |-> time, shown |-> Shown(c)]}
  /\ call' = [call EXCEPT ![c] = Answer(@.began, Shown(c))]
  /\ UNCHANGED <<time, daily>>

(* After the history, the trend and the log events (best effort) the row   *)
(* is replaced, dated by the start of the request; or that fails silently. *)
Store(c) ==
  /\ call[c].at = "persisted"
  /\ kept' \in {kept, {[at |-> call[c].began, shown |-> Shown(c)]}}
  /\ call' = [call EXCEPT ![c] = Answer(@.began, Shown(c))]
  /\ UNCHANGED <<time, daily>>

(* The query fails: what was kept when the request arrived (not modelled), *)
(* marked stale, or else the error.                                        *)
QueryFails(c) ==
  /\ call[c].at = "period"
  /\ call' = [call EXCEPT ![c] =
       IF call[c].cached THEN [NoCall EXCEPT !.at = "answered", !.stale = TRUE]
       ELSE [NoCall EXCEPT !.at = "error"]]
  /\ UNCHANGED <<time, kept, daily>>

SyncNext ==
  \/ Pass
  \/ \E c \in Client : \/ \E force \in BOOLEAN : AskCloudflare(c, force)
                       \/ AskFails(c) \/ FetchPeriod(c) \/ QueryOk(c)
                       \/ Persist(c) \/ Store(c) \/ QueryFails(c)

SyncSpec == SyncInit /\ [][SyncNext]_syncVars

-----------------------------------------------------------------------------
(* An answer not marked stale holds numbers read less than the time to     *)
(* live before its request arrived, however long that sync took and which  *)
(* worker stored it last, and read for the billing cycle of a day between  *)
(* then and the reading.                                                   *)
FreshAnswers ==
  \A c \in Client : call[c].at = "answered" /\ ~call[c].stale =>
    /\ call[c].read > call[c].began - Ttl
    /\ (call[c].began - Ttl + 1 .. call[c].read) \cap DaysOf(call[c].period) # {}
=============================================================================
