------------------------------ MODULE MCReports ------------------------------
(* What the web server and the price importer do beside the archive.  The  *)
(* parts share no state beyond it, and `part' says which of them runs.     *)
EXTENDS HourlyReport, ReportCache, ServerPool, CloudflareSync, PlanCycles,
        PriceTable, TLC

CONSTANTS e1, e2, e3, ab, cb, ad, b

VARIABLE part

(* An event of the first hour and one of the second.                       *)
MCEvent == {e1, e2}
MCHourOf == (e1 :> 0) @@ (e2 :> 1)
MCBill == {e1, e2, e3}

(* Months of 3, 2, 3 and 3 days; cycles begin on the second.               *)
MCMonthStart == <<0, 3, 5, 8, 11>>

MCSubscription == {[start |-> <<n, 1>>, end |-> <<n + 1, 1>>] : n \in {2, 3}}

(* The first recorded usage.                                               *)
MCFirstEvent == -1

(* Two vendors' prices for one bare name, and one for another; the bills   *)
(* name the first price, its bare name, and a name with an alias.          *)
MCBareOf == (ab :> b) @@ (cb :> b) @@ (ad :> ad) @@ (b :> b)
MCModelOf == (e1 :> ab) @@ (e2 :> b) @@ (e3 :> ad)
MCAliasOf == (ab :> NoAlias) @@ (b :> NoAlias) @@ (ad :> cb)

allVars == <<part, hourlyVars, cacheVars, poolVars, syncVars, cycleVars, priceVars>>
Parts == {"hourly", "cache", "pool", "sync", "cycles", "prices"}

MCInit ==
  /\ part \in Parts
  /\ ReportInit /\ CacheInit /\ PoolInit /\ SyncInit /\ CyclesInit /\ PricesInit

MCNext ==
  \/ /\ part = "hourly" /\ ReportNext
     /\ UNCHANGED <<part, cacheVars, poolVars, syncVars, cycleVars, priceVars>>
  \/ /\ part = "cache" /\ CacheNext
     /\ UNCHANGED <<part, hourlyVars, poolVars, syncVars, cycleVars, priceVars>>
  \/ /\ part = "pool" /\ PoolNext
     /\ UNCHANGED <<part, hourlyVars, cacheVars, syncVars, cycleVars, priceVars>>
  \/ /\ part = "sync" /\ SyncNext
     /\ UNCHANGED <<part, hourlyVars, cacheVars, poolVars, cycleVars, priceVars>>
  \/ /\ part = "cycles" /\ CyclesNext
     /\ UNCHANGED <<part, hourlyVars, cacheVars, poolVars, syncVars, priceVars>>
  \/ /\ part = "prices" /\ PricesNext
     /\ UNCHANGED <<part, hourlyVars, cacheVars, poolVars, syncVars, cycleVars>>

MCSpec == MCInit /\ [][MCNext]_allVars /\ PoolFairness
=============================================================================
