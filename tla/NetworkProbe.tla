----------------------------- MODULE NetworkProbe -----------------------------
(***************************************************************************)
(* The probes of the three service entry points (network.rs): one thread   *)
(* per route starts a fresh curl, waits for it by polling, kills it when   *)
(* it takes too long or when the program stops, reports, and waits for its *)
(* next turn.                                                              *)
(***************************************************************************)
EXTENDS MonitorChannel

CONSTANTS
  Route,        \* the routes
  Interval,     \* config.network_interval
  MaxBackoff    \* bound: the longest Retry-After

ASSUME ProbeAssumption ==
  /\ Interval \in Nat
  /\ MaxBackoff \in Nat

(* MIN_INTERVAL, five seconds, is also a probe's time limit.               *)
MinInterval == 1

VARIABLES
  rpc,        \* where the thread is; "off": it has returned
  child,      \* the curl process: none, running, or exited and not yet waited for
  age,        \* time since the probe started, as far as anyone asks
  backoff,    \* what is left of the Retry-After of the last probe
  pending,    \* `r' was pressed since the last probe
  rtrigger,   \* the route's sync_channel(1) holds a request
  current     \* what the screen shows of the route

probe == <<rpc, child, age, backoff, pending>>
probeVars == <<probe, rtrigger, current>>

Cadence == Longer(Interval, MinInterval)

ProbeInit(on) ==
  /\ rpc = [r \in Route |-> IF r \in on THEN "start" ELSE "off"]
  /\ child = [r \in Route |-> "none"]
  /\ age = [r \in Route |-> 0]
  /\ backoff = [r \in Route |-> 0]
  /\ pending = [r \in Route |-> FALSE]
  /\ rtrigger = [r \in Route |-> FALSE]
  /\ current = [r \in Route |-> "none"]

-----------------------------------------------------------------------------
(* A failing curl shows as a failed probe; a response of any status as ok. *)
Report(r, result) ==
  /\ Room(1)
  /\ Send([route |-> r, result |-> result])

(* execute: spawn curl, or report at once that there is none.              *)
SpawnProbe(r) ==
  /\ rpc[r] = "start" /\ ~stop
  /\ rpc' = [rpc EXCEPT ![r] = "probing"]
  /\ child' = [child EXCEPT ![r] = "running"]
  /\ age' = [age EXCEPT ![r] = 0]
  /\ UNCHANGED <<backoff, pending, rtrigger, current, stop, updates>>
SpawnFails(r) ==
  /\ rpc[r] = "start" /\ ~stop
  /\ Report(r, "failed")
  /\ rpc' = [rpc EXCEPT ![r] = "waiting"]
  /\ age' = [age EXCEPT ![r] = 0]
  /\ rtrigger' = [rtrigger EXCEPT ![r] = FALSE]
  /\ UNCHANGED <<child, backoff, pending, current, stop>>

(* curl ends by itself.                                                    *)
CurlExits(r) ==
  /\ child[r] = "running"
  /\ child' = [child EXCEPT ![r] = "exited"]
  /\ UNCHANGED <<rpc, age, backoff, pending, rtrigger, current, stop, updates>>

(* Mutant: only the time limit ends a probe, not the end of the program.   *)
KillLateChild(r) ==
  /\ rpc[r] = "probing"
  /\ age[r] >= MinInterval
  /\ rpc' = [rpc EXCEPT ![r] = "killed"]
  /\ child' = [child EXCEPT ![r] = "none"]
  /\ UNCHANGED <<age, backoff, pending, rtrigger, current, stop, updates>>

(* The polling loop kills the child on stop or after the time limit, even  *)
(* if it has ended in between; kill and wait leave no process behind.      *)
KillChild(r) ==
  /\ rpc[r] = "probing"
  /\ stop \/ age[r] >= MinInterval
  /\ rpc' = [rpc EXCEPT ![r] = "killed"]
  /\ child' = [child EXCEPT ![r] = "none"]
  /\ UNCHANGED <<age, backoff, pending, rtrigger, current, stop, updates>>
ReapChild(r) ==
  /\ rpc[r] = "probing" /\ ~stop
  /\ child[r] = "exited"
  /\ rpc' = [rpc EXCEPT ![r] = "reaped"]
  /\ child' = [child EXCEPT ![r] = "none"]
  /\ UNCHANGED <<age, backoff, pending, rtrigger, current, stop, updates>>

(* The outcome, the requests it satisfies, and the delay it asks for.      *)
FinishProbe(r, result, retry) ==
  /\ Report(r, result)
  /\ backoff' = [backoff EXCEPT ![r] = retry]
  /\ rtrigger' = [rtrigger EXCEPT ![r] = FALSE]
  /\ rpc' = [rpc EXCEPT ![r] = "waiting"]
  /\ UNCHANGED <<child, age, pending, current, stop>>

(* After the child: a stop discards the result, a kill is a timeout, and   *)
(* only an answer may carry a Retry-After.                                 *)
Reported(r) ==
  /\ rpc[r] \in {"killed", "reaped"} /\ ~stop
  /\ \/ rpc[r] = "killed" /\ FinishProbe(r, "failed", 0)
     \/ rpc[r] = "reaped" /\ FinishProbe(r, "failed", 0)
     \/ rpc[r] = "reaped" /\ \E retry \in 0..MaxBackoff : FinishProbe(r, "ok", retry)

(* wait_for_next: a request shortens the cadence, never the back-off.      *)
NoteRequest(r) ==
  /\ rpc[r] = "waiting" /\ ~stop
  /\ rtrigger[r]
  /\ rtrigger' = [rtrigger EXCEPT ![r] = FALSE]
  /\ pending' = [pending EXCEPT ![r] = TRUE]
  /\ UNCHANGED <<rpc, child, age, backoff, current, stop, updates>>

Due(r) ==
  /\ age[r] >= (IF pending[r] THEN MinInterval ELSE Cadence)
  /\ backoff[r] = 0

NextProbe(r) ==
  /\ rpc[r] = "waiting" /\ ~stop
  /\ Due(r)
  /\ rpc' = [rpc EXCEPT ![r] = "start"]
  /\ pending' = [pending EXCEPT ![r] = FALSE]
  /\ UNCHANGED <<child, age, backoff, rtrigger, current, stop, updates>>

(* Mutant: the thread leaves its curl behind.                              *)
ProbeStopsAtOnce(r) ==
  /\ stop /\ rpc[r] \in {"start", "probing", "killed", "reaped", "waiting"}
  /\ rpc' = [rpc EXCEPT ![r] = "off"]
  /\ UNCHANGED <<child, age, backoff, pending, rtrigger, current, stop, updates>>

(* Where the flag is looked at: before a probe, after one, and waiting.    *)
ProbeStops(r) ==
  /\ stop /\ rpc[r] \in {"start", "killed", "reaped", "waiting"}
  /\ rpc' = [rpc EXCEPT ![r] = "off"]
  /\ UNCHANGED <<child, age, backoff, pending, rtrigger, current, stop, updates>>

(* The main loop takes a probe's report from the channel.                  *)
ShowProbe(msg) == current' = [current EXCEPT ![msg.route] = msg.result]

ProbeTick ==
  /\ age' = [r \in Route |-> Shorter(age[r] + 1, Cadence)]
  /\ backoff' = [r \in Route |-> Left(backoff[r])]
  /\ UNCHANGED <<rpc, child, pending, rtrigger, current>>

-----------------------------------------------------------------------------
(* A probe's process never outlives its thread (network.rs:214).           *)
NoStrayChild == \A r \in Route : rpc[r] = "off" => child[r] = "none"
=============================================================================
