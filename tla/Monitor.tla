-------------------------------- MODULE Monitor --------------------------------
(***************************************************************************)
(* The process ai-monitor (main.rs): the main loop that draws, reads keys  *)
(* and empties the channel of the worker threads, the watchdog that ends   *)
(* the process when the terminal is gone, and the threads of QuotaWorker   *)
(* and NetworkProbe.  `SHUTDOWN' is set by signals, `FINISHED' by the main *)
(* loop when it has ended, `stop' by the drop of Workers.                  *)
(***************************************************************************)
EXTENDS QuotaWorker, NetworkProbe

VARIABLES
  alive,      \* the terminal answers TIOCGWINSZ
  shutdown,   \* SHUTDOWN
  finished,   \* FINISHED
  main,       \* the main thread: loop, stuck, join, drop, joinWorkers, ended
  watch       \* the watchdog: probe, sleep, off

life == <<alive, shutdown, finished, main, watch>>
vars == <<life, stop, updates, quotaVars, probeVars>>
threads == <<stop, updates, quotaVars, probeVars>>

(* Http::new may fail, and the network page may be turned off.             *)
Init ==
  /\ alive = TRUE /\ shutdown = FALSE /\ finished = FALSE
  /\ main = "loop" /\ watch = "probe"
  /\ stop = FALSE /\ updates = <<>>
  /\ \E http, network \in BOOLEAN :
       /\ QuotaInit(IF http THEN Source ELSE {})
       /\ ProbeInit(IF network THEN Route ELSE {})

-----------------------------------------------------------------------------
(* A signal; the terminal goes away, mostly announced by SIGHUP.           *)
Signal ==
  /\ main # "ended" /\ ~shutdown
  /\ shutdown' = TRUE
  /\ UNCHANGED <<alive, finished, main, watch, threads>>
Hangup ==
  /\ alive
  /\ alive' = FALSE
  /\ \E hup \in BOOLEAN : shutdown' = (shutdown \/ hup)
  /\ UNCHANGED <<finished, main, watch, threads>>

(* workers.updates.try_iter(): the oldest message.                         *)
Drain ==
  /\ main = "loop" /\ updates # <<>>
  /\ updates' = Tail(updates)
  /\ \/ /\ "source" \in DOMAIN Head(updates)
        /\ ShowQuota(Head(updates))
        /\ UNCHANGED current
     \/ /\ "route" \in DOMAIN Head(updates)
        /\ ShowProbe(Head(updates))
        /\ UNCHANGED view
  /\ UNCHANGED <<life, stop, login, thread, trigger, probe, rtrigger>>

(* The key `r', the middle button or the footer: try_send to every thread. *)
Refresh ==
  /\ main = "loop" /\ ~shutdown
  /\ trigger' = [s \in Source |-> pc[s] # "off"]
  /\ rtrigger' = [r \in Route |-> rpc[r] # "off"]
  /\ UNCHANGED <<life, stop, updates, login, thread, view, probe, current>>

(* The loop ends by SHUTDOWN at its top, by `q', or by an error of poll on *)
(* a terminal that is gone: FINISHED is set and the watchdog joined.       *)
LeaveLoop ==
  /\ main = "loop"
  /\ main' = "join" /\ finished' = TRUE
  /\ UNCHANGED <<alive, shutdown, watch, threads>>

(* On a terminal that is gone, drawing and reading fail: `?' leaves `run'  *)
(* without FINISHED; or crossterm spins and never comes back.              *)
LoopFails ==
  /\ main = "loop" /\ ~alive
  /\ main' = "drop"
  /\ UNCHANGED <<alive, shutdown, finished, watch, threads>>
GetStuck ==
  /\ main = "loop" /\ ~alive
  /\ main' = "stuck"
  /\ UNCHANGED <<alive, shutdown, finished, watch, threads>>

JoinWatchdog ==
  /\ main = "join" /\ watch = "off"
  /\ main' = "drop"
  /\ UNCHANGED <<alive, shutdown, finished, watch, threads>>

(* Workers::drop: raise the flag, join the network threads.                *)
DropWorkers ==
  /\ main = "drop"
  /\ main' = "joinWorkers" /\ stop' = TRUE
  /\ UNCHANGED <<alive, shutdown, finished, watch, updates, quotaVars, probeVars>>

(* The end of the process takes every thread with it, and the kernel kills *)
(* the children (PR_SET_PDEATHSIG).                                        *)
EndProcess ==
  /\ main' = "ended"
  /\ watch' = "off"
  /\ pc' = [s \in Source |-> "off"]
  /\ rpc' = [r \in Route |-> "off"]
  /\ child' = [r \in Route |-> "none"]
  /\ UNCHANGED <<alive, shutdown, finished, stop, updates, login, asked, failures, wait,
                 notBefore, ban, trigger, view, age, backoff, pending, rtrigger, current>>
ReturnFromMain ==
  /\ main = "joinWorkers"
  /\ \A r \in Route : rpc[r] = "off"
  /\ EndProcess

(* The watchdog probes the terminal, then naps in slices.                  *)
WatchdogExits ==
  /\ watch = "probe" /\ ~alive
  /\ EndProcess
WatchdogNaps ==
  /\ watch = "probe" /\ alive
  /\ watch' = IF finished THEN "off" ELSE "sleep"
  /\ UNCHANGED <<alive, shutdown, finished, main, threads>>

(* Mutant: the watchdog retires when a signal arrives.                     *)
WatchdogWakesOnShutdown ==
  /\ watch = "sleep"
  /\ watch' = IF shutdown THEN "off" ELSE "probe"
  /\ UNCHANGED <<alive, shutdown, finished, main, threads>>

WatchdogWakes ==
  /\ watch = "sleep"
  /\ watch' = IF finished THEN "off" ELSE "probe"
  /\ UNCHANGED <<alive, shutdown, finished, main, threads>>

(* Five seconds pass.                                                      *)
Tick ==
  /\ main # "ended"
  /\ QuotaTick /\ ProbeTick
  /\ UNCHANGED <<life, stop, updates>>

MainStep ==
  \/ Drain \/ Refresh \/ LeaveLoop \/ LoopFails \/ GetStuck
  \/ JoinWatchdog \/ DropWorkers \/ ReturnFromMain

WatchStep == WatchdogExits \/ WatchdogNaps \/ WatchdogWakes

QuotaStep(s) ==
  \/ \E a \in Account \cup {None} : ChangeLogin(s, a)
  \/ Prepare(s) \/ PrepareFails(s)
  \/ \E answer \in Answer : Fetched(s, answer)
  \/ WakeUp(s) \/ DropEarlyRequest(s) \/ QuotaStops(s)

ProbeStep(r) ==
  \/ SpawnProbe(r) \/ SpawnFails(r) \/ CurlExits(r) \/ KillChild(r) \/ ReapChild(r)
  \/ Reported(r) \/ NoteRequest(r) \/ NextProbe(r) \/ ProbeStops(r)

Next ==
  \/ Signal \/ Hangup \/ MainStep \/ WatchStep \/ Tick
  \/ /\ main # "ended"
     /\ \/ \E s \in Source : QuotaStep(s) /\ UNCHANGED <<life, probeVars>>
        \/ \E r \in Route : ProbeStep(r) /\ UNCHANGED <<life, quotaVars>>

(* Threads that can run do: the main loop turns every 100 ms and looks at  *)
(* SHUTDOWN, the watchdog every second, a probe at its child every 20 ms.  *)
(* Nothing is assumed of the network, the user, signals or the terminal.   *)
Fairness ==
  /\ WF_vars(shutdown /\ LeaveLoop)
  /\ WF_vars(JoinWatchdog) /\ WF_vars(DropWorkers) /\ WF_vars(ReturnFromMain)
  /\ WF_vars(WatchStep)
  /\ \A r \in Route :
       /\ WF_vars(KillChild(r) /\ UNCHANGED <<life, quotaVars>>)
       /\ WF_vars(ProbeStops(r) /\ UNCHANGED <<life, quotaVars>>)

Spec == Init /\ [][Next]_vars /\ Fairness

-----------------------------------------------------------------------------
(* "A pty hangup ends the process": the watchdog notices a dead terminal   *)
(* whatever state the main thread and the flags are in (main.rs:76), even  *)
(* when a SIGHUP came first and the loop is stuck in crossterm.            *)
EndsOnHangup == ~alive ~> main = "ended"

(* After a signal, `q' or an error the process comes to its end: the main  *)
(* thread waits for the watchdog, which waits for the terminal, and for    *)
(* the network threads, which wait for their children (main.rs:332).       *)
EndsOnRequest == shutdown \/ main \in {"join", "drop", "joinWorkers"} ~> main = "ended"
=============================================================================
