------------------------------ MODULE ServerPool ------------------------------
(***************************************************************************)
(* The embedded HTTP server of ai-monitor (web/server.rs): four threads    *)
(* share one non-blocking listener.  Each keeps a clone of the socket it   *)
(* serves in a slot, so that Drop can shut the sockets down and join the   *)
(* threads while browsers still hold connections open.                     *)
(***************************************************************************)
EXTENDS FiniteSets

CONSTANT Pool   \* the server's threads

VARIABLES
  stopped,      \* the flag
  thread,       \* where each thread is
  slot,         \* the threads whose slot holds a socket
  shut,         \* the threads whose current socket has been shut down
  owner,        \* Server::start, the running server, or Drop
  visited       \* the slots Drop has passed

poolVars == <<stopped, thread, slot, shut, owner, visited>>

PoolInit ==
  /\ stopped = FALSE
  /\ thread = [t \in Pool |-> "none"]
  /\ slot = {}
  /\ shut = {}
  /\ owner = "starting"
  /\ visited = {}

-----------------------------------------------------------------------------
(* start: thread after thread.  A spawn that fails drops the server made   *)
(* so far; its caller does not get one.                                    *)
SpawnThread(t) ==
  /\ owner = "starting"
  /\ thread[t] = "none"
  /\ thread' = [thread EXCEPT ![t] = "loop"]
  /\ owner' = IF \E u \in Pool \ {t} : thread[u] = "none"
              THEN "starting" ELSE "running"
  /\ UNCHANGED <<stopped, slot, shut, visited>>

(* `while !stopped': a connection is there, or not yet (sleep, try again). *)
Accept(t) ==
  /\ thread[t] = "loop"
  /\ ~stopped
  /\ thread' = [thread EXCEPT ![t] = "accepted"]
  /\ UNCHANGED <<stopped, slot, shut, owner, visited>>

(* The flag is seen, or accept fails for good.                             *)
LeaveLoop(t) ==
  /\ thread[t] = "loop"
  /\ stopped \/ owner # "dropped"
  /\ thread' = [thread EXCEPT ![t] = "ended"]
  /\ UNCHANGED <<stopped, slot, shut, owner, visited>>

(* Mutant: the flag is not looked at again under the slot's lock.          *)
RegisterUnchecked(t) ==
  /\ thread[t] = "accepted"
  /\ thread' = [thread EXCEPT ![t] = "serving"]
  /\ slot' = slot \cup {t}
  /\ UNCHANGED <<stopped, shut, owner, visited>>

(* Under the slot's lock the flag is looked at again: stop, or put a clone *)
(* of the socket into the slot (or drop the connection if it has none).    *)
Register(t) ==
  /\ thread[t] = "accepted"
  /\ \/ /\ stopped
        /\ thread' = [thread EXCEPT ![t] = "ended"]
        /\ UNCHANGED slot
     \/ /\ ~stopped
        /\ thread' = [thread EXCEPT ![t] = "serving"]
        /\ slot' = slot \cup {t}
     \/ /\ ~stopped
        /\ thread' = [thread EXCEPT ![t] = "loop"]
        /\ UNCHANGED slot
  /\ UNCHANGED <<stopped, shut, owner, visited>>

(* handle returns: the request is answered, its socket timed out, or it is *)
(* shut down; the slot is emptied.                                         *)
Served(t) ==
  /\ thread[t] = "serving"
  /\ thread' = [thread EXCEPT ![t] = "loop"]
  /\ slot' = slot \ {t}
  /\ shut' = shut \ {t}
  /\ UNCHANGED <<stopped, owner, visited>>

(* handle panics: the thread is gone, the clone stays in its slot.         *)
ThreadPanics(t) ==
  /\ thread[t] = "serving"
  /\ thread' = [thread EXCEPT ![t] = "ended"]
  /\ UNCHANGED <<stopped, slot, shut, owner, visited>>

(* Drop: the flag, then each slot under its lock, then the joins.          *)
BeginDrop ==
  /\ owner \in {"starting", "running"}
  /\ owner' = "dropping"
  /\ stopped' = TRUE
  /\ UNCHANGED <<thread, slot, shut, visited>>

ShutSlot(t) ==
  /\ owner = "dropping"
  /\ t \notin visited
  /\ visited' = visited \cup {t}
  /\ shut' = shut \cup (slot \cap {t})
  /\ UNCHANGED <<stopped, thread, slot, owner>>

JoinAll ==
  /\ owner = "dropping"
  /\ visited = Pool
  /\ \A t \in Pool : thread[t] \in {"none", "ended"}
  /\ owner' = "dropped"
  /\ UNCHANGED <<stopped, thread, slot, shut, visited>>

PoolNext ==
  \/ BeginDrop \/ JoinAll
  \/ \E t \in Pool : SpawnThread(t) \/ Accept(t) \/ LeaveLoop(t)
                       \/ Register(t) \/ Served(t) \/ ThreadPanics(t)
                       \/ ShutSlot(t)

(* Threads and Drop run on.  What a browser does is not to be relied on: a *)
(* thread need only come back from handle once its socket is shut down.    *)
PoolFairness ==
  /\ WF_poolVars(JoinAll)
  /\ \A t \in Pool :
       /\ WF_poolVars(ShutSlot(t))
       /\ WF_poolVars(Register(t))
       /\ WF_poolVars(stopped /\ LeaveLoop(t))
       /\ WF_poolVars(t \in shut /\ Served(t))

-----------------------------------------------------------------------------
(* Dropping the server "cancels active socket I/O and joins workers"       *)
(* (server.rs:18): it ends even when every browser keeps its connection    *)
(* open and silent, also when a thread accepts one as the flag is set.     *)
DropEnds == owner = "dropping" ~> owner = "dropped"
=============================================================================
