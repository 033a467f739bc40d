---------------------------- MODULE MonitorChannel ----------------------------
(***************************************************************************)
(* What the threads of ai-monitor share (worker.rs): the `stop' flag and   *)
(* the one channel on which the threads tell the main loop what they saw.  *)
(* Times count in units of five seconds, the shortest delay the program    *)
(* knows, and are kept as what is left of them.                            *)
(***************************************************************************)
EXTENDS Integers, Sequences

CONSTANT MaxUpdates   \* bound: unread messages in the channel

VARIABLES
  stop,      \* Workers::stop
  updates    \* mpsc::channel of Update, oldest first

(* The channel is unbounded; the main loop empties it every 100 ms.        *)
Room(n) == Len(updates) + n <= MaxUpdates
Send(msg) == updates' = Append(updates, msg)

(* A delay of which one unit has gone by.                                  *)
Left(delay) == IF delay > 0 THEN delay - 1 ELSE 0

Longer(a, b) == IF a >= b THEN a ELSE b
Shorter(a, b) == IF a <= b THEN a ELSE b
=============================================================================
