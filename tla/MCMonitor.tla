------------------------------- MODULE MCMonitor -------------------------------
EXTENDS Monitor

(* One quota source and one route: threads of a kind share nothing but the *)
(* channel.  The two kinds are looked at one at a time.                    *)
OneKind ==
  \/ \A s \in Source : pc[s] = "off"
  \/ \A r \in Route : rpc[r] = "off"

MCInit == Init /\ OneKind
MCSpec == MCInit /\ [][Next]_vars /\ Fairness
=============================================================================
