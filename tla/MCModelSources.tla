---------------------------- MODULE MCModelSources ----------------------------
(* The two sources that know a request's model from an earlier line, side  *)
(* by side: a Codex rollout and grok's log.  They share no state, and      *)
(* `part' says which of them a behaviour runs: grok's either with longer   *)
(* logs, or with one session in one log and a config.toml that fails and   *)
(* is edited more often.                                                   *)
EXTENDS CodexSource, GrokSource, TLC

CONSTANTS
  m1, m2, s1, s2, g1, g2,
  LinesWithFailures, \* bound: lines of grok's log when config.toml may fail
  EditsWithout       \* bound: edits of config.toml when it does not

VARIABLE part

MCModel == {m1, m2}
MCSession == {s1, s2}
MCGrokModel == {g1, g2}
MCSymmetry ==
  Permutations(MCModel) \cup Permutations(MCSession) \cup Permutations(MCGrokModel)

MCInit == part \in {"codex", "grok", "config"} /\ Init /\ GrokInit

MCNext ==
  \/ part = "codex" /\ Next /\ UNCHANGED <<part, grokVars>>
  \/ /\ part = "grok" /\ GrokNext /\ UNCHANGED <<part, vars>>
     /\ ~unread' /\ config'.mtime <= EditsWithout
  \/ /\ part = "config" /\ GrokNext /\ UNCHANGED <<part, vars>>
     /\ Len(written') <= LinesWithFailures /\ opened' = 0
     /\ \A i \in 1..Len(written') : written'[i].sid = written'[1].sid

MCSpec == MCInit /\ [][MCNext]_<<part, vars, grokVars>>
=============================================================================
