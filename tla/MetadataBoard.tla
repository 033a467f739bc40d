----------------------------- MODULE MetadataBoard -----------------------------
(***************************************************************************)
(* What the agent row of Herdr promises its reader, however the reports    *)
(* get there: a field shows what the agent has said of it, or nothing, and *)
(* never goes back to something older than it has already taken in.        *)
(***************************************************************************)
EXTENDS Integers

CONSTANT Field   \* model, tps, display_agent

VARIABLES
  said,    \* the number of the last thing said of each field
  taken,   \* the number of the last thing the row has taken in
  shown    \* the number of what the row shows; 0: nothing

boardVars == <<said, taken, shown>>

BoardInit ==
  /\ said \in [Field -> Nat]
  /\ taken = [f \in Field |-> 0]
  /\ shown = [f \in Field |-> 0]

Say ==
  /\ said' \in [Field -> Nat]
  /\ \A f \in Field : said'[f] >= said[f]
  /\ UNCHANGED <<taken, shown>>

(* Some fields take in something said; what they show is that, or nothing. *)
TakeIn ==
  /\ taken' \in [Field -> Nat]
  /\ shown' \in [Field -> Nat]
  /\ \A f \in Field :
       /\ taken'[f] >= taken[f] /\ taken'[f] <= said[f]
       /\ shown'[f] \in {0, taken'[f]} \cup {shown[f]}
       /\ taken'[f] # taken[f] => shown'[f] \in {0, taken'[f]}
  /\ UNCHANGED said

BoardNext == Say \/ TakeIn

BoardSpec == BoardInit /\ [][BoardNext]_boardVars
=============================================================================
