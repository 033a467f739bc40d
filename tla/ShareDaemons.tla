------------------------------ MODULE ShareDaemons ------------------------------
(***************************************************************************)
(* How the launchers of the second OMP profile come to share the daemon    *)
(* directory of the first one (share-omp-daemons.mjs, omp-with-tps.mjs):   *)
(* the profile's own directory is set aside and a link put in its place,   *)
(* unless a client still runs in it.  Launchers race and are killed at any *)
(* point; a killed one leaves its lock, which somebody removes by hand.    *)
(*                                                                         *)
(* Every client of the profile starts through a launcher, but for those    *)
(* that ran before the launcher was installed.                             *)
(***************************************************************************)
EXTENDS Integers, FiniteSets

CONSTANTS
  Launcher,
  MaxLaunches   \* bound: launches in all

ASSUME DaemonsAssumption == MaxLaunches \in Nat

VARIABLES
  source,     \* what is at .../pro2/run/daemons: "none", "own", "link"
  backups,    \* how many own directories and links were set aside
  target,     \* the first profile's directory exists
  lock,       \* .daemon-sharing.lock exists
  old,        \* a client that never heard of the launcher runs
  launcher,   \* where each launcher is, and the inode it saw: sourceStat
  shared,     \* clients the launchers started that run
  astray,     \* history: one of these found no link
  launches

daemonVars == <<source, backups, target, lock, old, launcher, shared, astray, launches>>

Idle == [pc |-> "idle", saw |-> "none", made |-> FALSE]

DaemonsInit ==
  /\ source \in {"none", "own"} /\ backups = 0 /\ target \in BOOLEAN /\ lock = FALSE
  /\ old \in {live \in BOOLEAN : live => source = "own"}
  /\ launcher = [l \in Launcher |-> Idle]
  /\ shared = 0 /\ astray = FALSE /\ launches = 0

-----------------------------------------------------------------------------
(* liveRuntimePids: a directory is looked through, and a link's target.    *)
Live == (source = "own" /\ old) \/ (source = "link" /\ shared > 0)

At(l, pc) == launcher[l].pc = pc
To(l, pc) == launcher' = [launcher EXCEPT ![l].pc = pc]
GivesUp(l) == launcher' = [launcher EXCEPT ![l] = Idle]

(* The directory is looked at: shared already, or ready if nobody is in.   *)
Launch(l) ==
  /\ At(l, "idle") /\ launches < MaxLaunches
  /\ launches' = launches + 1
  /\ launcher' = [launcher EXCEPT ![l].pc = IF source = "link" THEN "shared" ELSE "seen",
                                  ![l].saw = source]
  /\ UNCHANGED <<source, backups, target, lock, old, shared, astray>>
LookAround(l) ==
  /\ At(l, "seen")
  /\ IF Live THEN GivesUp(l) ELSE To(l, "free")
  /\ UNCHANGED <<source, backups, target, lock, old, shared, astray, launches>>
TakeLock(l) ==
  /\ At(l, "free")
  /\ IF lock THEN GivesUp(l) /\ UNCHANGED lock ELSE lock' = TRUE /\ To(l, "locked")
  /\ UNCHANGED <<source, backups, target, old, shared, astray, launches>>

(* Mutant: what was seen before the lock is trusted.                       *)
CheckTrusting(l) ==
  /\ At(l, "locked")
  /\ To(l, "checked") /\ target' = TRUE
  /\ UNCHANGED <<source, backups, lock, old, shared, astray, launches>>

(* Under the lock everything is looked at once more.                       *)
Check(l) ==
  /\ At(l, "locked")
  /\ IF source # launcher[l].saw \/ Live
     THEN To(l, "leaving") /\ UNCHANGED target
     ELSE To(l, "checked") /\ target' = TRUE
  /\ UNCHANGED <<source, backups, lock, old, shared, astray, launches>>
SetAside(l) ==
  /\ At(l, "checked")
  /\ To(l, "aside")
  /\ IF launcher[l].saw = "none" \/ source = "none" THEN UNCHANGED <<source, backups>>
     ELSE source' = "none" /\ backups' = backups + 1
  /\ UNCHANGED <<target, lock, old, shared, astray, launches>>
Link(l) ==
  /\ At(l, "aside")
  /\ source' = "link"
  /\ launcher' = [launcher EXCEPT ![l].pc = "leaving", ![l].made = TRUE]
  /\ UNCHANGED <<backups, target, lock, old, shared, astray, launches>>
(* The link cannot be made: the directory comes back.                      *)
LinkFails(l) ==
  /\ At(l, "aside")
  /\ IF launcher[l].saw = "none" THEN UNCHANGED <<source, backups>>
     ELSE source' = launcher[l].saw /\ backups' = backups - 1
  /\ To(l, "leaving")
  /\ UNCHANGED <<target, lock, old, shared, astray, launches>>
Leave(l) ==
  /\ At(l, "leaving")
  /\ lock' = FALSE
  /\ IF launcher[l].made THEN To(l, "shared") ELSE GivesUp(l)
  /\ UNCHANGED <<source, backups, target, old, shared, astray, launches>>

(* The client starts, through whatever is there now.                       *)
Start(l) ==
  /\ At(l, "shared")
  /\ GivesUp(l)
  /\ shared' = shared + 1
  /\ astray' = (astray \/ source # "link" \/ ~target)
  /\ UNCHANGED <<source, backups, target, lock, old, launches>>

LauncherKilled(l) ==
  /\ ~At(l, "idle")
  /\ GivesUp(l)
  /\ UNCHANGED <<source, backups, target, lock, old, shared, astray, launches>>

-----------------------------------------------------------------------------
(* Clients end; a stale lock is removed when no launcher runs.             *)
OldEnds ==
  /\ old /\ old' = FALSE
  /\ UNCHANGED <<source, backups, target, lock, launcher, shared, astray, launches>>
SharedEnds ==
  /\ shared > 0 /\ shared' = shared - 1
  /\ UNCHANGED <<source, backups, target, lock, old, launcher, astray, launches>>
RemoveLock ==
  /\ lock /\ \A l \in Launcher : At(l, "idle")
  /\ lock' = FALSE
  /\ UNCHANGED <<source, backups, target, old, launcher, shared, astray, launches>>

DaemonsNext ==
  \/ \E l \in Launcher :
       \/ Launch(l) \/ LookAround(l) \/ TakeLock(l) \/ Check(l) \/ SetAside(l)
       \/ Link(l) \/ LinkFails(l) \/ Leave(l) \/ Start(l) \/ LauncherKilled(l)
  \/ OldEnds \/ SharedEnds \/ RemoveLock

DaemonsSpec == DaemonsInit /\ [][DaemonsNext]_daemonVars

-----------------------------------------------------------------------------
(* "Never stop a running client" (share-omp-daemons.mjs:4): an old client  *)
(* keeps its directory where it is, every client of a launcher runs in the *)
(* shared one, and at most the one own directory is ever set aside.        *)
OneNamespace ==
  /\ old => source = "own"
  /\ shared > 0 => source = "link"
  /\ ~astray
  /\ backups <= 1
=============================================================================
