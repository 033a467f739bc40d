----------------------------- MODULE OmpAccounts -----------------------------
(***************************************************************************)
(* Which account an OpenCode Go request of an omp session is charged to    *)
(* (omp.rs, omp_api_keys.rs, round_omp in sources/mod.rs).  The observer   *)
(* inside omp writes a pin when the session is given a credential and a    *)
(* release when it loses it; the collector keeps them as a timeline in     *)
(* memory, seeded from whole files once per process, and attributes a      *)
(* request to the change in force at its time.  Entries may be in another  *)
(* session's file and may come later than the requests they explain;       *)
(* reconcile_api_key_accounts then corrects stored rows.                   *)
(*                                                                         *)
(* One session and one profile: the session's own log, and the siblings    *)
(* that may carry its entries.  Offsets are whole lines; chunks, half      *)
(* lines, rotation and inserts in the middle of a round are in TailCollect.*)
(* Pins carry no reason of their own, as those of older observers: the     *)
(* reason is derived.  Every log has its header from the start.            *)
(***************************************************************************)
EXTENDS Integers, SequencesExt

CONSTANTS
  Cred,        \* ids of the credentials in agent.db
  Own,         \* the session's log
  Sibling,     \* logs of other sessions
  MaxLine,     \* bound: lines in all logs together
  MaxTime,     \* bound: times of entries and requests
  LateRelease, \* a release may be in a sibling or older than what is written
  Restarts,    \* the collector may be killed and restarted
  DbFails      \* statements on the collector's database may fail

None == "none"
File == {Own} \cup Sibling
Time == 1..MaxTime

ASSUME OmpAssumption ==
  /\ None \notin Cred /\ Own \notin Sibling
  /\ MaxLine \in Nat /\ MaxTime \in Nat
  /\ {LateRelease, Restarts, DbFails} \subseteq BOOLEAN

VARIABLES
  log,      \* the lines of each file
  known,    \* the credentials of agent.db
  rows,     \* the session's rows of usage_event
  saved,    \* watermarks in collect_offset
  pc,       \* the collector's step
  todo,     \* the files still to visit
  pos,      \* lines consumed: by seeding, then the OffsetStore of this round
  batch,    \* rows parsed and not yet inserted
  catalog,  \* the AccountCatalog of this round
  timeline, \* ApiKeyHistory: the session's changes, by time
  seeded,   \* OmpState::seeded
  dirty     \* ApiKeyHistory::dirty has the session

db == <<rows, saved>>
round == <<todo, pos, batch, catalog>>
memory == <<timeline, seeded, dirty>>
vars == <<log, known, db, pc, round, memory>>

(* A line of a log: a change of the session's credential, or a request.    *)
Release == {"released", "store-replaced"}
Change == [kind : {"pin"}, cred : Cred, at : Time]
          \cup [kind : Release, cred : {None}, at : Time]
Request == [kind : {"request"}, cred : {None}, at : Time]

(* What a request is charged to, and its row.                              *)
Reason == {None, "initial", "usage-ranking"} \cup Release
Identity == [account : Cred \cup {None}, reason : Reason]
Row == [line : Nat, at : Time, charged : Identity]

TypeOK ==
  /\ log \in [File -> Seq(Change \cup Request)]
  /\ known \subseteq Cred /\ catalog \subseteq Cred
  /\ rows \subseteq Row
  /\ saved \in [File -> Nat]
  /\ pc \in {"new", "idle", "seed", "read", "insert", "reconcile", "save", "done"}
  /\ todo \subseteq File
  /\ pos \in [File -> Nat]
  /\ \A f \in File : pos[f] <= Len(log[f]) /\ saved[f] <= Len(log[f])
  /\ batch \subseteq Row
  /\ timeline \in Seq(Change)
  /\ seeded \subseteq File
  /\ dirty \in BOOLEAN

Start == [f \in File |-> 0]
Idle(d, p, b, c) == d = {} /\ p = Start /\ b = {} /\ c = {}
Forgotten(t, s, d) == t = <<>> /\ s = {} /\ d = FALSE

Init ==
  /\ log = [f \in File |-> <<>>]
  /\ known = Cred
  /\ rows = {}
  /\ saved = Start
  /\ pc = "new"
  /\ Idle(todo, pos, batch, catalog)
  /\ Forgotten(timeline, seeded, dirty)

-----------------------------------------------------------------------------
(* The side of omp and its observer.  No two changes have the same time: a *)
(* change equals another only when its line is read again.                 *)
Written == UNION {ToSet(log[f]) : f \in File}
Changes == {l \in Written : l.kind # "request"}
Length == Cardinality(UNION {{f} \X DOMAIN log[f] : f \in File})

Write(f, line) ==
  /\ log' = [log EXCEPT ![f] = Append(@, line)]
  /\ UNCHANGED <<known, db, pc, round, memory>>

WriteChange(f, line) ==
  /\ \A c \in Changes : c.at # line.at
  /\ Write(f, line)

WritePin(f, c, t) == WriteChange(f, [kind |-> "pin", cred |-> c, at |-> t])

WriteRelease(f, k, t) ==
  /\ LateRelease \/ (f = Own /\ \A l \in Written \ Changes : l.at < t)
  /\ WriteChange(f, [kind |-> k, cred |-> None, at |-> t])

(* Requests are written when they complete, with the time they did.        *)
WriteRequest(t) == Write(Own, [kind |-> "request", cred |-> None, at |-> t])

(* A credential leaves agent.db.                                           *)
RemoveCred(c) ==
  /\ c \in known
  /\ known' = known \ {c}
  /\ UNCHANGED <<log, db, pc, round, memory>>

-----------------------------------------------------------------------------
(* partition_point: the changes of a timeline up to a time.                *)
Upto(tl, t) == Max({0} \cup {i \in DOMAIN tl : tl[i].at <= t})

(* ApiKeyHistory::observe: a change goes to its place in time; one already *)
(* there is skipped.                                                       *)
Observed(tl, change) ==
  IF Contains(tl, change) THEN tl ELSE InsertAt(tl, Upto(tl, change.at) + 1, change)

(* observe_metadata, observe_value: of all lines the changes count.        *)
Noted(tl, line) == IF line.kind = "request" THEN tl ELSE Observed(tl, line)

(* The reason of a pin that states none.                                   *)
Derived(tl, i) ==
  CASE i = 1 -> "initial"
    [] i > 1 /\ tl[i - 1].kind # "pin" -> tl[i - 1].kind
    [] i > 1 /\ tl[i - 1].kind = "pin" ->
         IF tl[i - 1].cred # tl[i].cred THEN "usage-ranking" ELSE "initial"

(* ApiKeyHistory::resolve: the change in force; nobody before the first,   *)
(* after a release, or when the store has been replaced since.             *)
Nobody == [account |-> None, reason |-> None]
Account(cred) == IF cred \in catalog THEN cred ELSE None
Resolve(tl, t) ==
  LET n == Upto(tl, t) IN
  IF n = 0 \/ \E i \in n..Len(tl) :
                IF i = n THEN tl[i].kind # "pin" ELSE tl[i].kind = "store-replaced"
  THEN Nobody
  ELSE [account |-> Account(tl[n].cred), reason |-> Derived(tl, n)]

-----------------------------------------------------------------------------
(* The collector's first round: an old file is history, a live one is not. *)
FirstRound ==
  /\ pc = "new"
  /\ \E old \in SUBSET File :
       saved' = [f \in File |-> IF f \in old THEN Len(log[f]) ELSE 0]
  /\ pc' = "idle"
  /\ UNCHANGED <<log, known, rows, round, memory>>

(* AccountCatalog::load: what a change does to agent.db during a round is  *)
(* seen by the next.                                                       *)
LoadCatalog == catalog' = known

(* Mutant of SeedStart: what the watermark has passed is not read again.   *)
SeedStartAtWatermark == saved

(* The files that this process has not seen yet are read from their start  *)
(* for their changes; then all are read on from the watermark.             *)
SeedStart == Start
Open(step) ==
  /\ pc' = step
  /\ todo' = IF step = "seed" THEN File \ seeded ELSE File
  /\ pos' = IF step = "seed" THEN SeedStart ELSE saved

BeginRound ==
  /\ pc \in {"idle", "done"}
  /\ Open(IF File \subseteq seeded THEN "read" ELSE "seed")
  /\ LoadCatalog
  /\ UNCHANGED <<log, known, db, batch, memory>>

(* One file after the other, in some order, and in it line by line.        *)
Turn(f) ==
  /\ f \in todo
  /\ \A g \in todo \ {f} : pos[g] = IF pc = "seed" THEN SeedStart[g] ELSE saved[g]
NextLine(f) ==
  /\ Turn(f)
  /\ pos[f] < Len(log[f])
  /\ pos' = [pos EXCEPT ![f] = @ + 1]
  /\ timeline' = Noted(timeline, log[f][pos[f] + 1])
  /\ dirty' = (dirty \/ timeline' # timeline)

(* seed_file.                                                              *)
SeedLine(f) ==
  /\ pc = "seed"
  /\ NextLine(f)
  /\ UNCHANGED <<log, known, db, pc, todo, batch, catalog, seeded>>

EndOfSeed(f) ==
  /\ pc = "seed" /\ Turn(f)
  /\ pos[f] = Len(log[f])
  /\ seeded' = seeded \cup {f}
  /\ \/ todo = {f} /\ Open("read")
     \/ todo # {f} /\ todo' = todo \ {f} /\ UNCHANGED <<pc, pos>>
  /\ UNCHANGED <<log, known, db, batch, catalog, timeline, dirty>>

(* The row of a request, charged by the timeline as it is by then.         *)
RequestRow(line, i) ==
  [line |-> i, at |-> line.at, charged |-> Resolve(timeline, line.at)]

ParseLine(f) ==
  LET line == log[f][pos[f] + 1] IN
  /\ pc = "read"
  /\ NextLine(f)
  /\ batch' = batch \cup
       (IF line.kind = "request" THEN {RequestRow(line, pos[f] + 1)} ELSE {})
  /\ UNCHANGED <<log, known, db, pc, todo, catalog, seeded>>

EndOfFile(f) ==
  /\ pc = "read" /\ Turn(f)
  /\ pos[f] = Len(log[f])
  /\ todo' = todo \ {f}
  /\ pc' = IF todo = {f} THEN "insert" ELSE "read"
  /\ UNCHANGED <<log, known, db, pos, batch, catalog, memory>>

(* INSERT OR IGNORE: the first row of a request stays.                     *)
InsertRows ==
  /\ pc = "insert"
  /\ rows' = rows \cup {r \in batch : \A old \in rows : old.line # r.line}
  /\ pc' = "reconcile"
  /\ UNCHANGED <<log, known, saved, round, memory>>

(* reconcile_api_key_accounts: when the timeline has grown, every row is   *)
(* charged again; a row that has an account keeps it rather than lose it.  *)
Recharged(r) ==
  LET now == Resolve(timeline, r.at) IN
  IF now.account # None THEN [r EXCEPT !.charged = now]
  ELSE IF r.charged.account # None THEN r
  ELSE [r EXCEPT !.charged = Nobody]

(* Mutant of Reconcile: it trusts the rows that have an account.           *)
ReconcileUnknown ==
  /\ pc = "reconcile"
  /\ rows' = IF dirty
             THEN {IF r.charged.account = None THEN Recharged(r) ELSE r : r \in rows}
             ELSE rows
  /\ dirty' = FALSE
  /\ pc' = "save"
  /\ UNCHANGED <<log, known, saved, round, timeline, seeded>>

Reconcile ==
  /\ pc = "reconcile"
  /\ rows' = IF dirty THEN {Recharged(r) : r \in rows} ELSE rows
  /\ dirty' = FALSE
  /\ pc' = "save"
  /\ UNCHANGED <<log, known, saved, round, timeline, seeded>>

SaveOffset ==
  /\ pc = "save"
  /\ saved' = pos
  /\ pc' = "done"
  /\ Idle(todo', pos', batch', catalog')
  /\ UNCHANGED <<log, known, rows, memory>>

(* A statement fails: the round is dropped, but not the timeline.          *)
RoundFailed ==
  /\ DbFails
  /\ pc \in {"read", "insert", "reconcile", "save"}
  /\ pc' = "idle"
  /\ Idle(todo', pos', batch', catalog')
  /\ UNCHANGED <<log, known, db, memory>>

Restart ==
  /\ Restarts
  /\ pc # "new"
  /\ pc' = "idle"
  /\ Idle(todo', pos', batch', catalog')
  /\ Forgotten(timeline', seeded', dirty')
  /\ UNCHANGED <<log, known, db>>

SessionGoesOn ==
  /\ Length < MaxLine
  /\ \E t \in Time :
       \/ \E f \in File : \/ \E c \in Cred : WritePin(f, c, t)
                          \/ \E k \in Release : WriteRelease(f, k, t)
       \/ WriteRequest(t)

Next ==
  \/ SessionGoesOn
  \/ \E c \in Cred : RemoveCred(c)
  \/ FirstRound
  \/ BeginRound
  \/ \E f \in File : SeedLine(f) \/ EndOfSeed(f) \/ ParseLine(f) \/ EndOfFile(f)
  \/ InsertRows
  \/ Reconcile
  \/ SaveOffset
  \/ RoundFailed
  \/ Restart

Spec == Init /\ [][Next]_vars

-----------------------------------------------------------------------------
(* The changes among the first n[f] lines of each file, and what they say  *)
(* of a time: stated on the set, whatever the order they were read in.     *)
Evidence(n) == {c \in Changes : \E f \in File : \E i \in 1..n[f] : log[f][i] = c}
Before(E, t) == {e \in E : e.at <= t}
Latest(E) == CHOOSE e \in E : \A o \in E : o.at <= e.at

(* The pin in force at t, if it is one of a credential still known and the *)
(* store has not been replaced since.                                      *)
Proven(E, t) ==
  /\ Before(E, t) # {}
  /\ Latest(Before(E, t)).cred \in known
  /\ \A e \in E \ Before(E, t) : e.kind # "store-replaced"

Why(E, e) ==
  LET older == {o \in E : o.at < e.at}
      last  == Latest(older)
  IN  IF older = {} THEN "initial"
      ELSE IF last.kind # "pin" THEN last.kind
      ELSE IF last.cred # e.cred THEN "usage-ranking" ELSE "initial"

Binding(E, t) ==
  LET e == Latest(Before(E, t)) IN [account |-> e.cred, reason |-> Why(E, e)]

(* "OpenCode Go requests use their native session's pin timeline" and late *)
(* pins correct the rows already collected (herdr-usage/README.md): after  *)
(* a round every row is charged to the pin in force at its time among all  *)
(* the evidence collected, with the reason that evidence gives, in         *)
(* whichever order, file or process the entries were read.                 *)
Attributed ==
  pc = "done" =>
    \A r \in rows :
      Proven(Evidence(saved), r.at) => r.charged = Binding(Evidence(saved), r.at)

(* Nothing is charged without evidence: a row's account is one the session *)
(* had been pinned to by the time of the request, and has none when the    *)
(* session had been released by then.                                      *)
NeverInvented ==
  \A r \in rows :
    r.charged.account # None =>
      LET past == Before(Changes, r.at) IN
      /\ \E e \in past : e.cred = r.charged.account
      /\ Latest(past).kind = "pin"
=============================================================================
