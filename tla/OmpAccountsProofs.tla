-------------------------- MODULE OmpAccountsProofs --------------------------
(***************************************************************************)
(* Theorems about OmpAccounts, for every number of logs, credentials and   *)
(* times: the types, that a round ends with every request charged as all   *)
(* the entries collected say, and that nothing is charged without an entry *)
(* that says so while releases are written in order.                       *)
(***************************************************************************)
EXTENDS OmpAccounts, FiniteSetTheorems, SequenceTheorems, WellFoundedInduction,
        TLAPS

-----------------------------------------------------------------------------
(* The inductive invariant.                                                *)

(* The changes that the timeline holds, each once and in order of time.    *)
Noticed == {timeline[i] : i \in DOMAIN timeline}
InOrder(tl) == \A i, j \in DOMAIN tl : i < j => tl[i].at < tl[j].at

OneAtATime == \A c, d \in Changes : c.at = d.at => c = d

InRound == pc \in {"seed", "read", "insert", "reconcile", "save"}
PastRead == pc \in {"insert", "reconcile", "save"}

(* The passes over the files.                                              *)
PassInv ==
  /\ pc = "new" => seeded = {}
  /\ pc \in {"new", "idle", "seed", "done"} => batch = {}
  /\ pc = "seed" => todo = File \ seeded
  /\ pc = "read" \/ PastRead \/ pc = "done" => seeded = File
  /\ pc = "read" \/ PastRead => \A f \in File : saved[f] <= pos[f]
  /\ PastRead => todo = {}
  /\ InRound => known \subseteq catalog
  /\ pc \in {"save", "done"} => ~dirty

(* What this process has read is in the timeline, and nothing that it has  *)
(* not reached by the end of a round.                                      *)
NoticedUpto(f, n) == \A i \in 1..n : log[f][i].kind # "request" => log[f][i] \in Noticed
Reached(f) ==
  CASE PastRead -> pos[f]
    [] pc = "done" -> saved[f]
    [] pc = "read" /\ f \notin todo -> pos[f]
    [] OTHER -> Len(log[f])
NoticedInv ==
  /\ \A f \in seeded : NoticedUpto(f, saved[f])
  /\ InRound => \A f \in File : NoticedUpto(f, pos[f])
  /\ \A c \in Noticed : \E f \in File : \E i \in 1..Reached(f) : log[f][i] = c

(* A row is charged as the timeline says, or the session is to be charged  *)
(* again.                                                                  *)
Settled(r) == Proven(Noticed, r.at) => r.charged = Binding(Noticed, r.at)
SettledInv ==
  dirty \/ /\ \A r \in rows : Settled(r)
           /\ pc \in {"read", "insert"} => \A r \in batch : Settled(r)

OmpInv ==
  /\ TypeOK
  /\ OneAtATime
  /\ InOrder(timeline)
  /\ PassInv
  /\ NoticedInv
  /\ SettledInv

(* A row is that of a line of the session's log, of one that the round has *)
(* passed when it has passed that log.                                     *)
OfLine(r) ==
  /\ r.line \in DOMAIN log[Own]
  /\ log[Own][r.line].kind = "request" /\ log[Own][r.line].at = r.at
RowsInv ==
  /\ \A r \in rows \cup batch : OfLine(r)
  /\ PastRead \/ (pc = "read" /\ Own \notin todo) =>
       \A r \in rows \cup batch : r.line <= pos[Own]

(* Requests and releases are in the session's log, and each release is     *)
(* later than the requests before it.                                      *)
ReleasesInOrder ==
  /\ \A f \in Sibling : \A i \in DOMAIN log[f] : log[f][i].kind = "pin"
  /\ \A i, j \in DOMAIN log[Own] :
       i < j /\ log[Own][i].kind = "request" /\ log[Own][j].kind \in Release
         => log[Own][i].at < log[Own][j].at

(* Somebody was pinned before a time, and nobody released since.           *)
PinnedTo(cred, t) == \E e \in Before(Changes, t) : e.cred = cred
LastIsPin(t) ==
  \A l \in Before(Changes, t) :
    (\A o \in Before(Changes, t) : o.at <= l.at) => l.kind = "pin"
Justified(r) ==
  r.charged.account # None => PinnedTo(r.charged.account, r.at) /\ LastIsPin(r.at)

ChargeInv ==
  /\ RowsInv
  /\ ReleasesInOrder
  /\ \A r \in rows \cup batch : Justified(r)

-----------------------------------------------------------------------------
(* Numbers below another are well founded, which is why a set of them has  *)
(* a greatest.                                                             *)
LEMMA LessWellFounded == IsWellFoundedOn({r \in Nat \X Nat : r[1] < r[2]}, Nat)
BY NatLessThanWellFounded DEF OpToRel

LEMMA GreatestOfBounded ==
  ASSUME NEW n \in Nat, NEW S \in SUBSET (0..n), S # {}
  PROVE  \E m \in S : \A i \in S : m >= i
<1> DEFINE R == {r \in Nat \X Nat : r[1] < r[2]}
           T == {k \in Nat : n - k \in S}
<1>1. T # {}
  <2>1. PICK i \in S : TRUE
    OBVIOUS
  <2>2. i \in Nat /\ n - i \in Nat /\ n - (n - i) = i
    BY <2>1
  <2>3. n - i \in T
    BY <2>1, <2>2
  <2> QED
    BY <2>3
<1>2. PICK x \in T : \A y \in T : <<y, x>> \notin R
  <2>1. IsWellFoundedOn(R, Nat)
    BY LessWellFounded
  <2>2. T \subseteq Nat
    OBVIOUS
  <2> HIDE DEF R, T
  <2> QED
    BY <1>1, <2>1, <2>2, WFMin
<1>3. x \in Nat /\ n - x \in S
  OBVIOUS
<1>4. ASSUME NEW j \in S PROVE n - x >= j
  <2>1. j \in Nat /\ n - j \in Nat /\ n - (n - j) = j
    OBVIOUS
  <2>2. n - j \in T
    BY <2>1
  <2>3. ~(n - j < x)
    BY <1>2, <1>3, <2>1, <2>2
  <2> QED
    BY <1>3, <2>1, <2>3
<1> QED
  BY <1>3, <1>4

(* partition_point on a timeline in order: the changes up to a time are    *)
(* its first Upto.                                                         *)
LEMMA UptoIs ==
  ASSUME NEW tl \in Seq(Change), InOrder(tl), NEW t \in Nat
  PROVE  /\ Upto(tl, t) \in 0..Len(tl)
         /\ \A i \in 1..Len(tl) : i <= Upto(tl, t) <=> tl[i].at <= t
<1>0. Len(tl) \in Nat /\ DOMAIN tl = 1..Len(tl) /\ \A i \in 1..Len(tl) : tl[i].at \in Nat
  <2>1. \A i \in 1..Len(tl) : tl[i] \in Change
    BY ElementOfSeq
  <2> QED
    BY <2>1, LenProperties DEF Change, Time
<1> DEFINE n == Upto(tl, t)
           U == {0} \cup {i \in DOMAIN tl : tl[i].at <= t}
<1>1. U \in SUBSET (0..Len(tl)) /\ 0 \in U
  BY <1>0
<1>2. n \in U /\ \A i \in U : n >= i
  <2> HIDE DEF U
  <2>1. \E m \in U : \A i \in U : m >= i
    BY <1>0, <1>1, GreatestOfBounded
  <2>2. n = CHOOSE m \in U : \A i \in U : m >= i
    BY DEF Upto, Max, U
  <2> HIDE DEF n
  <2> QED
    BY <2>1, <2>2
<1>3. n \in 0..Len(tl) /\ n \in Nat
  BY <1>0, <1>1, <1>2
<1>4. ASSUME NEW i \in 1..Len(tl), i <= n PROVE tl[i].at <= t
  <2>1. n \in 1..Len(tl) /\ tl[n].at <= t
    BY <1>0, <1>2, <1>3, <1>4
  <2>2. i = n \/ tl[i].at < tl[n].at
    BY <1>0, <1>3, <1>4, <2>1 DEF InOrder
  <2>3. tl[i].at \in Nat /\ tl[n].at \in Nat
    BY <1>0, <2>1
  <2> QED
    BY <2>1, <2>2, <2>3
<1>5. ASSUME NEW i \in 1..Len(tl), tl[i].at <= t PROVE i <= n
  BY <1>0, <1>2, <1>3, <1>5
<1> HIDE DEF n
<1>6. \A i \in 1..Len(tl) : i <= n <=> tl[i].at <= t
  BY <1>4, <1>5
<1> QED
  BY <1>3, <1>6 DEF n

(* What InsertAt makes of a sequence.                                      *)
LEMMA Inserted ==
  ASSUME NEW S, NEW tl \in Seq(S), NEW c \in S, NEW n \in 0..Len(tl)
  PROVE  /\ InsertAt(tl, n + 1, c) \in Seq(S)
         /\ Len(InsertAt(tl, n + 1, c)) = Len(tl) + 1
         /\ \A i \in 1..(Len(tl) + 1) :
              InsertAt(tl, n + 1, c)[i] =
                IF i <= n THEN tl[i] ELSE IF i = n + 1 THEN c ELSE tl[i - 1]
<1>0. Len(tl) \in Nat /\ n \in Nat /\ \A i \in 1..Len(tl) : tl[i] \in S
  BY LenProperties, ElementOfSeq
<1> DEFINE a == SubSeq(tl, 1, n)
           b == SubSeq(tl, n + 1, Len(tl))
           s == (a \o <<c>>) \o b
<1>1. a \in Seq(S) /\ Len(a) = n /\ \A i \in 1..n : a[i] = tl[i]
  <2>1. \A i \in 1..n : tl[i] \in S
    BY <1>0
  <2>2. /\ a \in Seq(S)
        /\ Len(a) = IF 1 <= n THEN n - 1 + 1 ELSE 0
        /\ \A i \in 1..(n - 1 + 1) : a[i] = tl[1 + i - 1]
    BY <1>0, <2>1, SubSeqProperties
  <2> HIDE DEF a
  <2> QED
    BY <1>0, <2>2
<1>2. /\ b \in Seq(S) /\ Len(b) = Len(tl) - n
      /\ \A i \in 1..(Len(tl) - n) : b[i] = tl[n + i]
  <2>1. \A i \in (n + 1)..Len(tl) : tl[i] \in S
    BY <1>0
  <2>2. /\ b \in Seq(S)
        /\ Len(b) = IF n + 1 <= Len(tl) THEN Len(tl) - (n + 1) + 1 ELSE 0
        /\ \A i \in 1..(Len(tl) - (n + 1) + 1) : b[i] = tl[(n + 1) + i - 1]
    BY <1>0, <2>1, SubSeqProperties
  <2> HIDE DEF b
  <2> QED
    BY <1>0, <2>2
<1>3. <<c>> \in Seq(S) /\ Len(<<c>>) = 1 /\ <<c>>[1] = c
  OBVIOUS
<1>4. /\ a \o <<c>> \in Seq(S) /\ Len(a \o <<c>>) = n + 1
      /\ \A i \in 1..(n + 1) : (a \o <<c>>)[i] = IF i <= n THEN tl[i] ELSE c
  <2>1. /\ a \o <<c>> \in Seq(S) /\ Len(a \o <<c>>) = Len(a) + Len(<<c>>)
        /\ \A i \in 1..(Len(a) + Len(<<c>>)) :
             (a \o <<c>>)[i] = IF i <= Len(a) THEN a[i] ELSE <<c>>[i - Len(a)]
    BY <1>1, <1>3, ConcatProperties
  <2> HIDE DEF a
  <2> QED
    BY <1>0, <1>1, <1>3, <2>1
<1>5. /\ s \in Seq(S) /\ Len(s) = Len(a \o <<c>>) + Len(b)
      /\ \A i \in 1..(Len(a \o <<c>>) + Len(b)) :
           s[i] = IF i <= Len(a \o <<c>>) THEN (a \o <<c>>)[i] ELSE b[i - Len(a \o <<c>>)]
  <2> HIDE DEF a, b
  <2> QED
    BY <1>2, <1>4, ConcatProperties
<1>6. InsertAt(tl, n + 1, c) = s
  <2>1. (n + 1) - 1 = n
    BY <1>0
  <2> QED
    BY <2>1 DEF InsertAt
<1> HIDE DEF s, a, b
<1>7. Len(s) = Len(tl) + 1
  <2>1. Len(s) = (n + 1) + (Len(tl) - n)
    BY ONLY <1>2, <1>4, <1>5
  <2>2. \A k, l \in Nat : (k + 1) + (l - k) = l + 1
    OBVIOUS
  <2> QED
    BY ONLY <1>0, <2>1, <2>2
<1>8. ASSUME NEW i \in 1..(Len(tl) + 1)
      PROVE  s[i] = IF i <= n THEN tl[i] ELSE IF i = n + 1 THEN c ELSE tl[i - 1]
  <2>0. s[i] = IF i <= n + 1 THEN (a \o <<c>>)[i] ELSE b[i - (n + 1)]
    <3>1. i \in 1..(Len(a \o <<c>>) + Len(b))
      BY ONLY <1>5, <1>7
    <3>2. s[i] = IF i <= Len(a \o <<c>>) THEN (a \o <<c>>)[i] ELSE b[i - Len(a \o <<c>>)]
      BY ONLY <1>5, <3>1
    <3> QED
      BY ONLY <1>4, <3>2
  <2>1. CASE i <= n + 1
    <3>1. i \in 1..(n + 1)
      BY <1>0, <2>1
    <3>2. s[i] = (a \o <<c>>)[i]
      BY ONLY <2>0, <2>1
    <3>3. s[i] = IF i <= n THEN tl[i] ELSE c
      BY ONLY <1>4, <3>1, <3>2
    <3>4. ~(i <= n) => i = n + 1
      BY <1>0, <2>1
    <3> QED
      BY ONLY <3>3, <3>4
  <2>2. CASE i > n + 1
    <3>1. i - (n + 1) \in 1..(Len(tl) - n) /\ n + (i - (n + 1)) = i - 1
      BY <1>0, <2>2
    <3>2. s[i] = b[i - (n + 1)]
      <4>1. ~(i <= n + 1)
        BY <1>0, <2>2
      <4> QED
        BY ONLY <2>0, <4>1
    <3>3. ~(i <= n) /\ i # n + 1
      BY <1>0, <2>2
    <3>4. b[i - (n + 1)] = tl[i - 1]
      BY ONLY <1>2, <3>1
    <3> QED
      BY ONLY <3>2, <3>3, <3>4
  <2> QED
    BY <1>0, <2>1, <2>2
<1> QED
  BY <1>5, <1>6, <1>7, <1>8

(* ApiKeyHistory::observe keeps the timeline in order and adds the change. *)
LEMMA ObservedIs ==
  ASSUME NEW tl \in Seq(Change), InOrder(tl), NEW c \in Change,
         \A i \in DOMAIN tl : tl[i].at = c.at => tl[i] = c
  PROVE  /\ Observed(tl, c) \in Seq(Change)
         /\ InOrder(Observed(tl, c))
         /\ {Observed(tl, c)[i] : i \in DOMAIN Observed(tl, c)} =
              {tl[i] : i \in DOMAIN tl} \cup {c}
<1>0. /\ Len(tl) \in Nat /\ DOMAIN tl = 1..Len(tl) /\ c.at \in Nat
      /\ \A i \in 1..Len(tl) : tl[i].at \in Nat
  <2>1. \A i \in 1..Len(tl) : tl[i] \in Change
    BY ElementOfSeq
  <2> QED
    BY <2>1, LenProperties DEF Change, Time
<1>1. CASE Contains(tl, c)
  BY <1>0, <1>1 DEF Contains, Observed
<1>2. CASE ~Contains(tl, c)
  <2> DEFINE n == Upto(tl, c.at)
             s == InsertAt(tl, n + 1, c)
  <2>1. n \in 0..Len(tl) /\ \A i \in 1..Len(tl) : i <= n <=> tl[i].at <= c.at
    BY <1>0, UptoIs
  <2> HIDE DEF n
  <2>2. /\ s \in Seq(Change) /\ Len(s) = Len(tl) + 1
        /\ \A i \in 1..(Len(tl) + 1) :
             s[i] = IF i <= n THEN tl[i] ELSE IF i = n + 1 THEN c ELSE tl[i - 1]
    BY <2>1, Inserted
  <2>3. Observed(tl, c) = s
    BY <1>2 DEF Observed, n
  <2> HIDE DEF s
  <2>4. DOMAIN s = 1..(Len(tl) + 1)
    BY <2>2, LenProperties
  <2>5. \A i \in 1..Len(tl) : tl[i].at # c.at
    BY <1>0, <1>2 DEF Contains
  <2>6. ASSUME NEW i \in DOMAIN s, NEW j \in DOMAIN s, i < j
        PROVE  s[i].at < s[j].at
    <3>0. i \in 1..(Len(tl) + 1) /\ j \in 1..(Len(tl) + 1) /\ n \in Nat
      BY <2>1, <2>4
    <3>1. CASE j <= n
      <4>1. i \in DOMAIN tl /\ j \in DOMAIN tl /\ i <= n
        BY <1>0, <2>1, <2>6, <3>0, <3>1
      <4> QED
        BY <2>2, <2>6, <3>0, <3>1, <4>1 DEF InOrder
    <3>2. CASE j = n + 1
      <4>1. i <= n /\ i \in 1..Len(tl)
        BY <1>0, <2>1, <2>6, <3>0, <3>2
      <4>2. tl[i].at <= c.at /\ tl[i].at # c.at /\ tl[i].at \in Nat
        BY <1>0, <2>1, <2>5, <4>1
      <4>3. s[i] = tl[i] /\ s[j] = c
        BY <2>2, <3>0, <3>2, <4>1
      <4> QED
        BY <1>0, <4>2, <4>3
    <3>3. CASE j > n + 1
      <4>1. j - 1 \in 1..Len(tl) /\ ~(j - 1 <= n) /\ s[j] = tl[j - 1]
        BY <1>0, <2>1, <2>2, <3>0, <3>3
      <4>2. ~(tl[j - 1].at <= c.at) /\ tl[j - 1].at \in Nat
        BY <1>0, <2>1, <4>1
      <4>3. CASE i <= n
        <5>1. i \in 1..Len(tl) /\ i < j - 1 /\ s[i] = tl[i]
          BY <1>0, <2>1, <2>2, <3>0, <3>3, <4>3
        <5> QED
          BY <1>0, <4>1, <5>1 DEF InOrder
      <4>4. CASE i = n + 1
        <5>1. s[i] = c
          BY <2>2, <3>0, <4>4
        <5> QED
          BY <1>0, <4>1, <4>2, <5>1
      <4>5. CASE i > n + 1
        <5>1. i - 1 \in 1..Len(tl) /\ i - 1 < j - 1 /\ s[i] = tl[i - 1]
          BY <1>0, <2>1, <2>2, <2>6, <3>0, <4>5
        <5> QED
          BY <1>0, <4>1, <5>1 DEF InOrder
      <4> QED
        BY <3>0, <4>3, <4>4, <4>5
    <3> QED
      BY <3>0, <3>1, <3>2, <3>3
  <2>7. {s[i] : i \in DOMAIN s} \subseteq {tl[i] : i \in DOMAIN tl} \cup {c}
    <3> SUFFICES ASSUME NEW i \in DOMAIN s
                 PROVE  s[i] \in {tl[j] : j \in DOMAIN tl} \cup {c}
      OBVIOUS
    <3>1. i \in 1..(Len(tl) + 1) /\ n \in Nat
      BY <2>1, <2>4
    <3>2. \/ s[i] = c
          \/ i \in DOMAIN tl /\ s[i] = tl[i]
          \/ i - 1 \in DOMAIN tl /\ s[i] = tl[i - 1]
      BY <1>0, <2>1, <2>2, <3>1
    <3> QED
      BY <3>2
  <2>8. ASSUME NEW i \in DOMAIN tl PROVE tl[i] \in {s[j] : j \in DOMAIN s}
    <3>1. i \in 1..Len(tl) /\ n \in Nat /\ i \in DOMAIN s /\ i + 1 \in DOMAIN s
      BY <1>0, <2>1, <2>4
    <3>2. s[i] = tl[i] \/ s[i + 1] = tl[i]
      BY <1>0, <2>2, <3>1
    <3> QED
      BY <3>1, <3>2
  <2>9. c \in {s[j] : j \in DOMAIN s}
    <3>1. n + 1 \in DOMAIN s /\ s[n + 1] = c
      BY <1>0, <2>1, <2>2, <2>4
    <3> QED
      BY <3>1
  <2>10. {s[i] : i \in DOMAIN s} = {tl[i] : i \in DOMAIN tl} \cup {c}
    BY <2>7, <2>8, <2>9
  <2>11. InOrder(s)
    BY <2>6 DEF InOrder
  <2> QED
    BY <2>2, <2>3, <2>10, <2>11
<1> QED
  BY <1>1, <1>2

-----------------------------------------------------------------------------
(* What a set of changes says of a time, and what a timeline in order says.*)
LEMMA LatestExists ==
  ASSUME NEW E \in SUBSET Change, E # {}
  PROVE  Latest(E) \in E /\ \A o \in E : o.at <= Latest(E).at
<1>0. \A o \in E : o.at \in Nat /\ o.at \in 0..MaxTime
  BY OmpAssumption DEF Change, Time
<1> DEFINE S == {o.at : o \in E}
<1>1. S \in SUBSET (0..MaxTime) /\ S # {}
  BY <1>0
<1>2. PICK m \in S : \A i \in S : m >= i
  <2> HIDE DEF S
  <2> QED
    BY <1>1, OmpAssumption, GreatestOfBounded
<1>3. PICK e \in E : e.at = m
  OBVIOUS
<1>4. \A o \in E : o.at <= e.at
  BY <1>0, <1>2, <1>3
<1> QED
  BY <1>4 DEF Latest

LEMMA LatestIs ==
  ASSUME NEW E \in SUBSET Change, NEW e \in E,
         \A o \in E : o.at <= e.at, \A o \in E : o.at = e.at => o = e
  PROVE  Latest(E) = e
<1>1. Latest(E) \in E /\ \A o \in E : o.at <= Latest(E).at
  BY LatestExists
<1>2. \A o \in E : o.at \in Nat
  BY DEF Change, Time
<1>3. Latest(E).at = e.at
  BY <1>1, <1>2
<1> QED
  BY <1>1, <1>3

LEMMA TimelineFacts ==
  ASSUME timeline \in Seq(Change)
  PROVE  /\ Len(timeline) \in Nat /\ DOMAIN timeline = 1..Len(timeline)
         /\ \A i \in 1..Len(timeline) :
              timeline[i] \in Change /\ timeline[i].at \in Nat /\ timeline[i] \in Noticed
         /\ Noticed \in SUBSET Change
<1>1. \A i \in 1..Len(timeline) : timeline[i] \in Change
  BY ElementOfSeq
<1>2. Len(timeline) \in Nat /\ DOMAIN timeline = 1..Len(timeline)
  BY LenProperties
<1> QED
  BY <1>1, <1>2 DEF Noticed, Change, Time

(* What the timeline holds of the time before one of its changes.          *)
LEMMA OlderIs ==
  ASSUME timeline \in Seq(Change), InOrder(timeline), NEW n \in 1..Len(timeline)
  PROVE  /\ n = 1 => {o \in Noticed : o.at < timeline[n].at} = {}
         /\ n > 1 => /\ {o \in Noticed : o.at < timeline[n].at} # {}
                     /\ Latest({o \in Noticed : o.at < timeline[n].at}) = timeline[n - 1]
<1> DEFINE older == {o \in Noticed : o.at < timeline[n].at}
<1>0. /\ Len(timeline) \in Nat /\ DOMAIN timeline = 1..Len(timeline) /\ n \in Nat
      /\ \A i \in 1..Len(timeline) : timeline[i] \in Change /\ timeline[i].at \in Nat
      /\ older \in SUBSET Change
  BY TimelineFacts
<1>1. ASSUME NEW i \in 1..Len(timeline), timeline[i].at < timeline[n].at PROVE i < n
  <2>1. ~(n < i) /\ n # i
    BY <1>0, <1>1 DEF InOrder
  <2> QED
    BY <1>0, <2>1
<1>2. CASE n = 1
  BY <1>0, <1>1, <1>2 DEF Noticed
<1>3. CASE n > 1
  <2>0. n - 1 \in 1..Len(timeline) /\ n - 1 < n
    BY <1>0, <1>3
  <2>1. timeline[n - 1] \in older
    BY <1>0, <2>0 DEF InOrder, Noticed
  <2>2. ASSUME NEW o \in older
        PROVE  o.at <= timeline[n - 1].at /\ (o.at = timeline[n - 1].at => o = timeline[n - 1])
    <3>1. PICK i \in 1..Len(timeline) : o = timeline[i]
      BY <1>0 DEF Noticed
    <3>2. i < n
      BY <1>1, <3>1
    <3>3. i = n - 1 \/ i < n - 1
      BY <1>0, <3>2
    <3>4. CASE i < n - 1
      <4>1. timeline[i].at < timeline[n - 1].at
        BY <1>0, <2>0, <3>4 DEF InOrder
      <4>2. timeline[i].at \in Nat /\ timeline[n - 1].at \in Nat
        BY <1>0, <2>0
      <4> QED
        BY <3>1, <4>1, <4>2
    <3>5. timeline[n - 1].at \in Nat
      BY <1>0, <2>0
    <3> QED
      BY <3>1, <3>3, <3>4, <3>5
  <2> HIDE DEF older
  <2>3. Latest(older) = timeline[n - 1]
    BY <1>0, <2>1, <2>2, LatestIs
  <2> QED
    BY <1>3, <2>1, <2>3 DEF older
<1> QED
  BY <1>0, <1>2, <1>3

(* What resolve finds is the last of the changes by then, and a pin.       *)
LEMMA ResolvedPin ==
  ASSUME timeline \in Seq(Change), InOrder(timeline), NEW t \in Nat,
         Resolve(timeline, t) # Nobody
  PROVE  LET n == Upto(timeline, t) IN
         /\ n \in 1..Len(timeline) /\ timeline[n].kind = "pin" /\ timeline[n].at <= t
         /\ \A o \in Noticed : o.at <= t => o.at <= timeline[n].at
         /\ Resolve(timeline, t) =
              [account |-> Account(timeline[n].cred), reason |-> Derived(timeline, n)]
<1> DEFINE n == Upto(timeline, t)
<1>0. /\ Len(timeline) \in Nat /\ DOMAIN timeline = 1..Len(timeline)
      /\ \A i \in 1..Len(timeline) : timeline[i].at \in Nat
  BY TimelineFacts
<1>1. n \in 0..Len(timeline) /\ \A i \in 1..Len(timeline) : i <= n <=> timeline[i].at <= t
  BY UptoIs
<1>2. /\ n # 0
      /\ ~\E i \in n..Len(timeline) : IF i = n THEN timeline[i].kind # "pin"
                                     ELSE timeline[i].kind = "store-replaced"
      /\ Resolve(timeline, t) =
           [account |-> Account(timeline[n].cred), reason |-> Derived(timeline, n)]
  BY DEF Resolve
<1> HIDE DEF n
<1>3. n \in 1..Len(timeline) /\ n \in n..Len(timeline)
  BY <1>0, <1>1, <1>2
<1>4. timeline[n].kind = "pin" /\ timeline[n].at <= t
  <2>1. n <= n
    BY <1>3
  <2> QED
    BY <1>1, <1>2, <1>3, <2>1
<1>5. ASSUME NEW o \in Noticed, o.at <= t PROVE o.at <= timeline[n].at
  <2>1. PICK i \in 1..Len(timeline) : o = timeline[i]
    BY <1>0 DEF Noticed
  <2>2. i <= n /\ i \in Nat /\ n \in Nat
    BY <1>1, <1>3, <1>5, <2>1
  <2>3. i = n \/ timeline[i].at < timeline[n].at
    BY <1>0, <1>3, <2>2 DEF InOrder
  <2>4. timeline[i].at \in Nat /\ timeline[n].at \in Nat
    BY <1>0, <1>3
  <2> QED
    BY <2>1, <2>3, <2>4
<1> QED
  BY <1>2, <1>3, <1>4, <1>5 DEF n

(* A timeline in order says what the set of its changes says, while the    *)
(* credential is known.                                                    *)
LEMMA ResolveProven ==
  ASSUME timeline \in Seq(Change), InOrder(timeline), NEW t \in Nat,
         known \subseteq catalog, known \subseteq Cred, Proven(Noticed, t)
  PROVE  Resolve(timeline, t) = Binding(Noticed, t) /\ Resolve(timeline, t).account # None
<1> DEFINE n == Upto(timeline, t)
           past == Before(Noticed, t)
<1>0. /\ Len(timeline) \in Nat /\ DOMAIN timeline = 1..Len(timeline)
      /\ \A i \in 1..Len(timeline) :
           timeline[i] \in Change /\ timeline[i].at \in Nat /\ timeline[i] \in Noticed
      /\ Noticed \in SUBSET Change /\ past \in SUBSET Change
  BY TimelineFacts DEF Before
<1>1. n \in 0..Len(timeline) /\ \A i \in 1..Len(timeline) : i <= n <=> timeline[i].at <= t
  BY UptoIs
<1>2. past # {} /\ Latest(past).cred \in known
      /\ \A e \in Noticed \ past : e.kind # "store-replaced"
  BY DEF Proven
<1> HIDE DEF n
<1>3. n \in 1..Len(timeline)
  <2>1. PICK o \in past : TRUE
    BY <1>2
  <2>2. PICK i \in 1..Len(timeline) : o = timeline[i]
    BY <1>0 DEF Noticed, Before
  <2>3. timeline[i].at <= t
    BY <2>2 DEF Before
  <2>4. i <= n
    BY <1>1, <2>3
  <2> QED
    BY <1>0, <1>1, <2>4
<1>4. timeline[n] \in past /\ timeline[n].at <= t
  <2>1. n <= n
    BY <1>3
  <2> QED
    BY <1>0, <1>1, <1>3, <2>1 DEF Before
<1>5. ASSUME NEW o \in past
      PROVE  o.at <= timeline[n].at /\ (o.at = timeline[n].at => o = timeline[n])
  <2>1. PICK i \in 1..Len(timeline) : o = timeline[i]
    BY <1>0 DEF Noticed, Before
  <2>2. i <= n /\ i \in Nat /\ n \in Nat
    BY <1>1, <1>3, <2>1 DEF Before
  <2>3. i = n \/ timeline[i].at < timeline[n].at
    BY <1>0, <1>3, <2>2 DEF InOrder
  <2>4. timeline[i].at \in Nat /\ timeline[n].at \in Nat
    BY <1>0, <1>3
  <2> QED
    BY <2>1, <2>3, <2>4
<1>6. Latest(past) = timeline[n]
  <2> HIDE DEF past
  <2> QED
    BY <1>0, <1>4, <1>5, LatestIs
<1>7. timeline[n].cred \in known /\ timeline[n].kind = "pin"
  <2>1. timeline[n].cred \in known /\ timeline[n].cred # None
    BY <1>2, <1>6, OmpAssumption
  <2> QED
    BY <1>0, <1>3, <2>1 DEF Change
<1>8. ASSUME NEW i \in n..Len(timeline), i # n PROVE timeline[i].kind # "store-replaced"
  <2>1. i \in 1..Len(timeline) /\ ~(i <= n)
    BY <1>0, <1>3, <1>8
  <2>2. timeline[i] \in Noticed \ past
    BY <1>0, <1>1, <2>1 DEF Before
  <2> QED
    BY <1>2, <2>2
<1>9. Resolve(timeline, t) =
        [account |-> Account(timeline[n].cred), reason |-> Derived(timeline, n)]
  <2>1. n # 0
    BY <1>3
  <2> QED
    BY <1>7, <1>8, <2>1 DEF Resolve, n
<1>10. Account(timeline[n].cred) = timeline[n].cred
  BY <1>7 DEF Account
<1>11. Derived(timeline, n) = Why(Noticed, timeline[n])
  <2> DEFINE older == {o \in Noticed : o.at < timeline[n].at}
  <2>1. n = 1 => older = {}
    BY <1>3, OlderIs
  <2>2. n > 1 => older # {} /\ Latest(older) = timeline[n - 1]
    BY <1>3, OlderIs
  <2>3. Why(Noticed, timeline[n]) =
          IF older = {} THEN "initial"
          ELSE IF Latest(older).kind # "pin" THEN Latest(older).kind
          ELSE IF Latest(older).cred # timeline[n].cred THEN "usage-ranking" ELSE "initial"
    BY DEF Why
  <2> HIDE DEF older
  <2>4. CASE n = 1
    BY <2>1, <2>3, <2>4 DEF Derived
  <2>5. CASE n > 1
    <3>1. n # 1 /\ ~(n > 1 /\ FALSE)
      BY <1>3, <2>5
    <3>2. Derived(timeline, n) =
            IF timeline[n - 1].kind # "pin" THEN timeline[n - 1].kind
            ELSE IF timeline[n - 1].cred # timeline[n].cred THEN "usage-ranking" ELSE "initial"
      BY <2>5, <3>1 DEF Derived
    <3> QED
      BY <2>2, <2>3, <2>5, <3>2
  <2> QED
    BY <1>3, <2>4, <2>5
<1>12. Binding(Noticed, t) = [account |-> timeline[n].cred, reason |-> Why(Noticed, timeline[n])]
  BY <1>6 DEF Binding
<1>13. timeline[n].cred # None
  BY <1>7, OmpAssumption
<1> QED
  BY <1>9, <1>10, <1>11, <1>12, <1>13

-----------------------------------------------------------------------------
(* Types.                                                                  *)
LEMMA ResolveTyped ==
  ASSUME timeline \in Seq(Change), InOrder(timeline), NEW t \in Nat, catalog \subseteq Cred
  PROVE  Resolve(timeline, t) \in Identity
<1>1. CASE Resolve(timeline, t) = Nobody
  BY <1>1 DEF Nobody, Identity, Reason
<1>2. CASE Resolve(timeline, t) # Nobody
  <2> DEFINE n == Upto(timeline, t)
  <2>1. /\ n \in 1..Len(timeline)
        /\ Resolve(timeline, t) =
             [account |-> Account(timeline[n].cred), reason |-> Derived(timeline, n)]
    BY <1>2, ResolvedPin
  <2> HIDE DEF n
  <2>2. Account(timeline[n].cred) \in Cred \cup {None}
    BY DEF Account
  <2>3. Derived(timeline, n) \in Reason
    <3>1. CASE n = 1
      BY <3>1 DEF Derived, Reason
    <3>2. CASE n > 1
      <4>1. n # 1 /\ n - 1 \in 1..Len(timeline)
        BY <2>1, <3>2, TimelineFacts
      <4>2. timeline[n - 1] \in Change
        BY <4>1, TimelineFacts
      <4>3. Derived(timeline, n) =
              IF timeline[n - 1].kind # "pin" THEN timeline[n - 1].kind
              ELSE IF timeline[n - 1].cred # timeline[n].cred THEN "usage-ranking"
              ELSE "initial"
        BY <3>2, <4>1 DEF Derived
      <4> QED
        BY <4>2, <4>3 DEF Change, Reason
    <3> QED
      BY <2>1, <3>1, <3>2, TimelineFacts
  <2> QED
    BY <2>1, <2>2, <2>3 DEF Identity
<1> QED
  BY <1>1, <1>2

LEMMA LogFacts ==
  ASSUME TypeOK
  PROVE  \A f \in File :
           /\ Len(log[f]) \in Nat /\ DOMAIN log[f] = 1..Len(log[f])
           /\ \A i \in 1..Len(log[f]) : log[f][i] \in Change \cup Request
<1> TAKE f \in File
<1>1. log[f] \in Seq(Change \cup Request)
  BY DEF TypeOK
<1>2. Len(log[f]) \in Nat /\ DOMAIN log[f] = 1..Len(log[f])
  BY <1>1, LenProperties
<1>3. \A i \in 1..Len(log[f]) : log[f][i] \in Change \cup Request
  BY <1>1, ElementOfSeq
<1> QED
  BY <1>2, <1>3

LEMMA ChangesAre ==
  ASSUME TypeOK
  PROVE  /\ Changes \in SUBSET Change
         /\ \A c \in Changes : \E f \in File : \E i \in 1..Len(log[f]) : log[f][i] = c
         /\ \A f \in File : \A i \in 1..Len(log[f]) :
              log[f][i].kind # "request" => log[f][i] \in Changes
<1>1. \A c \in Changes : \E f \in File : \E i \in 1..Len(log[f]) : log[f][i] = c
  BY LogFacts DEF Changes, Written, ToSet
<1>2. \A f \in File : \A i \in 1..Len(log[f]) :
        log[f][i].kind # "request" => log[f][i] \in Changes
  BY LogFacts DEF Changes, Written, ToSet
<1>3. ASSUME NEW c \in Changes PROVE c \in Change
  <2>1. c \in Change \cup Request /\ c.kind # "request"
    BY <1>1, LogFacts DEF Changes
  <2> QED
    BY <2>1 DEF Request
<1> QED
  BY <1>1, <1>2, <1>3

LEMMA ReachedFits ==
  ASSUME TypeOK
  PROVE  \A f \in File : Reached(f) \in Nat /\ Reached(f) <= Len(log[f])
BY LogFacts DEF TypeOK, Reached

LEMMA NoticedAreChanges ==
  ASSUME TypeOK, NoticedInv
  PROVE  Noticed \in SUBSET Changes
<1> SUFFICES ASSUME NEW c \in Noticed PROVE c \in Changes
  OBVIOUS
<1>1. PICK f \in File : \E i \in 1..Reached(f) : log[f][i] = c
  BY DEF NoticedInv
<1>2. PICK i \in 1..Reached(f) : log[f][i] = c
  BY <1>1
<1>3. i \in 1..Len(log[f])
  BY <1>2, ReachedFits, LogFacts
<1>4. c \in Change
  BY TimelineFacts DEF TypeOK
<1> QED
  BY <1>2, <1>3, <1>4, ChangesAre DEF Change, Release

LEMMA OmpInitial == Init => OmpInv
<1> SUFFICES ASSUME Init PROVE OmpInv
  OBVIOUS
<1>1. \A f \in File : log[f] = <<>> /\ Len(log[f]) = 0 /\ pos[f] = 0 /\ saved[f] = 0
  BY DEF Init, Idle, Start
<1>2. timeline = <<>> /\ timeline \in Seq(Change) /\ Noticed = {}
  BY DEF Init, Forgotten, Noticed
<1>3. TypeOK
  <2>1. log \in [File -> Seq(Change \cup Request)]
    BY DEF Init
  <2>2. rows \subseteq Row /\ batch \subseteq Row /\ todo \subseteq File /\ seeded \subseteq File
    BY DEF Init, Idle, Forgotten
  <2>3. saved \in [File -> Nat] /\ pos \in [File -> Nat]
    BY DEF Init, Idle, Start
  <2>4. known \subseteq Cred /\ catalog \subseteq Cred
        /\ pc \in {"new", "idle", "seed", "read", "insert", "reconcile", "save", "done"}
    BY DEF Init, Idle
  <2>5. dirty \in BOOLEAN
    BY DEF Init, Forgotten
  <2> QED
    BY <1>1, <1>2, <2>1, <2>2, <2>3, <2>4, <2>5 DEF TypeOK
<1>4. OneAtATime
  BY <1>1, <1>3, ChangesAre DEF OneAtATime
<1>5. InOrder(timeline)
  BY <1>2 DEF InOrder
<1>6. PassInv
  BY DEF PassInv, Init, Idle, Forgotten, InRound, PastRead
<1>7. NoticedInv
  BY <1>2 DEF NoticedInv, Init, Forgotten, InRound
<1>8. SettledInv
  BY DEF SettledInv, Init
<1> QED
  BY <1>3, <1>4, <1>5, <1>6, <1>7, <1>8 DEF OmpInv

-----------------------------------------------------------------------------
(* The side of omp and its observer.                                       *)
LEMMA Wrote ==
  ASSUME TypeOK, NEW f \in File, NEW line \in Change \cup Request, Write(f, line)
  PROVE  /\ log' \in [File -> Seq(Change \cup Request)]
         /\ \A g \in File :
              /\ Len(log'[g]) \in Nat /\ Len(log[g]) \in Nat /\ Len(log[g]) <= Len(log'[g])
              /\ \A i \in 1..Len(log[g]) : i \in 1..Len(log'[g]) /\ log'[g][i] = log[g][i]
              /\ \A i \in 1..Len(log'[g]) :
                   \/ i \in 1..Len(log[g])
                   \/ g = f /\ i = Len(log[f]) + 1 /\ log'[g][i] = line
         /\ Changes \subseteq Changes' /\ Changes' \subseteq Changes \cup {line}
         /\ line.kind = "request" => Changes' = Changes
<1>1. log' = [log EXCEPT ![f] = Append(@, line)]
  BY DEF Write
<1>2. log[f] \in Seq(Change \cup Request)
  BY DEF TypeOK
<1>3. /\ Append(log[f], line) \in Seq(Change \cup Request)
      /\ Len(Append(log[f], line)) = Len(log[f]) + 1
      /\ \A i \in 1..Len(log[f]) : Append(log[f], line)[i] = log[f][i]
      /\ Append(log[f], line)[Len(log[f]) + 1] = line
  BY <1>2, AppendProperties
<1>4. log' \in [File -> Seq(Change \cup Request)]
  BY <1>1, <1>3 DEF TypeOK
<1>5. ASSUME NEW g \in File
      PROVE  /\ Len(log'[g]) \in Nat /\ Len(log[g]) \in Nat /\ Len(log[g]) <= Len(log'[g])
             /\ \A i \in 1..Len(log[g]) : i \in 1..Len(log'[g]) /\ log'[g][i] = log[g][i]
             /\ \A i \in 1..Len(log'[g]) :
                  \/ i \in 1..Len(log[g])
                  \/ g = f /\ i = Len(log[f]) + 1 /\ log'[g][i] = line
  <2>0. Len(log[g]) \in Nat /\ Len(log[f]) \in Nat
    BY LogFacts
  <2>1. CASE g = f
    <3>1. log'[g] = Append(log[f], line)
      BY <1>1, <2>1 DEF TypeOK
    <3> HIDE DEF TypeOK
    <3>2. Len(log'[g]) = Len(log[g]) + 1
      BY <1>3, <2>1, <3>1
    <3>3. \A i \in 1..Len(log[g]) : log'[g][i] = log[g][i]
      BY <1>3, <2>1, <3>1
    <3>4. log'[g][Len(log[f]) + 1] = line
      BY <1>3, <3>1
    <3> QED
      BY <2>0, <2>1, <3>2, <3>3, <3>4
  <2>2. CASE g # f
    <3>1. log'[g] = log[g]
      BY <1>1, <2>2 DEF TypeOK
    <3> QED
      BY <2>0, <3>1
  <2> QED
    BY <2>1, <2>2
<1>6. /\ \A c \in Changes : \E g \in File : \E i \in 1..Len(log[g]) : log[g][i] = c
      /\ \A c \in Changes : c.kind # "request"
      /\ \A g \in File : \A i \in 1..Len(log[g]) :
           log[g][i].kind # "request" => log[g][i] \in Changes
  BY ChangesAre DEF Changes
<1>7. \A g \in File : DOMAIN log'[g] = 1..Len(log'[g])
  BY <1>4, LenProperties
<1>8. Changes' = {l \in UNION {{log'[g][i] : i \in 1..Len(log'[g])} : g \in File} :
                    l.kind # "request"}
  BY <1>7 DEF Changes, Written, ToSet
<1>9. ASSUME NEW c \in Changes PROVE c \in Changes'
  <2>1. PICK g \in File : \E i \in 1..Len(log[g]) : log[g][i] = c
    BY <1>6
  <2>2. PICK i \in 1..Len(log[g]) : log[g][i] = c
    BY <2>1
  <2>3. i \in 1..Len(log'[g]) /\ log'[g][i] = c
    BY <1>5, <2>2
  <2> QED
    BY <1>6, <1>8, <2>3
<1>10. ASSUME NEW c \in Changes' PROVE c \in Changes \/ (c = line /\ line.kind # "request")
  <2>0. c.kind # "request"
    BY <1>8
  <2>1. PICK g \in File : \E i \in 1..Len(log'[g]) : log'[g][i] = c
    BY <1>8
  <2>2. PICK i \in 1..Len(log'[g]) : log'[g][i] = c
    BY <2>1
  <2>3. CASE i \in 1..Len(log[g])
    BY <1>5, <1>6, <2>0, <2>2, <2>3
  <2>4. CASE log'[g][i] = line
    BY <2>0, <2>2, <2>4
  <2> QED
    BY <1>5, <2>3, <2>4
<1> QED
  BY <1>4, <1>5, <1>9, <1>10

LEMMA WriteStep ==
  ASSUME OmpInv, NEW f \in File, NEW line \in Change \cup Request, Write(f, line),
         line.kind # "request" => \A c \in Changes : c.at # line.at
  PROVE  OmpInv'
<1>0. /\ TypeOK /\ OneAtATime /\ InOrder(timeline) /\ PassInv /\ NoticedInv /\ SettledInv
      /\ UNCHANGED <<known, rows, saved, pc, todo, pos, batch, catalog>>
      /\ UNCHANGED <<timeline, seeded, dirty>>
  BY DEF OmpInv, Write, db, round, memory
<1>1. /\ log' \in [File -> Seq(Change \cup Request)]
      /\ \A g \in File :
           /\ Len(log'[g]) \in Nat /\ Len(log[g]) \in Nat /\ Len(log[g]) <= Len(log'[g])
           /\ \A i \in 1..Len(log[g]) : i \in 1..Len(log'[g]) /\ log'[g][i] = log[g][i]
      /\ Changes' \subseteq Changes \cup {line}
      /\ line.kind = "request" => Changes' = Changes
  BY <1>0, Wrote
<1>2. Noticed' = Noticed
  BY <1>0 DEF Noticed
<1>3. TypeOK'
  <2>1. \A g \in File : pos[g] <= Len(log'[g]) /\ saved[g] <= Len(log'[g])
    BY <1>0, <1>1 DEF TypeOK
  <2> QED
    BY <1>0, <1>1, <2>1 DEF TypeOK
<1>4. OneAtATime'
  BY <1>0, <1>1 DEF OneAtATime
<1>5. InOrder(timeline')
  BY <1>0
<1>6. PassInv'
  BY <1>0 DEF PassInv, InRound, PastRead
<1>7. NoticedInv'
  <2>1. ASSUME NEW g \in File, NEW n \in Nat, n <= Len(log[g]), NoticedUpto(g, n)
        PROVE  NoticedUpto(g, n)'
    BY <1>1, <1>2, <2>1 DEF NoticedUpto
  <2>2. \A g \in File : pos[g] \in Nat /\ pos[g] <= Len(log[g])
                        /\ saved[g] \in Nat /\ saved[g] <= Len(log[g])
    BY <1>0 DEF TypeOK
  <2>3. seeded' = seeded /\ seeded \subseteq File /\ saved' = saved /\ pos' = pos
        /\ (InRound' <=> InRound)
    BY <1>0 DEF TypeOK, InRound
  <2>4. \A g \in seeded' : NoticedUpto(g, saved[g])'
    BY <1>0, <2>1, <2>2, <2>3 DEF NoticedInv
  <2>5. InRound' => \A g \in File : NoticedUpto(g, pos[g])'
    BY <1>0, <2>1, <2>2, <2>3 DEF NoticedInv
  <2>6. ASSUME NEW g \in File PROVE Reached(g)' \in Nat /\ Reached(g) <= Reached(g)'
    BY <1>0, <1>1, <2>2 DEF Reached, PastRead
  <2>7. ASSUME NEW c \in Noticed
        PROVE  \E g \in File : \E i \in 1..Reached(g)' : log'[g][i] = c
    <3>1. PICK g \in File : \E i \in 1..Reached(g) : log[g][i] = c
      BY <1>0 DEF NoticedInv
    <3>2. PICK i \in 1..Reached(g) : log[g][i] = c
      BY <3>1
    <3>3. i \in 1..Len(log[g]) /\ i \in 1..Reached(g)'
      BY <1>0, <2>6, <3>2, ReachedFits, LogFacts
    <3>4. log'[g][i] = c
      BY <1>1, <3>2, <3>3
    <3> QED
      BY <3>3, <3>4
  <2> QED
    BY <1>2, <2>4, <2>5, <2>7 DEF NoticedInv
<1>8. SettledInv'
  BY <1>0, <1>2 DEF SettledInv, Settled, Proven
<1> QED
  BY <1>3, <1>4, <1>5, <1>6, <1>7, <1>8 DEF OmpInv

LEMMA SessionStep ==
  ASSUME OmpInv, SessionGoesOn
  PROVE  OmpInv'
<1>1. PICK t \in Time :
        \/ \E f \in File : \/ \E c \in Cred : WritePin(f, c, t)
                           \/ \E k \in Release : WriteRelease(f, k, t)
        \/ WriteRequest(t)
  BY DEF SessionGoesOn
<1>2. ASSUME NEW f \in File, NEW c \in Cred, WritePin(f, c, t) PROVE OmpInv'
  <2> DEFINE line == [kind |-> "pin", cred |-> c, at |-> t]
  <2>1. line \in Change
    BY DEF Change
  <2>2. Write(f, line) /\ \A d \in Changes : d.at # line.at
    BY <1>2 DEF WritePin, WriteChange
  <2> HIDE DEF line
  <2> QED
    BY <2>1, <2>2, WriteStep
<1>3. ASSUME NEW f \in File, NEW k \in Release, WriteRelease(f, k, t) PROVE OmpInv'
  <2> DEFINE line == [kind |-> k, cred |-> None, at |-> t]
  <2>1. line \in Change
    BY DEF Change
  <2>2. Write(f, line) /\ \A d \in Changes : d.at # line.at
    BY <1>3 DEF WriteRelease, WriteChange
  <2> HIDE DEF line
  <2> QED
    BY <2>1, <2>2, WriteStep
<1>4. CASE WriteRequest(t)
  <2> DEFINE line == [kind |-> "request", cred |-> None, at |-> t]
  <2>1. line \in Request /\ line.kind = "request" /\ Own \in File
    BY DEF Request, File
  <2>2. Write(Own, line)
    BY <1>4 DEF WriteRequest
  <2> HIDE DEF line
  <2> QED
    BY <2>1, <2>2, WriteStep
<1> QED
  BY <1>1, <1>2, <1>3, <1>4

LEMMA RemoveCredStep ==
  ASSUME OmpInv, NEW c \in Cred, RemoveCred(c)
  PROVE  OmpInv'
<1>0. /\ TypeOK /\ OneAtATime /\ InOrder(timeline) /\ PassInv /\ NoticedInv /\ SettledInv
      /\ known' \subseteq known
      /\ UNCHANGED <<log, rows, saved, pc, todo, pos, batch, catalog>>
      /\ UNCHANGED <<timeline, seeded, dirty>>
  BY DEF OmpInv, RemoveCred, db, round, memory
<1>1. TypeOK'
  BY <1>0 DEF TypeOK
<1>2. OneAtATime' /\ InOrder(timeline')
  BY <1>0 DEF OneAtATime, Changes, Written
<1>3. PassInv'
  BY <1>0 DEF PassInv, InRound, PastRead
<1>4. Noticed' = Noticed
  BY <1>0 DEF Noticed
<1>5. NoticedInv'
  BY <1>0 DEF NoticedInv, NoticedUpto, Noticed, Reached, InRound, PastRead
<1>6. SettledInv'
  BY <1>0, <1>4 DEF SettledInv, Settled, Proven
<1> QED
  BY <1>1, <1>2, <1>3, <1>5, <1>6 DEF OmpInv

-----------------------------------------------------------------------------
(* The collector: the beginning and the end of rounds.                     *)
LEMMA SameLogs ==
  ASSUME UNCHANGED log
  PROVE  Changes' = Changes
BY DEF Changes, Written

LEMMA FirstRoundStep ==
  ASSUME OmpInv, FirstRound
  PROVE  OmpInv'
<1>0. /\ TypeOK /\ OneAtATime /\ InOrder(timeline) /\ PassInv /\ NoticedInv /\ SettledInv
      /\ pc = "new" /\ pc' = "idle"
      /\ UNCHANGED <<log, known, rows, todo, pos, batch, catalog>>
      /\ UNCHANGED <<timeline, seeded, dirty>>
  BY DEF OmpInv, FirstRound, round, memory
<1>1. saved' \in [File -> Nat] /\ \A f \in File : saved'[f] <= Len(log[f])
  <2>1. PICK old \in SUBSET File :
          saved' = [f \in File |-> IF f \in old THEN Len(log[f]) ELSE 0]
    BY DEF FirstRound
  <2>2. \A f \in File : Len(log[f]) \in Nat
    BY <1>0, LogFacts
  <2> QED
    BY <2>1, <2>2
<1>2. TypeOK'
  BY <1>0, <1>1 DEF TypeOK
<1>3. OneAtATime' /\ InOrder(timeline')
  BY <1>0, SameLogs DEF OneAtATime
<1>4. PassInv'
  BY <1>0 DEF PassInv, InRound, PastRead
<1>5. Noticed' = Noticed
  BY <1>0 DEF Noticed
<1>6. NoticedInv'
  <2>1. seeded' = {} /\ ~InRound'
    BY <1>0 DEF PassInv, InRound
  <2>2. \A f \in File : Reached(f)' = Reached(f)
    BY <1>0 DEF Reached, PastRead
  <2> QED
    BY <1>0, <1>5, <2>1, <2>2 DEF NoticedInv
<1>7. SettledInv'
  BY <1>0, <1>5 DEF SettledInv, Settled, Proven
<1> QED
  BY <1>2, <1>3, <1>4, <1>6, <1>7 DEF OmpInv

(* A round begins, or its second pass.                                     *)
LEMMA OpenedRead ==
  ASSUME TypeOK, NoticedInv, File \subseteq seeded', seeded' \subseteq File,
         \A f \in File : NoticedUpto(f, saved[f]),
         Open("read"), UNCHANGED <<log, rows, saved, timeline>>
  PROVE  /\ todo' = File /\ pos' = saved /\ pc' = "read"
         /\ NoticedInv'
<1>0. todo' = File /\ pos' = saved /\ pc' = "read" /\ seeded' = File /\ InRound'
  BY DEF Open, InRound
<1>1. Noticed' = Noticed
  BY DEF Noticed
<1>2. \A f \in File : NoticedUpto(f, saved[f])'
  BY <1>1 DEF NoticedUpto
<1>3. \A f \in File : Reached(f)' = Len(log[f])
  BY <1>0 DEF Reached, PastRead
<1>4. ASSUME NEW c \in Noticed PROVE \E f \in File : \E i \in 1..Reached(f)' : log'[f][i] = c
  <2>1. PICK f \in File : \E i \in 1..Reached(f) : log[f][i] = c
    BY DEF NoticedInv
  <2>2. PICK i \in 1..Reached(f) : log[f][i] = c
    BY <2>1
  <2>3. i \in 1..Reached(f)'
    BY <1>3, <2>2, ReachedFits, LogFacts
  <2> QED
    BY <2>2, <2>3
<1>5. \A f \in File : NoticedUpto(f, pos[f])'
  BY <1>0, <1>2
<1> QED
  BY <1>0, <1>1, <1>2, <1>4, <1>5 DEF NoticedInv

LEMMA BeginRoundStep ==
  ASSUME OmpInv, BeginRound
  PROVE  OmpInv'
<1>0. /\ TypeOK /\ OneAtATime /\ InOrder(timeline) /\ PassInv /\ NoticedInv /\ SettledInv
      /\ pc \in {"idle", "done"} /\ catalog' = known
      /\ UNCHANGED <<log, known, rows, saved, batch>>
      /\ UNCHANGED <<timeline, seeded, dirty>>
  BY DEF OmpInv, BeginRound, LoadCatalog, db, memory
<1>1. OneAtATime' /\ InOrder(timeline')
  BY <1>0, SameLogs DEF OneAtATime
<1>2. Noticed' = Noticed /\ batch = {} /\ seeded \subseteq File
  BY <1>0 DEF Noticed, PassInv, TypeOK
<1>3. SettledInv'
  BY <1>0, <1>2 DEF SettledInv, Settled, Proven
<1>4. CASE File \subseteq seeded
  <2>1. Open("read") /\ seeded = File
    BY <1>2, <1>4 DEF BeginRound
  <2>2. \A f \in File : NoticedUpto(f, saved[f])
    BY <1>0, <2>1 DEF NoticedInv
  <2>3. todo' = File /\ pos' = saved /\ pc' = "read" /\ NoticedInv'
    BY <1>0, <2>1, <2>2, OpenedRead
  <2>4. TypeOK'
    BY <1>0, <2>3 DEF TypeOK
  <2>5. PassInv'
    <3>1. \A f \in File : saved[f] <= saved[f]
      BY <1>0 DEF TypeOK
    <3> QED
      BY <1>0, <2>1, <2>3, <3>1 DEF PassInv, InRound, PastRead
  <2> QED
    BY <1>1, <1>3, <2>3, <2>4, <2>5 DEF OmpInv
<1>5. CASE ~(File \subseteq seeded)
  <2>1. pc' = "seed" /\ todo' = File \ seeded /\ pos' = [f \in File |-> 0]
    BY <1>5 DEF BeginRound, Open, SeedStart, Start
  <2>2. TypeOK'
    <3>1. \A f \in File : pos'[f] <= Len(log'[f])
      BY <1>0, <2>1, LogFacts
    <3>2. pos' \in [File -> Nat]
      BY <2>1
    <3> QED
      BY <1>0, <2>1, <3>1, <3>2 DEF TypeOK
  <2>3. PassInv'
    BY <1>0, <1>2, <2>1 DEF PassInv, InRound, PastRead
  <2>4. NoticedInv'
    <3>1. \A f \in seeded' : NoticedUpto(f, saved[f])'
      BY <1>0, <1>2 DEF NoticedInv, NoticedUpto
    <3>2. \A f \in File : NoticedUpto(f, pos[f])'
      BY <2>1 DEF NoticedUpto
    <3>3. \A f \in File : Reached(f)' = Len(log[f])
      BY <1>0, <2>1 DEF Reached, PastRead
    <3>4. ASSUME NEW c \in Noticed
          PROVE  \E f \in File : \E i \in 1..Reached(f)' : log'[f][i] = c
      <4>1. PICK f \in File : \E i \in 1..Reached(f) : log[f][i] = c
        BY <1>0 DEF NoticedInv
      <4>2. PICK i \in 1..Reached(f) : log[f][i] = c
        BY <4>1
      <4>3. i \in 1..Reached(f)'
        BY <1>0, <3>3, <4>2, ReachedFits, LogFacts
      <4> QED
        BY <1>0, <4>2, <4>3
    <3> QED
      BY <1>2, <3>1, <3>2, <3>4 DEF NoticedInv
  <2> QED
    BY <1>1, <1>3, <2>2, <2>3, <2>4 DEF OmpInv
<1> QED
  BY <1>4, <1>5

-----------------------------------------------------------------------------
(* The collector: its passes over the files.                               *)

(* A line is noted: what observe adds is a change of the logs.             *)
LEMMA NotedIs ==
  ASSUME OmpInv, NEW f \in File, NEW i \in 1..Len(log[f]),
         timeline' = Noted(timeline, log[f][i])
  PROVE  /\ timeline' \in Seq(Change) /\ InOrder(timeline')
         /\ Noticed \subseteq Noticed' /\ Noticed' \subseteq Noticed \cup {log[f][i]}
         /\ log[f][i].kind # "request" => log[f][i] \in Noticed'
         /\ log[f][i].kind = "request" => timeline' = timeline
<1>0. TypeOK /\ OneAtATime /\ InOrder(timeline) /\ NoticedInv /\ timeline \in Seq(Change)
  BY DEF OmpInv, TypeOK
<1> DEFINE c == log[f][i]
<1>1. CASE c.kind = "request"
  BY <1>0, <1>1 DEF Noted, Noticed
<1>2. CASE c.kind # "request"
  <2>1. c \in Changes /\ c \in Change
    BY <1>0, <1>2, ChangesAre
  <2>2. \A j \in DOMAIN timeline : timeline[j].at = c.at => timeline[j] = c
    BY <1>0, <2>1, NoticedAreChanges DEF OneAtATime, Noticed
  <2>3. timeline' = Observed(timeline, c)
    BY <1>2 DEF Noted
  <2> HIDE DEF c
  <2> DEFINE next == Observed(timeline, c)
  <2>4. /\ next \in Seq(Change) /\ InOrder(next)
        /\ {next[j] : j \in DOMAIN next} = {timeline[j] : j \in DOMAIN timeline} \cup {c}
    BY <1>0, <2>1, <2>2, ObservedIs
  <2> HIDE DEF next
  <2>5. /\ timeline' \in Seq(Change) /\ InOrder(timeline')
        /\ {timeline'[j] : j \in DOMAIN timeline'} = {timeline[j] : j \in DOMAIN timeline} \cup {c}
    <3>1. timeline' = next
      BY <2>3 DEF next
    <3> QED
      BY <2>4, <3>1
  <2>6. Noticed' = Noticed \cup {c}
    BY <2>5 DEF Noticed
  <2> QED
    BY <1>2, <2>5, <2>6 DEF c
<1> QED
  BY <1>1, <1>2

(* What reading a line leaves alone of the invariant, in either pass.      *)
LEMMA NextLineStep ==
  ASSUME OmpInv, NEW f \in File, pc \in {"seed", "read"}, NextLine(f),
         UNCHANGED <<log, known, rows, saved, pc, todo, catalog, seeded>>
  PROVE  /\ pos' \in [File -> Nat] /\ \A g \in File : pos'[g] <= Len(log[g])
         /\ timeline' \in Seq(Change) /\ InOrder(timeline') /\ dirty' \in BOOLEAN
         /\ OneAtATime' /\ NoticedInv'
         /\ \A g \in File : pos[g] <= pos'[g]
         /\ (dirty' /\ timeline' # timeline)
            \/ (dirty' = dirty /\ timeline' = timeline /\ Noticed' = Noticed)
         /\ log[f][pos[f] + 1].kind = "request" => timeline' = timeline
<1>0. /\ TypeOK /\ OneAtATime /\ InOrder(timeline) /\ PassInv /\ NoticedInv
      /\ \A g \in File : pos[g] \in Nat /\ pos[g] <= Len(log[g])
                         /\ saved[g] \in Nat /\ saved[g] <= Len(log[g])
  BY DEF OmpInv, TypeOK
<1>1. /\ f \in todo /\ pos[f] < Len(log[f])
      /\ pos' = [pos EXCEPT ![f] = @ + 1]
      /\ timeline' = Noted(timeline, log[f][pos[f] + 1])
      /\ dirty' = (dirty \/ timeline' # timeline)
  BY DEF NextLine, Turn
<1> SUFFICES ASSUME NEW n \in Nat, n = pos[f]
             PROVE  /\ pos' \in [File -> Nat] /\ \A g \in File : pos'[g] <= Len(log[g])
                    /\ timeline' \in Seq(Change) /\ InOrder(timeline') /\ dirty' \in BOOLEAN
                    /\ OneAtATime' /\ NoticedInv'
                    /\ \A g \in File : pos[g] <= pos'[g]
                    /\ (dirty' /\ timeline' # timeline)
                       \/ (dirty' = dirty /\ timeline' = timeline /\ Noticed' = Noticed)
                    /\ log[f][n + 1].kind = "request" => timeline' = timeline
  BY <1>0
<1>2. n + 1 \in 1..Len(log[f])
  BY <1>0, <1>1, LogFacts
<1>3. /\ timeline' \in Seq(Change) /\ InOrder(timeline')
      /\ Noticed \subseteq Noticed' /\ Noticed' \subseteq Noticed \cup {log[f][n + 1]}
      /\ log[f][n + 1].kind # "request" => log[f][n + 1] \in Noticed'
      /\ log[f][n + 1].kind = "request" => timeline' = timeline
  BY <1>1, <1>2, NotedIs
<1>4. pos' \in [File -> Nat] /\ \A g \in File : pos'[g] = IF g = f THEN n + 1 ELSE pos[g]
  BY <1>1 DEF OmpInv, TypeOK
<1>5. \A g \in File : pos'[g] <= Len(log[g]) /\ pos[g] <= pos'[g]
  BY <1>0, <1>1, <1>4, LogFacts
<1>6. dirty' \in BOOLEAN
  BY <1>0, <1>1 DEF TypeOK
<1>7. OneAtATime'
  BY <1>0, SameLogs DEF OneAtATime
<1>8. NoticedInv'
  <2>1. \A g \in seeded' : NoticedUpto(g, saved[g])'
    <3>1. seeded' = seeded /\ saved' = saved
      OBVIOUS
    <3> QED
      BY <1>0, <1>3, <3>1 DEF NoticedInv, NoticedUpto
  <2>2. InRound /\ InRound'
    BY DEF InRound
  <2>3. ASSUME NEW g \in File PROVE NoticedUpto(g, pos[g])'
    <3>1. NoticedUpto(g, pos[g])
      BY <1>0, <2>2 DEF NoticedInv
    <3>2. SUFFICES ASSUME NEW i \in 1..pos'[g], log[g][i].kind # "request"
                   PROVE  log[g][i] \in Noticed'
      BY DEF NoticedUpto
    <3>3. CASE i \in 1..pos[g]
      BY <1>3, <3>1, <3>2, <3>3 DEF NoticedUpto
    <3>4. CASE i \notin 1..pos[g]
      <4>1. g = f /\ i = n + 1
        BY <1>0, <1>4, <3>4
      <4> QED
        BY <1>3, <3>2, <4>1
    <3> QED
      BY <3>3, <3>4
  <2>4. ASSUME NEW g \in File PROVE Reached(g)' \in Nat /\ Reached(g) <= Reached(g)'
    <3>1. CASE g = f
      <4>1. Reached(g) = Len(log[g]) /\ Reached(g)' = Len(log[g])
        BY <1>1, <3>1 DEF Reached, PastRead
      <4> QED
        BY <4>1, LogFacts, <1>0
    <3>2. CASE g # f
      <4>1. Reached(g)' = Reached(g)
        BY <1>4, <3>2 DEF Reached, PastRead
      <4> QED
        BY <1>0, <4>1, ReachedFits
    <3> QED
      BY <3>1, <3>2
  <2>5. ASSUME NEW c \in Noticed' PROVE \E g \in File : \E i \in 1..Reached(g)' : log[g][i] = c
    <3>1. CASE c \in Noticed
      <4>1. PICK g \in File : \E i \in 1..Reached(g) : log[g][i] = c
        BY <1>0, <3>1 DEF NoticedInv
      <4>2. PICK i \in 1..Reached(g) : log[g][i] = c
        BY <4>1
      <4>3. i \in 1..Reached(g)'
        BY <1>0, <2>4, <4>2, ReachedFits
      <4> QED
        BY <4>2, <4>3
    <3>2. CASE c = log[f][n + 1]
      <4>1. Reached(f)' = Len(log[f])
        BY <1>1 DEF Reached, PastRead
      <4> QED
        BY <1>2, <3>2, <4>1
    <3> QED
      BY <1>3, <3>1, <3>2
  <2> QED
    BY <2>1, <2>3, <2>5 DEF NoticedInv
<1>9. (dirty' /\ timeline' # timeline)
      \/ (dirty' = dirty /\ timeline' = timeline /\ Noticed' = Noticed)
  <2>1. CASE timeline' = timeline
    <3>1. dirty' = dirty
      BY <1>0, <1>1, <2>1 DEF TypeOK
    <3>2. Noticed' = Noticed
      BY <2>1 DEF Noticed
    <3> QED
      BY <2>1, <3>1, <3>2
  <2>2. CASE timeline' # timeline
    BY <1>1, <2>2
  <2> QED
    BY <2>1, <2>2
<1> QED
  BY <1>3, <1>4, <1>5, <1>6, <1>7, <1>8, <1>9

LEMMA SeedLineStep ==
  ASSUME OmpInv, NEW f \in File, SeedLine(f)
  PROVE  OmpInv'
<1>0. /\ TypeOK /\ PassInv /\ SettledInv
      /\ pc = "seed" /\ NextLine(f)
      /\ UNCHANGED <<log, known, rows, saved, pc, todo, catalog, seeded>>
      /\ UNCHANGED batch
  BY DEF OmpInv, SeedLine, db
<1>1. /\ pos' \in [File -> Nat] /\ \A g \in File : pos'[g] <= Len(log[g])
      /\ timeline' \in Seq(Change) /\ InOrder(timeline') /\ dirty' \in BOOLEAN
      /\ OneAtATime' /\ NoticedInv'
      /\ (dirty' /\ timeline' # timeline)
         \/ (dirty' = dirty /\ timeline' = timeline /\ Noticed' = Noticed)
  BY <1>0, NextLineStep
<1>2. TypeOK'
  BY <1>0, <1>1 DEF TypeOK
<1>3. PassInv'
  BY <1>0 DEF PassInv, InRound, PastRead
<1>4. SettledInv'
  <2>1. CASE dirty'
    BY <2>1 DEF SettledInv
  <2>2. CASE dirty' = dirty /\ Noticed' = Noticed
    BY <1>0, <2>2 DEF SettledInv, Settled, Proven
  <2> QED
    BY <1>1, <2>1, <2>2
<1> QED
  BY <1>1, <1>2, <1>3, <1>4 DEF OmpInv

LEMMA EndOfSeedStep ==
  ASSUME OmpInv, NEW f \in File, EndOfSeed(f)
  PROVE  OmpInv'
<1>0. /\ TypeOK /\ OneAtATime /\ InOrder(timeline) /\ PassInv /\ NoticedInv /\ SettledInv
      /\ pc = "seed" /\ f \in todo /\ pos[f] = Len(log[f])
      /\ seeded' = seeded \cup {f} /\ todo = File \ seeded
      /\ UNCHANGED <<log, known, rows, saved, batch, catalog>>
      /\ UNCHANGED <<timeline, dirty>>
  BY DEF OmpInv, EndOfSeed, Turn, db, PassInv
<1>1. OneAtATime' /\ InOrder(timeline')
  BY <1>0, SameLogs DEF OneAtATime
<1>2. Noticed' = Noticed /\ batch = {}
  BY <1>0 DEF Noticed, PassInv
<1>3. SettledInv'
  BY <1>0, <1>2 DEF SettledInv, Settled, Proven
<1>4. \A g \in seeded' : NoticedUpto(g, saved[g])
  <2>1. saved[f] \in Nat /\ saved[f] <= pos[f] /\ pos[f] \in Nat
    BY <1>0 DEF TypeOK
  <2>2. NoticedUpto(f, pos[f])
    BY <1>0 DEF NoticedInv, InRound
  <2>3. NoticedUpto(f, saved[f])
    BY <2>1, <2>2 DEF NoticedUpto
  <2> QED
    BY <1>0, <2>3 DEF NoticedInv
<1>5. CASE todo = {f} /\ Open("read")
  <2>1. seeded' = File
    BY <1>0, <1>5 DEF TypeOK
  <2>2. todo' = File /\ pos' = saved /\ pc' = "read" /\ NoticedInv'
    BY <1>0, <1>4, <1>5, <2>1, OpenedRead
  <2>3. TypeOK'
    BY <1>0, <2>1, <2>2 DEF TypeOK
  <2>4. PassInv'
    <3>1. \A g \in File : saved[g] <= saved[g]
      BY <1>0 DEF TypeOK
    <3> QED
      BY <1>0, <2>1, <2>2, <3>1 DEF PassInv, InRound, PastRead
  <2> QED
    BY <1>1, <1>3, <2>2, <2>3, <2>4 DEF OmpInv
<1>6. CASE todo # {f} /\ todo' = todo \ {f} /\ UNCHANGED <<pc, pos>>
  <2>1. TypeOK'
    BY <1>0, <1>6 DEF TypeOK
  <2>2. PassInv'
    BY <1>0, <1>6 DEF PassInv, InRound, PastRead
  <2>3. NoticedInv'
    <3>1. \A g \in seeded' : NoticedUpto(g, saved[g])'
      BY <1>0, <1>2, <1>4 DEF NoticedUpto
    <3>2. \A g \in File : NoticedUpto(g, pos[g])'
      BY <1>0, <1>2, <1>6 DEF NoticedInv, NoticedUpto, InRound
    <3>3. \A g \in File : Reached(g)' = Reached(g)
      BY <1>0, <1>6 DEF Reached, PastRead
    <3> QED
      BY <1>0, <1>2, <3>1, <3>2, <3>3 DEF NoticedInv
  <2> QED
    BY <1>1, <1>3, <2>1, <2>2, <2>3 DEF OmpInv
<1> QED
  BY <1>5, <1>6 DEF EndOfSeed

LEMMA ParseLineStep ==
  ASSUME OmpInv, NEW f \in File, ParseLine(f)
  PROVE  OmpInv'
<1>0. /\ TypeOK /\ InOrder(timeline) /\ PassInv /\ SettledInv
      /\ pc = "read" /\ NextLine(f)
      /\ UNCHANGED <<log, known, rows, saved, pc, todo, catalog, seeded>>
  BY DEF OmpInv, ParseLine, db
<1>1. /\ pos' \in [File -> Nat] /\ \A g \in File : pos'[g] <= Len(log[g])
      /\ timeline' \in Seq(Change) /\ InOrder(timeline') /\ dirty' \in BOOLEAN
      /\ OneAtATime' /\ NoticedInv' /\ \A g \in File : pos[g] <= pos'[g]
      /\ (dirty' /\ timeline' # timeline)
         \/ (dirty' = dirty /\ timeline' = timeline /\ Noticed' = Noticed)
  BY <1>0, NextLineStep
<1>2. /\ pos[f] + 1 \in Nat
      /\ log[f][pos[f] + 1] \in Change \cup Request /\ log[f][pos[f] + 1].at \in Time
  <2>1. pos[f] \in Nat /\ pos[f] < Len(log[f])
    BY <1>0 DEF TypeOK, NextLine
  <2>2. pos[f] + 1 \in 1..Len(log[f])
    BY <1>0, <2>1, LogFacts
  <2> QED
    BY <1>0, <2>1, <2>2, LogFacts DEF Change, Request
<1> SUFFICES ASSUME NEW n \in Nat, NEW line \in Change \cup Request, line.at \in Time,
                    n = pos[f] + 1, line = log[f][n]
             PROVE  OmpInv'
  BY <1>2
<1>3. batch' = batch \cup (IF line.kind = "request" THEN {RequestRow(line, n)} ELSE {})
  BY DEF ParseLine
<1>4. RequestRow(line, n) \in Row
  <2>1. line.at \in Nat
    BY DEF Time
  <2>2. Resolve(timeline, line.at) \in Identity
    BY <1>0, <2>1, ResolveTyped DEF TypeOK
  <2> QED
    BY <2>2 DEF RequestRow, Row
<1>5. TypeOK'
  <2>1. batch' \subseteq Row
    BY <1>0, <1>3, <1>4 DEF TypeOK
  <2> QED
    BY <1>0, <1>1, <2>1 DEF TypeOK
<1>6. PassInv'
  <2>1. \A g \in File : saved'[g] <= pos'[g]
    <3> TAKE g \in File
    <3>1. saved[g] \in Nat /\ pos[g] \in Nat /\ pos'[g] \in Nat
      BY <1>0, <1>1 DEF TypeOK
    <3>2. saved[g] <= pos[g] /\ pos[g] <= pos'[g] /\ saved' = saved
      BY <1>0, <1>1 DEF PassInv
    <3> QED
      BY <3>1, <3>2
  <2> QED
    BY <1>0, <2>1 DEF PassInv, InRound, PastRead
<1>7. SettledInv'
  <2>1. CASE dirty'
    BY <2>1 DEF SettledInv
  <2>2. CASE dirty' = dirty /\ timeline' = timeline /\ Noticed' = Noticed /\ ~dirty
    <3>1. /\ \A r \in rows : Settled(r)
          /\ \A r \in batch : Settled(r)
      BY <1>0, <2>2 DEF SettledInv
    <3>2. Settled(RequestRow(line, n))
      <4>1. known \subseteq catalog /\ known \subseteq Cred /\ line.at \in Nat
        BY <1>0 DEF PassInv, InRound, TypeOK, Time
      <4>2. SUFFICES ASSUME Proven(Noticed, line.at)
                     PROVE  Resolve(timeline, line.at) = Binding(Noticed, line.at)
        BY DEF Settled, RequestRow
      <4> QED
        BY <1>0, <4>1, <4>2, ResolveProven DEF TypeOK
    <3>3. \A r \in rows' \cup batch' : Settled(r)
      BY <1>0, <1>3, <3>1, <3>2
    <3>4. \A r \in rows' \cup batch' : Settled(r)'
      BY <1>0, <2>2, <3>3 DEF Settled, Proven
    <3> QED
      BY <3>4 DEF SettledInv
  <2> QED
    BY <1>0, <1>1, <2>1, <2>2 DEF TypeOK
<1> QED
  BY <1>1, <1>5, <1>6, <1>7 DEF OmpInv

LEMMA EndOfFileStep ==
  ASSUME OmpInv, NEW f \in File, EndOfFile(f)
  PROVE  OmpInv'
<1>0. /\ TypeOK /\ OneAtATime /\ InOrder(timeline) /\ PassInv /\ NoticedInv /\ SettledInv
      /\ pc = "read" /\ f \in todo /\ pos[f] = Len(log[f])
      /\ todo' = todo \ {f} /\ pc' = IF todo = {f} THEN "insert" ELSE "read"
      /\ UNCHANGED <<log, known, rows, saved, pos, batch, catalog>>
      /\ UNCHANGED <<timeline, seeded, dirty>>
  BY DEF OmpInv, EndOfFile, Turn, db, memory
<1>1. OneAtATime' /\ InOrder(timeline')
  BY <1>0, SameLogs DEF OneAtATime
<1>2. Noticed' = Noticed
  BY <1>0 DEF Noticed
<1>3. SettledInv'
  BY <1>0, <1>2 DEF SettledInv, Settled, Proven
<1>4. TypeOK'
  BY <1>0 DEF TypeOK
<1>5. PassInv'
  BY <1>0 DEF PassInv, InRound, PastRead
<1>6. NoticedInv'
  <2>1. \A g \in seeded' : NoticedUpto(g, saved[g])'
    BY <1>0, <1>2 DEF NoticedInv, NoticedUpto
  <2>2. \A g \in File : NoticedUpto(g, pos[g])'
    BY <1>0, <1>2 DEF NoticedInv, NoticedUpto, InRound
  <2>3. ASSUME NEW g \in File PROVE Reached(g)' = Reached(g)
    <3>1. CASE g = f
      BY <1>0, <3>1 DEF Reached, PastRead
    <3>2. CASE g # f
      BY <1>0, <3>2 DEF Reached, PastRead
    <3> QED
      BY <3>1, <3>2
  <2> QED
    BY <1>0, <1>2, <2>1, <2>2, <2>3 DEF NoticedInv
<1> QED
  BY <1>1, <1>3, <1>4, <1>5, <1>6 DEF OmpInv

-----------------------------------------------------------------------------
(* The collector: what it writes, and how a round ends.                    *)
LEMMA InsertRowsStep ==
  ASSUME OmpInv, InsertRows
  PROVE  OmpInv'
<1>0. /\ TypeOK /\ OneAtATime /\ InOrder(timeline) /\ PassInv /\ NoticedInv /\ SettledInv
      /\ pc = "insert" /\ pc' = "reconcile"
      /\ rows' \subseteq rows \cup batch
      /\ UNCHANGED <<log, known, saved, todo, pos, batch, catalog>>
      /\ UNCHANGED <<timeline, seeded, dirty>>
  BY DEF OmpInv, InsertRows, round, memory
<1>1. OneAtATime' /\ InOrder(timeline')
  BY <1>0, SameLogs DEF OneAtATime
<1>2. Noticed' = Noticed
  BY <1>0 DEF Noticed
<1>3. TypeOK'
  BY <1>0 DEF TypeOK
<1>4. PassInv'
  BY <1>0 DEF PassInv, InRound, PastRead
<1>5. NoticedInv'
  BY <1>0, <1>2 DEF NoticedInv, NoticedUpto, Reached, InRound, PastRead
<1>6. SettledInv'
  <2>1. CASE dirty
    BY <1>0, <2>1 DEF SettledInv
  <2>2. CASE ~dirty
    <3>1. \A r \in rows \cup batch : Settled(r)
      BY <1>0, <2>2 DEF SettledInv
    <3>2. \A r \in rows' : Settled(r)'
      BY <1>0, <1>2, <3>1 DEF Settled, Proven
    <3> QED
      BY <1>0, <3>2 DEF SettledInv
  <2> QED
    BY <2>1, <2>2
<1> QED
  BY <1>1, <1>3, <1>4, <1>5, <1>6 DEF OmpInv

(* What charging a row again leaves of it.                                 *)
LEMMA RechargedIs ==
  ASSUME TypeOK, InOrder(timeline), NEW r \in Row
  PROVE  /\ Recharged(r) \in Row /\ Recharged(r).line = r.line /\ Recharged(r).at = r.at
         /\ Recharged(r).charged = IF Resolve(timeline, r.at).account # None
                                   THEN Resolve(timeline, r.at)
                                   ELSE IF r.charged.account # None THEN r.charged
                                   ELSE Nobody
<1>1. Resolve(timeline, r.at) \in Identity /\ Nobody \in Identity
  <2>1. r.at \in Nat
    BY DEF Row, Time
  <2>2. Nobody \in Identity
    BY DEF Nobody, Identity, Reason
  <2> QED
    BY <2>1, <2>2, ResolveTyped DEF TypeOK
<1> DEFINE now == Resolve(timeline, r.at)
<1>2. Recharged(r) = IF now.account # None THEN [r EXCEPT !.charged = now]
                     ELSE IF r.charged.account # None THEN r
                     ELSE [r EXCEPT !.charged = Nobody]
  BY DEF Recharged
<1>3. ASSUME NEW c \in Identity
      PROVE  /\ [r EXCEPT !.charged = c] \in Row
             /\ [r EXCEPT !.charged = c].line = r.line
             /\ [r EXCEPT !.charged = c].at = r.at
             /\ [r EXCEPT !.charged = c].charged = c
  BY DEF Row
<1>4. now \in Identity
  BY <1>1
<1> HIDE DEF now
<1>5. CASE now.account # None
  BY <1>2, <1>3, <1>4, <1>5 DEF now
<1>6. CASE now.account = None /\ r.charged.account # None
  BY <1>2, <1>6 DEF now
<1>7. CASE now.account = None /\ r.charged.account = None
  BY <1>1, <1>2, <1>3, <1>7 DEF now
<1> QED
  BY <1>5, <1>6, <1>7

LEMMA ReconcileStep ==
  ASSUME OmpInv, Reconcile
  PROVE  OmpInv'
<1>0. /\ TypeOK /\ OneAtATime /\ InOrder(timeline) /\ PassInv /\ NoticedInv /\ SettledInv
      /\ pc = "reconcile" /\ pc' = "save" /\ dirty' = FALSE
      /\ rows' = IF dirty THEN {Recharged(r) : r \in rows} ELSE rows
      /\ UNCHANGED <<log, known, saved, todo, pos, batch, catalog>>
      /\ UNCHANGED <<timeline, seeded>>
  BY DEF OmpInv, Reconcile, round
<1>1. OneAtATime' /\ InOrder(timeline')
  BY <1>0, SameLogs DEF OneAtATime
<1>2. Noticed' = Noticed
  BY <1>0 DEF Noticed
<1>3. TypeOK'
  <2>1. rows' \subseteq Row
    BY <1>0, RechargedIs DEF TypeOK
  <2> QED
    BY <1>0, <2>1 DEF TypeOK
<1>4. PassInv'
  BY <1>0 DEF PassInv, InRound, PastRead
<1>5. NoticedInv'
  BY <1>0, <1>2 DEF NoticedInv, NoticedUpto, Reached, InRound, PastRead
<1>6. SettledInv'
  <2>1. ASSUME NEW q \in rows' PROVE Settled(q)
    <3>1. CASE ~dirty
      BY <1>0, <3>1 DEF SettledInv
    <3>2. CASE dirty
      <4>1. PICK r \in rows : q = Recharged(r)
        BY <1>0, <3>2
      <4>2. r \in Row /\ r.at \in Nat
        BY <1>0 DEF TypeOK, Row, Time
      <4>3. known \subseteq catalog /\ known \subseteq Cred
        BY <1>0 DEF PassInv, InRound, TypeOK
      <4>4. q.at = r.at
        BY <1>0, <4>1, <4>2, RechargedIs
      <4>5. ASSUME Proven(Noticed, r.at) PROVE q.charged = Binding(Noticed, r.at)
        <5>1. /\ Resolve(timeline, r.at) = Binding(Noticed, r.at)
              /\ Resolve(timeline, r.at).account # None
          BY <1>0, <4>2, <4>3, <4>5, ResolveProven DEF TypeOK
        <5> QED
          BY <1>0, <4>1, <4>2, <5>1, RechargedIs
      <4> QED
        BY <4>4, <4>5 DEF Settled
    <3> QED
      BY <3>1, <3>2
  <2>2. \A q \in rows' : Settled(q)'
    BY <1>0, <1>2, <2>1 DEF Settled, Proven
  <2> QED
    BY <1>0, <2>2 DEF SettledInv
<1> QED
  BY <1>1, <1>3, <1>4, <1>5, <1>6 DEF OmpInv

LEMMA SaveOffsetStep ==
  ASSUME OmpInv, SaveOffset
  PROVE  OmpInv'
<1>0. /\ TypeOK /\ OneAtATime /\ InOrder(timeline) /\ PassInv /\ NoticedInv /\ SettledInv
      /\ pc = "save" /\ pc' = "done" /\ saved' = pos
      /\ todo' = {} /\ pos' = Start /\ batch' = {} /\ catalog' = {}
      /\ UNCHANGED <<log, known, rows, timeline, seeded, dirty>>
  BY DEF OmpInv, SaveOffset, Idle, memory
<1>1. OneAtATime' /\ InOrder(timeline')
  BY <1>0, SameLogs DEF OneAtATime
<1>2. Noticed' = Noticed
  BY <1>0 DEF Noticed
<1>3. TypeOK'
  <2>1. \A f \in File : pos'[f] <= Len(log[f]) /\ pos'[f] \in Nat
    BY <1>0, LogFacts DEF Start
  <2>2. pos' \in [File -> Nat]
    BY <1>0 DEF Start
  <2> QED
    BY <1>0, <2>1, <2>2 DEF TypeOK
<1>4. PassInv'
  BY <1>0 DEF PassInv, InRound, PastRead
<1>5. NoticedInv'
  <2>1. \A f \in File : NoticedUpto(f, saved[f])'
    BY <1>0, <1>2 DEF NoticedInv, NoticedUpto, InRound
  <2>2. seeded \subseteq File /\ ~InRound'
    BY <1>0 DEF TypeOK, InRound
  <2>3. \A f \in File : Reached(f)' = Reached(f)
    BY <1>0 DEF Reached, PastRead
  <2> QED
    BY <1>0, <1>2, <2>1, <2>2, <2>3 DEF NoticedInv
<1>6. SettledInv'
  BY <1>0, <1>2 DEF SettledInv, Settled, Proven
<1> QED
  BY <1>1, <1>3, <1>4, <1>5, <1>6 DEF OmpInv

LEMMA RoundFailedStep ==
  ASSUME OmpInv, RoundFailed
  PROVE  OmpInv'
<1>0. /\ TypeOK /\ OneAtATime /\ InOrder(timeline) /\ PassInv /\ NoticedInv /\ SettledInv
      /\ pc \in {"read", "insert", "reconcile", "save"} /\ pc' = "idle"
      /\ todo' = {} /\ pos' = Start /\ batch' = {} /\ catalog' = {}
      /\ UNCHANGED <<log, known, rows, saved, timeline, seeded, dirty>>
  BY DEF OmpInv, RoundFailed, Idle, db, memory
<1>1. OneAtATime' /\ InOrder(timeline')
  BY <1>0, SameLogs DEF OneAtATime
<1>2. Noticed' = Noticed
  BY <1>0 DEF Noticed
<1>3. TypeOK'
  <2>1. \A f \in File : pos'[f] <= Len(log[f]) /\ pos'[f] \in Nat
    BY <1>0, LogFacts DEF Start
  <2>2. pos' \in [File -> Nat]
    BY <1>0 DEF Start
  <2> QED
    BY <1>0, <2>1, <2>2 DEF TypeOK
<1>4. PassInv'
  BY <1>0 DEF PassInv, InRound, PastRead
<1>5. NoticedInv'
  <2>1. \A f \in seeded' : NoticedUpto(f, saved[f])'
    BY <1>0, <1>2 DEF NoticedInv, NoticedUpto
  <2>2. ~InRound'
    BY <1>0 DEF InRound
  <2>3. \A f \in File : Reached(f)' = Len(log[f])
    BY <1>0 DEF Reached, PastRead
  <2>4. ASSUME NEW c \in Noticed
        PROVE  \E f \in File : \E i \in 1..Reached(f)' : log'[f][i] = c
    <3>1. PICK f \in File : \E i \in 1..Reached(f) : log[f][i] = c
      BY <1>0 DEF NoticedInv
    <3>2. PICK i \in 1..Reached(f) : log[f][i] = c
      BY <3>1
    <3>3. i \in 1..Reached(f)'
      BY <1>0, <2>3, <3>2, ReachedFits, LogFacts
    <3> QED
      BY <1>0, <3>2, <3>3
  <2> QED
    BY <1>2, <2>1, <2>2, <2>4 DEF NoticedInv
<1>6. SettledInv'
  BY <1>0, <1>2 DEF SettledInv, Settled, Proven
<1> QED
  BY <1>1, <1>3, <1>4, <1>5, <1>6 DEF OmpInv

(* A new process knows nothing, and takes nothing for proven.              *)
LEMMA RestartStep ==
  ASSUME OmpInv, Restart
  PROVE  OmpInv'
<1>0. /\ TypeOK /\ OneAtATime
      /\ pc' = "idle"
      /\ todo' = {} /\ pos' = Start /\ batch' = {} /\ catalog' = {}
      /\ timeline' = <<>> /\ seeded' = {} /\ dirty' = FALSE
      /\ UNCHANGED <<log, known, rows, saved>>
  BY DEF OmpInv, Restart, Idle, Forgotten, db
<1>1. OneAtATime'
  BY <1>0, SameLogs DEF OneAtATime
<1>2. InOrder(timeline') /\ Noticed' = {} /\ timeline' \in Seq(Change)
  BY <1>0 DEF InOrder, Noticed
<1>3. TypeOK'
  <2>1. \A f \in File : pos'[f] <= Len(log[f]) /\ pos'[f] \in Nat
    BY <1>0, LogFacts DEF Start
  <2>2. pos' \in [File -> Nat]
    BY <1>0 DEF Start
  <2> QED
    BY <1>0, <1>2, <2>1, <2>2 DEF TypeOK
<1>4. PassInv'
  BY <1>0 DEF PassInv, InRound, PastRead
<1>5. NoticedInv'
  BY <1>0, <1>2 DEF NoticedInv, InRound
<1>6. SettledInv'
  BY <1>0, <1>2 DEF SettledInv, Settled, Proven, Before
<1> QED
  BY <1>1, <1>2, <1>3, <1>4, <1>5, <1>6 DEF OmpInv

LEMMA OmpStutter ==
  ASSUME OmpInv, UNCHANGED vars
  PROVE  OmpInv'
<1>0. /\ TypeOK /\ OneAtATime /\ InOrder(timeline) /\ PassInv /\ NoticedInv /\ SettledInv
      /\ UNCHANGED <<log, known, rows, saved, pc, todo, pos, batch, catalog>>
      /\ UNCHANGED <<timeline, seeded, dirty>>
  BY DEF OmpInv, vars, db, round, memory
<1>1. OneAtATime' /\ InOrder(timeline')
  BY <1>0, SameLogs DEF OneAtATime
<1>2. Noticed' = Noticed
  BY <1>0 DEF Noticed
<1>3. TypeOK'
  BY <1>0 DEF TypeOK
<1>4. PassInv'
  BY <1>0 DEF PassInv, InRound, PastRead
<1>5. NoticedInv'
  BY <1>0, <1>2 DEF NoticedInv, NoticedUpto, Reached, InRound, PastRead
<1>6. SettledInv'
  BY <1>0, <1>2 DEF SettledInv, Settled, Proven
<1> QED
  BY <1>1, <1>3, <1>4, <1>5, <1>6 DEF OmpInv

LEMMA OmpPreserved ==
  ASSUME OmpInv, [Next]_vars
  PROVE  OmpInv'
<1>1. CASE SessionGoesOn
  BY <1>1, SessionStep
<1>2. ASSUME NEW c \in Cred, RemoveCred(c) PROVE OmpInv'
  BY <1>2, RemoveCredStep
<1>3. CASE FirstRound
  BY <1>3, FirstRoundStep
<1>4. CASE BeginRound
  BY <1>4, BeginRoundStep
<1>5. ASSUME NEW f \in File, SeedLine(f) \/ EndOfSeed(f) \/ ParseLine(f) \/ EndOfFile(f)
      PROVE  OmpInv'
  BY <1>5, SeedLineStep, EndOfSeedStep, ParseLineStep, EndOfFileStep
<1>6. CASE InsertRows
  BY <1>6, InsertRowsStep
<1>7. CASE Reconcile
  BY <1>7, ReconcileStep
<1>8. CASE SaveOffset
  BY <1>8, SaveOffsetStep
<1>9. CASE RoundFailed
  BY <1>9, RoundFailedStep
<1>10. CASE Restart
  BY <1>10, RestartStep
<1>11. CASE UNCHANGED vars
  BY <1>11, OmpStutter
<1> QED
  BY <1>1, <1>2, <1>3, <1>4, <1>5, <1>6, <1>7, <1>8, <1>9, <1>10, <1>11 DEF Next

(* The collector's passes, its timeline and its rows agree in every state. *)
THEOREM OmpInvariant == Spec => []OmpInv
<1>1. Init => OmpInv
  BY OmpInitial
<1>2. OmpInv /\ [Next]_vars => OmpInv'
  BY OmpPreserved
<1> QED
  BY <1>1, <1>2, PTL DEF Spec

(* The variables keep their types, and no watermark is past its file.      *)
THEOREM OmpTypeCorrect == Spec => []TypeOK
<1>1. OmpInv => TypeOK
  BY DEF OmpInv
<1> QED
  BY <1>1, OmpInvariant, PTL

(* After a round every request is charged to the pin in force at its time  *)
(* among all the entries that the watermarks have passed, with the reason  *)
(* they give, whatever the order, the file and the process they were read  *)
(* in, and whichever rounds failed before.                                 *)
THEOREM AttributedHolds == Spec => []Attributed
<1>1. OmpInv => Attributed
  <2> SUFFICES ASSUME OmpInv, pc = "done"
               PROVE  \A r \in rows :
                        Proven(Evidence(saved), r.at) =>
                          r.charged = Binding(Evidence(saved), r.at)
    BY DEF Attributed
  <2>0. TypeOK /\ PassInv /\ NoticedInv /\ SettledInv
    BY DEF OmpInv
  <2>1. Noticed \subseteq Evidence(saved)
    <3> SUFFICES ASSUME NEW c \in Noticed PROVE c \in Evidence(saved)
      OBVIOUS
    <3>1. PICK f \in File : \E i \in 1..Reached(f) : log[f][i] = c
      BY <2>0 DEF NoticedInv
    <3>2. Reached(f) = saved[f]
      BY DEF Reached, PastRead
    <3> QED
      BY <2>0, <3>1, <3>2, NoticedAreChanges DEF Evidence
  <2>2. Evidence(saved) \subseteq Noticed
    <3> SUFFICES ASSUME NEW c \in Evidence(saved) PROVE c \in Noticed
      OBVIOUS
    <3>1. c.kind # "request" /\ \E f \in File : \E i \in 1..saved[f] : log[f][i] = c
      BY DEF Evidence, Changes
    <3>2. PICK f \in File : \E i \in 1..saved[f] : log[f][i] = c
      BY <3>1
    <3>3. NoticedUpto(f, saved[f])
      BY <2>0 DEF NoticedInv, PassInv
    <3> QED
      BY <3>1, <3>2, <3>3 DEF NoticedUpto
  <2>3. Evidence(saved) = Noticed
    BY <2>1, <2>2
  <2>4. \A r \in rows : Settled(r)
    BY <2>0 DEF PassInv, SettledInv
  <2> HIDE DEF Noticed
  <2> QED
    BY <2>3, <2>4 DEF Settled
<1> QED
  BY <1>1, OmpInvariant, PTL

-----------------------------------------------------------------------------
(* Nothing is charged without an entry that says so.                       *)

(* What resolve finds for a request is right once the session's log has    *)
(* been read as far as the request: no release of before is still to come. *)
LEMMA ResolveJustified ==
  ASSUME OmpInv, ReleasesInOrder, NEW k \in 1..Len(log[Own]), NEW t \in Nat,
         log[Own][k].kind = "request", log[Own][k].at = t, NoticedUpto(Own, k - 1),
         Resolve(timeline, t).account # None
  PROVE  PinnedTo(Resolve(timeline, t).account, t) /\ LastIsPin(t)
<1>0. /\ TypeOK /\ OneAtATime /\ InOrder(timeline) /\ NoticedInv /\ timeline \in Seq(Change)
      /\ Own \in File
  BY DEF OmpInv, TypeOK, File
<1> DEFINE n == Upto(timeline, t)
           p == timeline[n]
<1>1. /\ n \in 1..Len(timeline) /\ p.kind = "pin" /\ p.at <= t
      /\ \A o \in Noticed : o.at <= t => o.at <= p.at
      /\ Resolve(timeline, t) = [account |-> Account(p.cred), reason |-> Derived(timeline, n)]
  <2>1. Resolve(timeline, t) # Nobody
    BY DEF Nobody
  <2> QED
    BY <1>0, <2>1, ResolvedPin
<1>2. p \in Noticed /\ p.at \in Nat
  BY <1>0, <1>1, TimelineFacts
<1> HIDE DEF n, p
<1>3. p \in Changes /\ p \in Before(Changes, t)
  BY <1>0, <1>1, <1>2, NoticedAreChanges DEF Before
<1>4. Resolve(timeline, t).account = p.cred
  BY <1>1 DEF Account
<1>5. ASSUME NEW l \in Before(Changes, t), \A o \in Before(Changes, t) : o.at <= l.at
      PROVE  l.kind = "pin"
  <2> SUFFICES ASSUME l.kind # "pin" PROVE FALSE
    OBVIOUS
  <2>1. l \in Changes /\ l \in Change /\ l.at <= t /\ l.at \in Nat
    BY <1>0, ChangesAre DEF Before, Change, Time
  <2>2. l.kind \in Release
    BY <2>1 DEF Change
  <2>3. PICK f \in File : \E j \in 1..Len(log[f]) : log[f][j] = l
    BY <1>0, <2>1, ChangesAre
  <2>4. PICK j \in 1..Len(log[f]) : log[f][j] = l
    BY <2>3
  <2>5. f = Own
    BY <1>0, <2>4, LogFacts DEF ReleasesInOrder, File
  <2>6. ~(k < j)
    <3> SUFFICES ASSUME k < j PROVE FALSE
      OBVIOUS
    <3>1. log[Own][k].at < log[Own][j].at
      BY <1>0, <2>2, <2>4, <2>5, LogFacts DEF ReleasesInOrder
    <3> QED
      BY <2>1, <2>4, <2>5, <3>1
  <2>7. j # k
    BY <2>2, <2>4, <2>5 DEF Release
  <2>8. j \in 1..(k - 1)
    BY <1>0, <2>4, <2>5, <2>6, <2>7, LogFacts
  <2>9. l \in Noticed
    BY <2>2, <2>4, <2>5, <2>8 DEF NoticedUpto, Release
  <2>10. l.at <= p.at /\ p.at <= l.at
    BY <1>1, <1>3, <1>5, <2>1, <2>9
  <2>11. l = p
    BY <1>0, <1>2, <1>3, <2>1, <2>10 DEF OneAtATime
  <2> QED
    BY <1>1, <2>11
<1> QED
  BY <1>3, <1>4, <1>5 DEF PinnedTo, LastIsPin

(* Steps that read or charge, and do not write a log.                      *)
LEMMA SameEvidence ==
  ASSUME UNCHANGED log
  PROVE  /\ ReleasesInOrder <=> ReleasesInOrder'
         /\ \A r : (OfLine(r) <=> OfLine(r)') /\ (Justified(r) <=> Justified(r)')
BY DEF ReleasesInOrder, OfLine, Justified, PinnedTo, LastIsPin, Before, Changes, Written

LEMMA ChargeKept ==
  ASSUME ChargeInv, UNCHANGED log,
         rows' \cup batch' \subseteq rows \cup batch,
         PastRead' \/ (pc' = "read" /\ Own \notin todo') =>
           /\ PastRead \/ (pc = "read" /\ Own \notin todo)
           /\ pos'[Own] = pos[Own]
  PROVE  ChargeInv'
<1>1. \A r \in rows' \cup batch' : OfLine(r)' /\ Justified(r)'
  BY SameEvidence DEF ChargeInv, RowsInv
<1>2. ReleasesInOrder'
  BY SameEvidence DEF ChargeInv
<1>3. PastRead' \/ (pc' = "read" /\ Own \notin todo') =>
        \A r \in rows' \cup batch' : r.line <= pos'[Own]
  BY DEF ChargeInv, RowsInv
<1> QED
  BY <1>1, <1>2, <1>3 DEF ChargeInv, RowsInv

(* What is written later changes nothing of what is charged: a pin of      *)
(* before a request is no release, and a release comes after it.           *)
LEMMA ChargeWrite ==
  ASSUME OmpInv, ChargeInv, NEW f \in File, NEW line \in Change \cup Request, Write(f, line),
         line.kind # "pin" => f = Own,
         line.kind \in Release => \A l \in Written \ Changes : l.at < line.at
  PROVE  ChargeInv'
<1>0. /\ TypeOK /\ RowsInv /\ ReleasesInOrder
      /\ UNCHANGED <<rows, pc, todo, pos, batch>>
  BY DEF OmpInv, ChargeInv, Write, db, round
<1>1. /\ \A g \in File :
           /\ Len(log'[g]) \in Nat /\ Len(log[g]) \in Nat
           /\ DOMAIN log'[g] = 1..Len(log'[g]) /\ DOMAIN log[g] = 1..Len(log[g])
           /\ \A i \in 1..Len(log[g]) : i \in 1..Len(log'[g]) /\ log'[g][i] = log[g][i]
           /\ \A i \in 1..Len(log'[g]) :
                \/ i \in 1..Len(log[g])
                \/ g = f /\ i = Len(log[f]) + 1 /\ log'[g][i] = line
      /\ Changes \subseteq Changes' /\ Changes' \subseteq Changes \cup {line}
      /\ line.kind = "request" => Changes' = Changes
  <2>1. log' \in [File -> Seq(Change \cup Request)]
    BY <1>0, Wrote
  <2>2. \A g \in File : DOMAIN log'[g] = 1..Len(log'[g]) /\ DOMAIN log[g] = 1..Len(log[g])
    BY <1>0, <2>1, LogFacts, LenProperties
  <2> QED
    BY <1>0, <2>2, Wrote
<1>2. \A i \in 1..Len(log[Own]) :
        log[Own][i].kind = "request" => log[Own][i] \in Written \ Changes
  <2>1. Own \in File
    BY DEF File
  <2> QED
    BY <1>1, <2>1 DEF Written, Changes, ToSet
<1>3. ASSUME NEW r \in rows \cup batch
      PROVE  OfLine(r)' /\ Justified(r)'
  <2>1. OfLine(r) /\ Justified(r) /\ Own \in File
    BY <1>0 DEF RowsInv, ChargeInv, File
  <2>2. r.line \in 1..Len(log[Own]) /\ log[Own][r.line].kind = "request"
        /\ log[Own][r.line].at = r.at
    BY <1>1, <2>1 DEF OfLine
  <2>3. OfLine(r)'
    BY <1>1, <2>1, <2>2 DEF OfLine
  <2>4. ASSUME r.charged.account # None
        PROVE  PinnedTo(r.charged.account, r.at)' /\ LastIsPin(r.at)'
    <3>1. PinnedTo(r.charged.account, r.at) /\ LastIsPin(r.at)
      BY <2>1, <2>4 DEF Justified
    <3>2. Before(Changes, r.at) \subseteq Before(Changes', r.at)
          /\ Before(Changes', r.at) \subseteq Before(Changes, r.at) \cup {line}
      BY <1>1 DEF Before
    <3>3. \E e \in Before(Changes', r.at) : e.cred = r.charged.account
      BY <3>1, <3>2 DEF PinnedTo
    <3>4. ASSUME NEW l \in Before(Changes', r.at),
                 \A o \in Before(Changes', r.at) : o.at <= l.at
          PROVE  l.kind = "pin"
      <4>1. CASE l \in Before(Changes, r.at)
        BY <3>1, <3>2, <3>4, <4>1 DEF LastIsPin
      <4>2. CASE l \notin Before(Changes, r.at)
        <5>1. l = line /\ l \in Changes' /\ l \notin Changes /\ l.at <= r.at
          BY <3>2, <4>2 DEF Before
        <5>2. line.kind # "request"
          BY <1>1, <5>1
        <5>3. line \in Change
          BY <5>2 DEF Request
        <5>4. CASE line.kind \in Release
          <6>1. log[Own][r.line] \in Written \ Changes
            BY <1>2, <2>2
          <6>2. r.at < line.at
            BY <2>2, <5>4, <6>1
          <6>3. line.at \in Nat /\ r.at \in Nat
            <7>1. r \in Row
              BY <1>0 DEF TypeOK
            <7> QED
              BY <5>3, <7>1 DEF Change, Row, Time
          <6> QED
            BY <5>1, <6>2, <6>3
        <5> QED
          BY <5>1, <5>3, <5>4 DEF Change
      <4> QED
        BY <4>1, <4>2
    <3> QED
      BY <3>3, <3>4 DEF PinnedTo, LastIsPin
  <2> QED
    BY <2>3, <2>4 DEF Justified
<1>4. RowsInv'
  <2>1. PastRead' <=> PastRead
    BY <1>0 DEF PastRead
  <2> QED
    BY <1>0, <1>3, <2>1 DEF RowsInv
<1>5. ReleasesInOrder'
  <2>1. ASSUME NEW g \in Sibling, NEW i \in DOMAIN log'[g] PROVE log'[g][i].kind = "pin"
    <3>1. g \in File /\ g # Own
      BY OmpAssumption DEF File
    <3>2. CASE i \in 1..Len(log[g])
      BY <1>0, <1>1, <3>1, <3>2 DEF ReleasesInOrder
    <3>3. CASE g = f /\ log'[g][i] = line
      BY <3>1, <3>3
    <3> QED
      BY <1>1, <3>1, <3>2, <3>3
  <2>2. ASSUME NEW i \in DOMAIN log'[Own], NEW j \in DOMAIN log'[Own],
               i < j, log'[Own][i].kind = "request", log'[Own][j].kind \in Release
        PROVE  log'[Own][i].at < log'[Own][j].at
    <3>0. Own \in File /\ i \in 1..Len(log'[Own]) /\ j \in 1..Len(log'[Own])
      BY <1>1 DEF File
    <3>1. i \in 1..Len(log[Own])
      BY <1>1, <2>2, <3>0
    <3>2. CASE j \in 1..Len(log[Own])
      BY <1>0, <1>1, <2>2, <3>0, <3>1, <3>2 DEF ReleasesInOrder
    <3>3. CASE log'[Own][j] = line
      BY <1>1, <1>2, <2>2, <3>0, <3>1, <3>3
    <3> QED
      BY <1>1, <3>0, <3>2, <3>3
  <2> QED
    BY <2>1, <2>2 DEF ReleasesInOrder
<1> QED
  BY <1>0, <1>3, <1>4, <1>5 DEF ChargeInv

LEMMA ChargeSession ==
  ASSUME ~LateRelease, OmpInv, ChargeInv, SessionGoesOn
  PROVE  ChargeInv'
<1>1. PICK t \in Time :
        \/ \E f \in File : \/ \E c \in Cred : WritePin(f, c, t)
                           \/ \E k \in Release : WriteRelease(f, k, t)
        \/ WriteRequest(t)
  BY DEF SessionGoesOn
<1>2. ASSUME NEW f \in File, NEW c \in Cred, WritePin(f, c, t) PROVE ChargeInv'
  <2> DEFINE line == [kind |-> "pin", cred |-> c, at |-> t]
  <2>1. line \in Change /\ line.kind = "pin" /\ line.kind \notin Release
    BY DEF Change, Release
  <2>2. Write(f, line)
    BY <1>2 DEF WritePin, WriteChange
  <2> HIDE DEF line
  <2> QED
    BY <2>1, <2>2, ChargeWrite
<1>3. ASSUME NEW f \in File, NEW k \in Release, WriteRelease(f, k, t) PROVE ChargeInv'
  <2> DEFINE line == [kind |-> k, cred |-> None, at |-> t]
  <2>1. line \in Change /\ f = Own /\ \A l \in Written \ Changes : l.at < line.at
    BY <1>3 DEF Change, WriteRelease
  <2>2. Write(f, line)
    BY <1>3 DEF WriteRelease, WriteChange
  <2> HIDE DEF line
  <2> QED
    BY <2>1, <2>2, ChargeWrite
<1>4. CASE WriteRequest(t)
  <2> DEFINE line == [kind |-> "request", cred |-> None, at |-> t]
  <2>1. line \in Request /\ line.kind \notin Release /\ Own \in File
    BY DEF Request, File, Release
  <2>2. Write(Own, line)
    BY <1>4 DEF WriteRequest
  <2> HIDE DEF line
  <2> QED
    BY <2>1, <2>2, ChargeWrite
<1> QED
  BY <1>1, <1>2, <1>3, <1>4

LEMMA ChargeParse ==
  ASSUME OmpInv, ChargeInv, NEW f \in File, ParseLine(f)
  PROVE  ChargeInv'
<1>0. /\ TypeOK /\ NoticedInv /\ RowsInv /\ ReleasesInOrder /\ InRound
      /\ pc = "read" /\ f \in todo /\ pos[f] \in Nat /\ pos[f] < Len(log[f])
      /\ pos' = [pos EXCEPT ![f] = @ + 1]
      /\ UNCHANGED <<log, rows, pc, todo>>
  BY DEF OmpInv, ChargeInv, ParseLine, NextLine, Turn, InRound, TypeOK, db
<1> SUFFICES ASSUME NEW n \in Nat, n = pos[f] + 1, n - 1 = pos[f] PROVE ChargeInv'
  BY <1>0
<1> DEFINE line == log[f][n]
<1>1. n \in 1..Len(log[f]) /\ line \in Change \cup Request
  BY <1>0, LogFacts
<1>2. batch' = batch \cup (IF line.kind = "request" THEN {RequestRow(line, n)} ELSE {})
  BY DEF ParseLine
<1>3. CASE f # Own
  <2>1. f \in Sibling
    BY <1>3 DEF File
  <2>2. line.kind # "request"
    BY <1>0, <1>1, <2>1, LogFacts DEF ReleasesInOrder
  <2>3. batch' = batch
    BY <1>2, <2>2
  <2>4. Own \in File
    BY DEF File
  <2>5. pos'[Own] = pos[Own]
    BY <1>0, <1>3, <2>4 DEF TypeOK
  <2>6. PastRead' <=> PastRead
    BY <1>0 DEF PastRead
  <2> QED
    BY <1>0, <2>3, <2>5, <2>6, ChargeKept
<1>4. CASE f = Own
  <2>1. ~PastRead' /\ ~(pc' = "read" /\ Own \notin todo')
    BY <1>0, <1>4 DEF PastRead
  <2>2. ASSUME line.kind = "request"
        PROVE  OfLine(RequestRow(line, n)) /\ Justified(RequestRow(line, n))
    <3> DEFINE r == RequestRow(line, n)
    <3>1. r.line = n /\ r.at = line.at /\ r.charged = Resolve(timeline, line.at)
      BY DEF RequestRow
    <3>2. line.at \in Nat
      BY <1>1 DEF Change, Request, Time
    <3>3. NoticedUpto(Own, n - 1)
      BY <1>0, <1>4 DEF NoticedInv
    <3> HIDE DEF r
    <3>4. OfLine(r)
      BY <1>0, <1>1, <1>4, <2>2, <3>1, LogFacts DEF OfLine
    <3>5. Justified(r)
      BY <1>0, <1>1, <1>4, <2>2, <3>1, <3>2, <3>3, ResolveJustified DEF Justified
    <3> QED
      BY <3>4, <3>5 DEF r
  <2> HIDE DEF line
  <2>3. \A r \in rows' \cup batch' : OfLine(r) /\ Justified(r)
    BY <1>0, <1>2, <2>2 DEF ChargeInv, RowsInv
  <2>4. (\A r \in rows' \cup batch' : OfLine(r)' /\ Justified(r)') /\ ReleasesInOrder'
    BY <1>0, <2>3, SameEvidence
  <2> QED
    BY <2>1, <2>4 DEF ChargeInv, RowsInv
<1> QED
  BY <1>3, <1>4

LEMMA ChargeEndOfFile ==
  ASSUME OmpInv, ChargeInv, NEW f \in File, EndOfFile(f)
  PROVE  ChargeInv'
<1>0. /\ TypeOK /\ RowsInv
      /\ pc = "read" /\ f \in todo /\ pos[f] = Len(log[f])
      /\ todo' = todo \ {f}
      /\ UNCHANGED <<log, rows, pos, batch>>
  BY DEF OmpInv, ChargeInv, EndOfFile, Turn, db
<1>1. CASE f = Own
  <2>1. \A r \in rows \cup batch : r.line <= pos[Own]
    BY <1>0, <1>1, LogFacts DEF RowsInv, OfLine
  <2>2. (\A r \in rows' \cup batch' : OfLine(r)' /\ Justified(r)') /\ ReleasesInOrder'
    BY <1>0, SameEvidence DEF ChargeInv, RowsInv
  <2> QED
    BY <1>0, <2>1, <2>2 DEF ChargeInv, RowsInv
<1>2. CASE f # Own
  <2>1. PastRead' => Own \notin todo
    BY <1>2 DEF PastRead, EndOfFile
  <2> QED
    BY <1>0, <1>2, <2>1, ChargeKept
<1> QED
  BY <1>1, <1>2

LEMMA ChargeReconcile ==
  ASSUME OmpInv, ChargeInv, Reconcile
  PROVE  ChargeInv'
<1>0. /\ TypeOK /\ InOrder(timeline) /\ NoticedInv /\ RowsInv /\ ReleasesInOrder
      /\ pc = "reconcile" /\ pc' = "save" /\ Own \in File
      /\ rows' = IF dirty THEN {Recharged(r) : r \in rows} ELSE rows
      /\ UNCHANGED <<log, todo, pos, batch>>
  BY DEF OmpInv, ChargeInv, Reconcile, round, File
<1>1. CASE ~dirty
  BY <1>0, <1>1, ChargeKept DEF PastRead
<1>2. CASE dirty
  <2>1. ASSUME NEW r \in rows
        PROVE  /\ OfLine(Recharged(r)) /\ Justified(Recharged(r))
               /\ Recharged(r).line <= pos[Own]
    <3>1. r \in Row /\ r.at \in Nat /\ OfLine(r) /\ Justified(r) /\ r.line <= pos[Own]
      BY <1>0 DEF TypeOK, Row, Time, ChargeInv, RowsInv, PastRead
    <3>2. /\ Recharged(r).line = r.line /\ Recharged(r).at = r.at
          /\ Recharged(r).charged = IF Resolve(timeline, r.at).account # None
                                    THEN Resolve(timeline, r.at)
                                    ELSE IF r.charged.account # None THEN r.charged
                                    ELSE Nobody
      BY <1>0, <3>1, RechargedIs
    <3>3. ASSUME Resolve(timeline, r.at).account # None
          PROVE  PinnedTo(Resolve(timeline, r.at).account, r.at) /\ LastIsPin(r.at)
      <4>1. /\ r.line \in 1..Len(log[Own]) /\ log[Own][r.line].kind = "request"
            /\ log[Own][r.line].at = r.at
        BY <1>0, <3>1, LogFacts DEF OfLine
      <4>2. NoticedUpto(Own, r.line - 1)
        <5>1. NoticedUpto(Own, pos[Own]) /\ pos[Own] \in Nat
          BY <1>0 DEF NoticedInv, InRound, TypeOK
        <5>2. \A i \in 1..(r.line - 1) : i \in 1..pos[Own]
          BY <1>0, <3>1, <4>1, <5>1, LogFacts
        <5> QED
          BY <5>1, <5>2 DEF NoticedUpto
      <4> QED
        BY <1>0, <3>1, <3>3, <4>1, <4>2, ResolveJustified
    <3>4. OfLine(Recharged(r))
      BY <3>1, <3>2 DEF OfLine
    <3>5. Justified(Recharged(r))
      BY <3>1, <3>2, <3>3 DEF Justified, Nobody
    <3> QED
      BY <3>1, <3>2, <3>4, <3>5
  <2>2. \A q \in rows' \cup batch' : OfLine(q) /\ Justified(q) /\ q.line <= pos'[Own]
    BY <1>0, <1>2, <2>1 DEF ChargeInv, RowsInv, PastRead
  <2>3. (\A q \in rows' \cup batch' : OfLine(q)' /\ Justified(q)') /\ ReleasesInOrder'
    BY <1>0, <2>2, SameEvidence
  <2> QED
    BY <2>2, <2>3 DEF ChargeInv, RowsInv
<1> QED
  BY <1>1, <1>2

LEMMA ChargeInitial == Init => ChargeInv
<1> SUFFICES ASSUME Init PROVE ChargeInv
  OBVIOUS
<1>1. rows = {} /\ batch = {} /\ \A f \in File : log[f] = <<>> /\ DOMAIN log[f] = {}
  BY DEF Init, Idle
<1>2. ReleasesInOrder
  BY <1>1 DEF ReleasesInOrder, File
<1> QED
  BY <1>1, <1>2 DEF ChargeInv, RowsInv

LEMMA ChargePreserved ==
  ASSUME ~LateRelease, OmpInv, ChargeInv, [Next]_vars
  PROVE  ChargeInv'
<1>1. CASE SessionGoesOn
  BY <1>1, ChargeSession
<1>2. ASSUME NEW c \in Cred, RemoveCred(c) PROVE ChargeInv'
  BY <1>2, ChargeKept DEF RemoveCred, db, round, PastRead
<1>3. CASE FirstRound
  BY <1>3, ChargeKept DEF FirstRound, round, PastRead
<1>4. CASE BeginRound
  <2>1. UNCHANGED <<log, rows, batch>> /\ pc' \in {"seed", "read"}
        /\ (pc' = "read" => todo' = File)
    BY <1>4 DEF BeginRound, Open, db
  <2> QED
    BY <2>1, ChargeKept DEF PastRead, File
<1>5. ASSUME NEW f \in File, SeedLine(f) PROVE ChargeInv'
  BY <1>5, ChargeKept DEF SeedLine, db, PastRead
<1>6. ASSUME NEW f \in File, EndOfSeed(f) PROVE ChargeInv'
  <2>1. UNCHANGED <<log, rows, batch>> /\ pc' \in {"seed", "read"}
        /\ (pc' = "read" => todo' = File)
    BY <1>6 DEF EndOfSeed, Open, db
  <2> QED
    BY <2>1, ChargeKept DEF PastRead, File
<1>7. ASSUME NEW f \in File, ParseLine(f) \/ EndOfFile(f) PROVE ChargeInv'
  BY <1>7, ChargeParse, ChargeEndOfFile
<1>8. CASE InsertRows
  <2>1. UNCHANGED <<log, todo, pos, batch>> /\ rows' \subseteq rows \cup batch /\ pc = "insert"
    BY <1>8 DEF InsertRows, round
  <2> QED
    BY <2>1, ChargeKept DEF PastRead
<1>9. CASE Reconcile
  BY <1>9, ChargeReconcile
<1>10. CASE SaveOffset \/ RoundFailed \/ Restart
  <2>1. UNCHANGED <<log, rows>> /\ batch' = {} /\ pc' \in {"idle", "done"}
    BY <1>10 DEF SaveOffset, RoundFailed, Restart, Idle, db
  <2> QED
    BY <2>1, ChargeKept DEF PastRead
<1>11. CASE UNCHANGED vars
  BY <1>11, ChargeKept DEF vars, db, round, PastRead
<1> QED
  BY <1>1, <1>2, <1>3, <1>4, <1>5, <1>6, <1>7, <1>8, <1>9, <1>10, <1>11 DEF Next

(* Rows are those of the session's requests, and what they are charged to  *)
(* is what an entry of before says, in every state.                        *)
THEOREM ChargeInvariant == ASSUME ~LateRelease PROVE Spec => []ChargeInv
<1>1. Init => ChargeInv
  BY ChargeInitial
<1>2. OmpInv /\ ChargeInv /\ [Next]_vars => ChargeInv'
  BY ChargePreserved
<1> QED
  BY <1>1, <1>2, OmpInvariant, PTL DEF Spec

(* While omp writes its releases in order and in the session's own log, no *)
(* row is charged to an account that the session had not been pinned to by *)
(* then, nor to any when it had been released.                             *)
THEOREM NeverInventedHolds == ASSUME ~LateRelease PROVE Spec => []NeverInvented
<1>1. OmpInv /\ ChargeInv => NeverInvented
  <2> SUFFICES ASSUME OmpInv, ChargeInv, NEW r \in rows, r.charged.account # None
               PROVE  LET past == Before(Changes, r.at) IN
                      /\ \E e \in past : e.cred = r.charged.account
                      /\ Latest(past).kind = "pin"
    BY DEF NeverInvented
  <2> DEFINE past == Before(Changes, r.at)
  <2>1. PinnedTo(r.charged.account, r.at) /\ LastIsPin(r.at)
    BY DEF ChargeInv, Justified
  <2>2. past \in SUBSET Change
    BY ChangesAre DEF OmpInv, Before
  <2>3. \E e \in past : e.cred = r.charged.account
    BY <2>1 DEF PinnedTo
  <2>4. Latest(past) \in past /\ \A o \in past : o.at <= Latest(past).at
    <3> HIDE DEF past
    <3> QED
      BY <2>2, <2>3, LatestExists
  <2>5. Latest(past).kind = "pin"
    BY <2>1, <2>4 DEF LastIsPin
  <2> QED
    BY <2>3, <2>5
<1> QED
  BY <1>1, OmpInvariant, ChargeInvariant, PTL
=============================================================================
