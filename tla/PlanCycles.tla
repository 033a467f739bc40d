------------------------------ MODULE PlanCycles ------------------------------
(***************************************************************************)
(* How the plan page turns quota samples into billing cycles (plans.rs).   *)
(* A sample says what share of a quota is used and when it resets.  The    *)
(* share used in a cycle, and the recorded usage in the cycle's window,    *)
(* give the size of the quota.  Refills before the reset, jitter of the    *)
(* reset time and overlapping windows make the windows hard to cut.        *)
(***************************************************************************)
EXTENDS Integers, Sequences, FiniteSetsExt

CONSTANTS
  Account,          \* the accounts of one provider; keys are ordered
  Percent,          \* the used shares a sample may report
  Window,           \* the lengths of a quota's window
  CycleTolerance,   \* CYCLE_TOLERANCE_MS
  GroupTolerance,   \* GROUP_TOLERANCE_MS
  FirstEvent,       \* the first recorded usage of the provider
  MaxSamples,       \* bound: samples in the ledgers
  LastInstant       \* bound: time stops there

ASSUME CyclesAssumption ==
  /\ Account \subseteq Nat
  /\ Percent \subseteq Nat /\ Window \subseteq Nat \ {0}
  /\ {CycleTolerance, GroupTolerance, MaxSamples, LastInstant} \subseteq Nat
  /\ FirstEvent \in Int

VARIABLES
  instant,          \* now_ms
  samples           \* the ledgers' samples in the order of recorded_at

cycleVars == <<instant, samples>>

CyclesInit == instant = 0 /\ samples = <<>>

(* omp or the Grok CLI records a sample; the window it tells of has begun, *)
(* and resets later.                                                       *)
Record(a, percent, window, resets) ==
  /\ Len(samples) < MaxSamples
  /\ resets \in instant + 1 .. instant + window
  /\ samples' = Append(samples, [account |-> a, at |-> instant, window |-> window,
                                 percent |-> percent, resets |-> resets])
  /\ UNCHANGED instant

Elapse ==
  /\ instant < LastInstant
  /\ instant' = instant + 1
  /\ UNCHANGED samples

CyclesNext ==
  \/ Elapse
  \/ \E a \in Account, p \in Percent, w \in Window, d \in 1..Max(Window) :
       Record(a, p, w, instant + d)

CyclesSpec == CyclesInit /\ [][CyclesNext]_cycleVars

-----------------------------------------------------------------------------
(* A finite set as a sequence in the order of the relation `before'.       *)
Sorted(S, before) ==
  CHOOSE q \in [1..Cardinality(S) -> S] :
    \A i, j \in 1..Cardinality(S) : i < j => <<q[i], q[j]>> \in before

Abs(n) == IF n < 0 THEN -n ELSE n

(* A sample in the cycle whose first sample is the anchor'th: samples of   *)
(* one reset, up to jitter, in a row.                                      *)
SameReset(s, anchor) ==
  anchor # 0 /\ Abs(s.resets - samples[anchor].resets) <= CycleTolerance

(* The shares used: a fall means that the quota was refilled, and the peak *)
(* before it counts as well.                                               *)
Climb(c, percent) ==
  IF percent < c.peak THEN [c EXCEPT !.total = @ + c.peak, !.peak = percent]
                      ELSE [c EXCEPT !.peak = percent]

(* The cycle each account is in after n samples: its anchor and its shares.*)
Clusters[n \in 0..Len(samples)] ==
  IF n = 0 THEN [a \in Account |-> [anchor |-> 0, total |-> 0, peak |-> 0]]
  ELSE LET s == samples[n] IN
       [Clusters[n - 1] EXCEPT ![s.account] =
          IF SameReset(s, @.anchor)
          THEN Climb(@, s.percent)
          ELSE [anchor |-> n, total |-> 0, peak |-> s.percent]]

Cluster(m) == Clusters[m][samples[m].account]

(* An account's cycles, each by its last sample.                           *)
Canonical(a) ==
  LET own == {m \in DOMAIN samples : samples[m].account = a}
  IN  {m \in own : \A n \in own : n > m => Cluster(n).anchor # Cluster(m).anchor}

StartOf(m) == samples[m].resets - samples[m].window

CycleOf(m) ==
  LET canonical == samples[m]
      shares    == Cluster(m)
  IN  [start |-> StartOf(m), end |-> canonical.resets, window |-> canonical.window,
       sum |-> shares.total + shares.peak, last |-> canonical.percent,
       sample |-> canonical.at, upto |-> Min({canonical.resets, instant})]

(* Earlier starts first, equal ones as they were.                          *)
StartOrder ==
  {p \in (DOMAIN samples) \X (DOMAIN samples) :
     \/ StartOf(p[1]) < StartOf(p[2])
     \/ StartOf(p[1]) = StartOf(p[2]) /\ p[1] < p[2]}

(* Mutant: a cycle runs on when the next one has begun.                    *)
RunOn(cycles) == cycles

(* A cycle is counted up to the start of the one that succeeds it.         *)
Truncate(cycles) ==
  [i \in DOMAIN cycles |->
     IF i = Len(cycles) THEN cycles[i]
     ELSE [cycles[i] EXCEPT !.upto = Min({@, cycles[i + 1].start})]]

(* account_cycles.                                                         *)
AccountCycles(a) ==
  LET order == Sorted(Canonical(a), StartOrder)
  IN  Truncate([i \in DOMAIN order |-> CycleOf(order[i])])

(* GroupCycle::push.                                                       *)
NewGroup(a, c) ==
  [start |-> c.start, end |-> c.end, window |-> c.window, upto |-> c.upto,
   sum |-> c.sum, sample |-> c.sample, members |-> {a}]

Joined(g, a, c) ==
  LET end == Min({g.end, c.end}) IN
  [g EXCEPT !.end = end, !.start = end - g.window, !.upto = Min({@, c.upto}),
            !.sum = @ + c.sum, !.sample = Max({@, c.sample}),
            !.members = @ \cup {a}]

(* The cycles of all accounts, each with its place among its account's.    *)
ItemsOf(a) ==
  LET cycles == AccountCycles(a)
  IN  {[account |-> a, place |-> k, cycle |-> cycles[k]] : k \in DOMAIN cycles}

Item == UNION {ItemsOf(a) : a \in Account}

(* Earlier ends first, equal ones as they were: by account and place.      *)
EndOrder(items) ==
  LET Before(x, y) ==
        \/ x.cycle.end < y.cycle.end
        \/ /\ x.cycle.end = y.cycle.end
           /\ x.account < y.account \/ (x.account = y.account /\ x.place < y.place)
  IN  {p \in items \X items : Before(p[1], p[2])}

(* group_cycles: the cycles with about the same end are one, an account at *)
(* most once.                                                              *)
Grouped(gs, x) ==
  IF /\ gs # <<>>
     /\ x.cycle.end - gs[Len(gs)].end <= GroupTolerance
     /\ x.account \notin gs[Len(gs)].members
  THEN [gs EXCEPT ![Len(gs)] = Joined(@, x.account, x.cycle)]
  ELSE Append(gs, NewGroup(x.account, x.cycle))

Groups(items) ==
  LET gs[n \in 0..Len(items)] == IF n = 0 THEN <<>> ELSE Grouped(gs[n - 1], items[n])
  IN  gs[Len(items)]

GroupCycles == Groups(Sorted(Item, EndOrder(Item)))

(* measure: where the window ends, and whether the cycle is kept -- it is  *)
(* dropped when empty or when over a tenth of it was not recorded.         *)
MeasuredEnd(g) == Max({g.start, Min({g.upto, instant})})
Kept(g) ==
  /\ MeasuredEnd(g) > g.start
  /\ 10 * (FirstEvent - g.start) <= MeasuredEnd(g) - g.start
Measured(g) == g.start .. MeasuredEnd(g) - 1

-----------------------------------------------------------------------------
(* With one account to a provider, as today: the usage of an instant is    *)
(* set against the quota of one cycle at most, whatever overlap, jitter,   *)
(* refill or return of an earlier reset the samples show (measure).        *)
OneCyclePerInstant(gs) ==
  \A i, j \in DOMAIN gs :
    i < j /\ Kept(gs[i]) /\ Kept(gs[j]) => Measured(gs[i]) \cap Measured(gs[j]) = {}

(* The bounds given to clamp are in order: it panics otherwise (measure).  *)
ClampInOrder(gs) == \A i \in DOMAIN gs : gs[i].start <= instant

(* The share used in a cycle is no less than its last sample says.         *)
SharesCovered ==
  \A a \in Account :
    LET cycles == AccountCycles(a) IN
    \A i \in DOMAIN cycles : cycles[i].sum >= cycles[i].last

(* The usage of an instant counts once, and measures what it should.       *)
UsageInOneCycle ==
  /\ LET gs == GroupCycles IN OneCyclePerInstant(gs) /\ ClampInOrder(gs)
  /\ SharesCovered
=============================================================================
