----------------------------- MODULE MonitorProofs -----------------------------
(***************************************************************************)
(* Theorems about Monitor, for every set of sources, accounts and routes   *)
(* and every length of the channel: the types, that the cards on the       *)
(* screen are those of the account it names, that `r' never asks before a  *)
(* delay the server asked for is over, and that no curl outlives its       *)
(* thread.                                                                 *)
(***************************************************************************)
EXTENDS Monitor, TLAPS

-----------------------------------------------------------------------------
(* What the channel may carry (worker.rs, Update).                         *)
StartedMsg == [source : Source, kind : {"started"}, account : Account]
FinishedMsg ==
  [source : Source, kind : {"finished"}, account : Account \cup {None},
   ok : BOOLEAN, held : BOOLEAN, invalidate : BOOLEAN]
ProbeMsg == [route : Route, result : {"failed", "ok"}]
Message == StartedMsg \cup FinishedMsg \cup ProbeMsg

State ==
  [identity : Account \cup {None}, cards : Account \cup {None}, hold : Account \cup {None}]

QuotaTypeOK ==
  /\ login \in [Source -> Account \cup {None}]
  /\ pc \in [Source -> {"begin", "querying", "waiting", "off"}]
  /\ asked \in [Source -> Account \cup {None}]
  /\ \A s \in Source : pc[s] = "querying" => asked[s] \in Account
  /\ failures \in [Source -> 0..MaxFailures]
  /\ wait \in [Source -> Nat]
  /\ notBefore \in [Source -> Nat]
  /\ ban \in [Source -> Nat]
  /\ trigger \in [Source -> BOOLEAN]
  /\ view \in [Source -> State]

ProbeTypeOK ==
  /\ rpc \in [Route -> {"start", "probing", "killed", "reaped", "waiting", "off"}]
  /\ child \in [Route -> {"none", "running", "exited"}]
  /\ age \in [Route -> Nat]
  /\ backoff \in [Route -> 0..MaxBackoff]
  /\ pending \in [Route -> BOOLEAN]
  /\ rtrigger \in [Route -> BOOLEAN]
  /\ current \in [Route -> {"none", "failed", "ok"}]

LifeTypeOK ==
  /\ alive \in BOOLEAN /\ shutdown \in BOOLEAN /\ finished \in BOOLEAN
  /\ main \in {"loop", "stuck", "join", "drop", "joinWorkers", "ended"}
  /\ watch \in {"probe", "sleep", "off"}
  /\ stop \in BOOLEAN
  /\ updates \in Seq(Message)

MonitorTypeOK == QuotaTypeOK /\ ProbeTypeOK /\ LifeTypeOK

(* error_delay never is more than the longest delay, and is a time.        *)
LEMMA ErrorDelayIsTime ==
  ASSUME NEW n \in 0..MaxFailures, n # 0
  PROVE  ErrorDelay(n) \in Nat
<1> USE QuotaAssumption
<1> DEFINE k == Shorter(n - 1, 4)
<1>1. k \in 0..4
  BY DEF Shorter
<1>2. 2 ^ 0 = 1 /\ 2 ^ 1 = 2 /\ 2 ^ 2 = 4 /\ 2 ^ 3 = 8 /\ 2 ^ 4 = 16
  BY SMT
<1>3. 2 ^ k \in Nat
  <2>1. k = 0 \/ k = 1 \/ k = 2 \/ k = 3 \/ k = 4
    BY <1>1
  <2> HIDE DEF k
  <2>2. 2 ^ k = 1 \/ 2 ^ k = 2 \/ 2 ^ k = 4 \/ 2 ^ k = 8 \/ 2 ^ k = 16
    BY <1>2, <2>1, Zenon
  <2> QED
    BY <2>2
<1>4. Base * 2 ^ k \in Nat
  <2> HIDE DEF k
  <2> DEFINE p == 2 ^ k
  <2>1. p \in Nat
    BY <1>3
  <2> HIDE DEF p
  <2>2. Base * p \in Nat
    BY <2>1
  <2> QED
    BY <2>2 DEF p
<1>5. ErrorDelay(n) = IF Base * 2 ^ k <= Cap THEN Base * 2 ^ k ELSE Cap
  BY DEF ErrorDelay, Shorter
<1> QED
  BY <1>4, <1>5

LEMMA AnswerParts ==
  ASSUME NEW answer \in Answer
  PROVE  /\ answer.ok \in BOOLEAN
         /\ ~answer.ok => answer.retry \in Nat /\ answer.invalidate \in BOOLEAN
<1>1. CASE answer \in [ok : {TRUE}, reset : 0..MaxReset, weekly : BOOLEAN]
  BY <1>1
<1>2. CASE answer \in [ok : {FALSE}, retry : 0..MaxRetry, invalidate : BOOLEAN]
  <2>1. answer.ok \in BOOLEAN /\ answer.retry \in 0..MaxRetry /\ answer.invalidate \in BOOLEAN
    BY <1>2
  <2> QED
    BY <2>1, QuotaAssumption
<1> QED
  BY <1>1, <1>2 DEF Answer

(* Whatever the answer, the next round is some time away.                  *)
LEMMA NextDelayIsTime ==
  ASSUME NEW answer \in Answer, NEW n \in 0..MaxFailures, ~answer.ok => n # 0
  PROVE  NextDelay(answer, n) \in Nat /\ DeafFor(answer) \in Nat
<1> USE QuotaAssumption
<1>1. CASE answer.ok
  <2>1. answer \in [ok : {TRUE}, reset : 0..MaxReset, weekly : BOOLEAN]
    BY <1>1 DEF Answer
  <2> QED
    BY <1>1, <2>1 DEF NextDelay, Hold, Shorter, DeafFor
<1>2. CASE ~answer.ok
  <2>1. answer \in [ok : {FALSE}, retry : 0..MaxRetry, invalidate : BOOLEAN]
    BY <1>2 DEF Answer
  <2>2. ErrorDelay(n) \in Nat
    BY <1>2, ErrorDelayIsTime
  <2> QED
    BY <1>2, <2>1, <2>2 DEF NextDelay, Longer, DeafFor
<1> QED
  BY <1>1, <1>2

-----------------------------------------------------------------------------
(* Only messages enter the channel.                                        *)
LEMMA QuotaStepTypes ==
  ASSUME MonitorTypeOK, NEW s \in Source, QuotaStep(s), UNCHANGED <<life, probeVars>>
  PROVE  MonitorTypeOK'
<1> USE QuotaAssumption DEF MonitorTypeOK
<1>1. ProbeTypeOK'
  BY DEF ProbeTypeOK, probeVars, probe
<1> SUFFICES QuotaTypeOK' /\ LifeTypeOK'
  BY <1>1
<1> USE DEF QuotaTypeOK, LifeTypeOK, life
<1>2. ASSUME NEW a \in Account \cup {None}, ChangeLogin(s, a)
      PROVE  QuotaTypeOK' /\ LifeTypeOK'
  BY <1>2 DEF ChangeLogin, thread
<1>3. CASE Prepare(s)
  <2> DEFINE m == [source |-> s, kind |-> "started", account |-> login[s]]
  <2>1. m \in Message
    BY <1>3 DEF Prepare, Message, StartedMsg
  <2>2. updates' \in Seq(Message)
    BY <1>3, <2>1 DEF Prepare, Send
  <2> QED
    BY <1>3, <2>2 DEF Prepare
<1>4. ASSUME NEW answer \in Answer, Finish(s, answer) PROVE QuotaTypeOK' /\ LifeTypeOK'
  <2> DEFINE n == IF answer.ok THEN 0 ELSE Shorter(failures[s] + 1, MaxFailures)
             m == [source |-> s, kind |-> "finished", account |-> asked[s],
                   ok |-> answer.ok, held |-> answer.ok /\ Hold(answer) > 0,
                   invalidate |-> ~answer.ok /\ answer.invalidate]
  <2>1. /\ answer.ok \in BOOLEAN
        /\ ~answer.ok => answer.retry \in Nat /\ answer.invalidate \in BOOLEAN
    BY AnswerParts
  <2>2. n \in 0..MaxFailures /\ (~answer.ok => n # 0)
    BY <2>1 DEF Shorter
  <2>3. NextDelay(answer, n) \in Nat /\ DeafFor(answer) \in Nat
    <3> HIDE DEF n
    <3> QED
      BY <1>4, <2>2, NextDelayIsTime
  <2>4. m \in Message
    BY <2>1 DEF Message, FinishedMsg
  <2>5. updates' \in Seq(Message)
    BY <1>4, <2>4 DEF Finish, Send
  <2>6. /\ failures' = [failures EXCEPT ![s] = n]
        /\ wait' = [wait EXCEPT ![s] = NextDelay(answer, n)]
        /\ notBefore' = [notBefore EXCEPT ![s] = DeafFor(answer)]
        /\ ban' = [ban EXCEPT ![s] = IF answer.ok THEN 0 ELSE answer.retry]
        /\ trigger' = [trigger EXCEPT ![s] = FALSE]
        /\ pc' = [pc EXCEPT ![s] = "waiting"]
        /\ asked' = [asked EXCEPT ![s] = None]
        /\ UNCHANGED <<login, view, stop>>
    BY <1>4 DEF Finish
  <2> HIDE DEF n
  <2> QED
    BY <2>1, <2>2, <2>3, <2>5, <2>6
<1>5. CASE PrepareFails(s)
  <2>1. PICK inv \in BOOLEAN : Finish(s, [ok |-> FALSE, retry |-> 0, invalidate |-> inv])
    BY <1>5 DEF PrepareFails
  <2>2. [ok |-> FALSE, retry |-> 0, invalidate |-> inv] \in Answer
    BY DEF Answer
  <2> QED
    BY <1>4, <2>1, <2>2
<1>6. ASSUME NEW answer \in Answer, Fetched(s, answer) PROVE QuotaTypeOK' /\ LifeTypeOK'
  BY <1>4, <1>6 DEF Fetched
<1>7. CASE WakeUp(s)
  BY <1>7 DEF WakeUp
<1>8. CASE DropEarlyRequest(s)
  BY <1>8 DEF DropEarlyRequest, thread
<1>9. CASE QuotaStops(s)
  BY <1>9 DEF QuotaStops
<1> QED
  BY <1>2, <1>3, <1>5, <1>6, <1>7, <1>8, <1>9 DEF QuotaStep

LEMMA ProbeStepTypes ==
  ASSUME MonitorTypeOK, NEW r \in Route, ProbeStep(r), UNCHANGED <<life, quotaVars>>
  PROVE  MonitorTypeOK'
<1> USE ProbeAssumption DEF MonitorTypeOK
<1>1. QuotaTypeOK'
  BY DEF QuotaTypeOK, quotaVars, thread
<1> SUFFICES ProbeTypeOK' /\ LifeTypeOK'
  BY <1>1
<1> USE DEF ProbeTypeOK, LifeTypeOK, life
<1>2. ASSUME NEW result \in {"failed", "ok"}, Report(r, result)
      PROVE  updates' \in Seq(Message)
  BY <1>2 DEF Report, Send, Message, ProbeMsg
<1>3. CASE SpawnProbe(r)
  BY <1>3 DEF SpawnProbe
<1>4. CASE SpawnFails(r)
  BY <1>2, <1>4 DEF SpawnFails
<1>5. CASE CurlExits(r)
  BY <1>5 DEF CurlExits
<1>6. CASE KillChild(r)
  BY <1>6 DEF KillChild
<1>7. CASE ReapChild(r)
  BY <1>7 DEF ReapChild
<1>8. CASE Reported(r)
  <2>1. PICK result \in {"failed", "ok"}, retry \in 0..MaxBackoff :
          FinishProbe(r, result, retry)
    BY <1>8 DEF Reported
  <2> QED
    BY <1>2, <2>1 DEF FinishProbe
<1>9. CASE NoteRequest(r)
  BY <1>9 DEF NoteRequest
<1>10. CASE NextProbe(r)
  BY <1>10 DEF NextProbe
<1>11. CASE ProbeStops(r)
  BY <1>11 DEF ProbeStops
<1> QED
  BY <1>3, <1>4, <1>5, <1>6, <1>7, <1>8, <1>9, <1>10, <1>11 DEF ProbeStep

LEMMA TakenMessageTypes ==
  ASSUME MonitorTypeOK, Drain
  PROVE  MonitorTypeOK'
<1> USE DEF MonitorTypeOK
<1>1. Head(updates) \in Message /\ updates' \in Seq(Message)
  BY DEF LifeTypeOK, Drain
<1>2. LifeTypeOK'
  BY <1>1 DEF LifeTypeOK, Drain, life
<1>3. CASE "source" \in DOMAIN Head(updates) /\ ShowQuota(Head(updates)) /\ UNCHANGED current
  <2> DEFINE msg == Head(updates)
  <2>1. msg \in StartedMsg \cup FinishedMsg
    BY <1>1, <1>3 DEF Message, ProbeMsg
  <2>2. /\ msg.source \in Source
        /\ msg.account \in Account \cup {None}
    BY <2>1 DEF StartedMsg, FinishedMsg
  <2>3. ASSUME NEW state \in State
        PROVE  Began(state, msg.account) \in State /\ Finished(state, msg) \in State
    BY <2>2 DEF State, Began, Finished, NewState
  <2>4. view' \in [Source -> State]
    <3> HIDE DEF msg
    <3>1. view' = [view EXCEPT ![msg.source] =
                    IF msg.kind = "started" THEN Began(view[msg.source], msg.account)
                    ELSE Finished(view[msg.source], msg)]
      BY <1>3 DEF ShowQuota, msg
    <3> QED
      BY <2>2, <2>3, <3>1 DEF QuotaTypeOK
  <2> QED
    BY <1>2, <1>3, <2>4 DEF QuotaTypeOK, ProbeTypeOK, Drain, thread, probe
<1>4. CASE "route" \in DOMAIN Head(updates) /\ ShowProbe(Head(updates)) /\ UNCHANGED view
  <2>1. Head(updates) \in ProbeMsg
    BY <1>1, <1>4 DEF Message, StartedMsg, FinishedMsg
  <2>2. current' \in [Route -> {"none", "failed", "ok"}]
    BY <1>4, <2>1 DEF ShowProbe, ProbeMsg, ProbeTypeOK
  <2> QED
    BY <1>2, <1>4, <2>2 DEF QuotaTypeOK, ProbeTypeOK, Drain, thread, probe
<1> QED
  BY <1>3, <1>4 DEF Drain

LEMMA ProcessEndTypes ==
  ASSUME MonitorTypeOK, EndProcess
  PROVE  MonitorTypeOK'
<1> USE DEF MonitorTypeOK, EndProcess
<1>1. QuotaTypeOK'
  BY DEF QuotaTypeOK
<1>2. ProbeTypeOK'
  BY DEF ProbeTypeOK
<1>3. LifeTypeOK'
  BY DEF LifeTypeOK
<1> QED
  BY <1>1, <1>2, <1>3

LEMMA TimeTypes ==
  ASSUME MonitorTypeOK, Tick
  PROVE  MonitorTypeOK'
<1> USE DEF MonitorTypeOK, Tick
<1>1. QuotaTypeOK'
  BY DEF QuotaTypeOK, QuotaTick, Left
<1>2. ProbeTypeOK'
  <2>1. Cadence \in Nat
    BY ProbeAssumption DEF Cadence, Longer, MinInterval
  <2> QED
    BY <2>1, ProbeAssumption DEF ProbeTypeOK, ProbeTick, Left, Shorter
<1>3. LifeTypeOK'
  BY DEF LifeTypeOK, life
<1> QED
  BY <1>1, <1>2, <1>3

(* The types of every thread's state and of the messages in the channel.   *)
THEOREM MonitorTypeCorrect == Spec => []MonitorTypeOK
<1>1. Init => MonitorTypeOK
  <2> SUFFICES ASSUME Init PROVE MonitorTypeOK
    OBVIOUS
  <2>1. PICK http \in BOOLEAN, network \in BOOLEAN :
          /\ QuotaInit(IF http THEN Source ELSE {})
          /\ ProbeInit(IF network THEN Route ELSE {})
    BY DEF Init
  <2>2. QuotaTypeOK
    BY <2>1, QuotaAssumption DEF QuotaInit, QuotaTypeOK, NewState, State
  <2>3. ProbeTypeOK
    BY <2>1, ProbeAssumption DEF ProbeInit, ProbeTypeOK
  <2>4. LifeTypeOK
    <3>1. <<>> \in Seq(Message)
      OBVIOUS
    <3> QED
      BY <3>1 DEF Init, LifeTypeOK
  <2> QED
    BY <2>2, <2>3, <2>4 DEF MonitorTypeOK
<1>2. MonitorTypeOK /\ [Next]_vars => MonitorTypeOK'
  <2> SUFFICES ASSUME MonitorTypeOK, [Next]_vars PROVE MonitorTypeOK'
    OBVIOUS
  <2>1. ASSUME NEW s \in Source, QuotaStep(s), UNCHANGED <<life, probeVars>>
        PROVE  MonitorTypeOK'
    BY <2>1, QuotaStepTypes
  <2>2. ASSUME NEW r \in Route, ProbeStep(r), UNCHANGED <<life, quotaVars>>
        PROVE  MonitorTypeOK'
    BY <2>2, ProbeStepTypes
  <2>3. CASE Drain
    BY <2>3, TakenMessageTypes
  <2>4. CASE EndProcess
    BY <2>4, ProcessEndTypes
  <2>5. CASE Tick
    BY <2>5, TimeTypes
  <2>6. CASE Refresh
    BY <2>6 DEF Refresh, MonitorTypeOK, QuotaTypeOK, ProbeTypeOK, LifeTypeOK, life,
                thread, probe
  <2>7. CASE DropWorkers
    BY <2>7 DEF DropWorkers, MonitorTypeOK, QuotaTypeOK, ProbeTypeOK, LifeTypeOK,
                quotaVars, probeVars, thread, probe
  <2>8. ASSUME UNCHANGED threads, LifeTypeOK' PROVE MonitorTypeOK'
    BY <2>8 DEF MonitorTypeOK, QuotaTypeOK, ProbeTypeOK, threads, quotaVars,
                probeVars, thread, probe
  <2>9. CASE \/ Signal \/ Hangup \/ LeaveLoop \/ LoopFails \/ GetStuck
             \/ JoinWatchdog \/ WatchdogNaps \/ WatchdogWakes
    <3>1. UNCHANGED threads /\ LifeTypeOK'
      BY <2>9 DEF Signal, Hangup, LeaveLoop, LoopFails, GetStuck, JoinWatchdog,
                  WatchdogNaps, WatchdogWakes, MonitorTypeOK, LifeTypeOK, threads
    <3> QED
      BY <2>8, <3>1
  <2>10. CASE UNCHANGED vars
    BY <2>10 DEF MonitorTypeOK, QuotaTypeOK, ProbeTypeOK, LifeTypeOK, vars, life,
                 quotaVars, probeVars, thread, probe
  <2> QED
    BY <2>1, <2>2, <2>3, <2>4, <2>5, <2>6, <2>7, <2>9, <2>10
    DEF Next, MainStep, WatchStep, ReturnFromMain, WatchdogExits
<1> QED
  BY <1>1, <1>2, PTL DEF Spec

-----------------------------------------------------------------------------
(* The cards: what the channel still holds, read behind what is shown.     *)
Of(msg, s) == "source" \in DOMAIN msg /\ msg.source = s

(* After the first n unread messages the account announced for s is a, and *)
(* nothing else has been said of s since.                                  *)
Announced(queue, shown, s, n, a) ==
  \/ \E j \in 1..n :
       /\ Of(queue[j], s) /\ queue[j].kind = "started" /\ queue[j].account = a
       /\ \A k \in (j + 1)..n : ~Of(queue[k], s)
  \/ /\ shown[s].identity = a
     /\ \A k \in 1..n : ~Of(queue[k], s)

(* Cards come right behind the announcement of their account, and while a  *)
(* thread asks, its announcement is the last that was said of its source.  *)
AnswersFollowTheirStart ==
  \A s \in Source :
    /\ pc[s] = "querying" => Announced(updates, view, s, Len(updates), asked[s])
    /\ \A i \in 1..Len(updates) :
         Of(updates[i], s) /\ updates[i].kind = "finished" /\ updates[i].ok =>
           Announced(updates, view, s, i - 1, updates[i].account)

CardsInv == CardsOfIdentity /\ AnswersFollowTheirStart

(* A message more behind the others.                                       *)
LEMMA SentBehind ==
  ASSUME updates \in Seq(Message), NEW m \in Message, updates' = Append(updates, m), view' = view,
         NEW s \in Source, NEW a
  PROVE  /\ \A n \in 0..Len(updates) : Announced(updates, view, s, n, a) => Announced(updates', view', s, n, a)
         /\ ~Of(m, s) /\ Announced(updates, view, s, Len(updates), a) => Announced(updates', view', s, Len(updates'), a)
         /\ Of(m, s) /\ m.kind = "started" /\ m.account = a => Announced(updates', view', s, Len(updates'), a)
<1> DEFINE len == Len(updates)
<1>1. /\ len \in Nat /\ Len(updates') = len + 1
      /\ updates'[len + 1] = m
      /\ \A k \in 1..len : updates'[k] = updates[k]
  OBVIOUS
<1> HIDE DEF len
<1>2. ASSUME NEW n \in 0..len, Announced(updates, view, s, n, a) PROVE Announced(updates', view', s, n, a)
  BY <1>1, <1>2 DEF Announced
<1>3. ASSUME ~Of(m, s), Announced(updates, view, s, len, a) PROVE Announced(updates', view', s, len + 1, a)
  <2>1. \A k \in 1..(len + 1) : k \in 1..len \/ k = len + 1
    BY <1>1
  <2> QED
    BY <1>1, <1>3, <2>1 DEF Announced
<1>4. ASSUME Of(m, s), m.kind = "started", m.account = a PROVE Announced(updates', view', s, len + 1, a)
  BY <1>1, <1>4 DEF Announced
<1> QED
  BY <1>1, <1>2, <1>3, <1>4 DEF len

(* A thread says what is right to say behind what it has said before.      *)
LEMMA SentKeepsCards ==
  ASSUME MonitorTypeOK, CardsInv, NEW m \in Message,
         updates' = Append(updates, m), view' = view,
         \A s \in Source : pc'[s] = "querying" =>
           \/ pc[s] = "querying" /\ asked'[s] = asked[s] /\ ~Of(m, s)
           \/ Of(m, s) /\ m.kind = "started" /\ m.account = asked'[s],
         \A s \in Source : Of(m, s) /\ m.kind = "finished" /\ m.ok =>
           pc[s] = "querying" /\ m.account = asked[s]
  PROVE  CardsInv'
<1> USE DEF CardsInv
<1>1. CardsOfIdentity'
  BY DEF CardsOfIdentity
<1>2. updates \in Seq(Message)
  BY DEF MonitorTypeOK, LifeTypeOK
<1>3. /\ Len(updates) \in Nat /\ Len(updates') = Len(updates) + 1
      /\ updates'[Len(updates) + 1] = m
      /\ \A k \in 1..Len(updates) : updates'[k] = updates[k]
  BY <1>2
<1>4. ASSUME NEW s \in Source, pc'[s] = "querying"
      PROVE  Announced(updates', view', s, Len(updates'), asked'[s])
  BY <1>2, <1>4, SentBehind DEF AnswersFollowTheirStart
<1>5. ASSUME NEW s \in Source, NEW i \in 1..Len(updates'), Of(updates'[i], s),
             updates'[i].kind = "finished", updates'[i].ok
      PROVE  Announced(updates', view', s, i - 1, updates'[i].account)
  <2>1. CASE i \in 1..Len(updates)
    <3>1. Announced(updates, view, s, i - 1, updates[i].account) /\ updates'[i] = updates[i]
      BY <1>3, <1>5, <2>1 DEF AnswersFollowTheirStart
    <3>2. i - 1 \in 0..Len(updates)
      BY <1>3, <2>1
    <3> QED
      BY <1>2, <3>1, <3>2, SentBehind
  <2>2. CASE i = Len(updates) + 1
    <3>1. Announced(updates, view, s, Len(updates), m.account) /\ updates'[i] = m
      BY <1>3, <1>5, <2>2 DEF AnswersFollowTheirStart
    <3>2. i - 1 = Len(updates) /\ Len(updates) \in 0..Len(updates)
      BY <1>3, <2>2
    <3> QED
      BY <1>2, <3>1, <3>2, SentBehind
  <2> QED
    BY <1>3, <2>1, <2>2
<1>6. AnswersFollowTheirStart'
  BY <1>4, <1>5 DEF AnswersFollowTheirStart
<1> QED
  BY <1>1, <1>6

(* The main loop takes the oldest message and shows it.                    *)
LEMMA DrainKeepsCards ==
  ASSUME MonitorTypeOK, CardsInv, Drain
  PROVE  CardsInv'
<1> USE DEF CardsInv
<1> DEFINE h == updates[1]
<1>1. /\ updates \in Seq(Message) /\ updates # <<>> /\ updates' = Tail(updates)
      /\ view \in [Source -> State]
      /\ UNCHANGED <<pc, asked>>
  BY DEF MonitorTypeOK, LifeTypeOK, QuotaTypeOK, Drain, thread
<1>2. /\ Len(updates) \in Nat \ {0} /\ Len(updates') = Len(updates) - 1
      /\ h = Head(updates) /\ h \in Message
      /\ \A k \in 1..(Len(updates) - 1) : updates'[k] = updates[k + 1]
  BY <1>1
<1> HIDE DEF h
<1>3. ASSUME NEW s \in Source
      PROVE  view'[s] = IF ~Of(h, s) THEN view[s]
                        ELSE IF h.kind = "started" THEN Began(view[s], h.account)
                        ELSE Finished(view[s], h)
  <2>1. CASE "source" \in DOMAIN h /\ ShowQuota(h)
    <3>1. h.source \in Source
      BY <1>2, <2>1 DEF Message, StartedMsg, FinishedMsg, ProbeMsg
    <3> QED
      BY <1>1, <2>1, <3>1 DEF ShowQuota, Of
  <2>2. CASE "route" \in DOMAIN h /\ UNCHANGED view
    <3>1. ~("source" \in DOMAIN h)
      BY <1>2, <2>2 DEF Message, StartedMsg, FinishedMsg, ProbeMsg
    <3> QED
      BY <2>2, <3>1 DEF Of
  <2> QED
    BY <1>2, <2>1, <2>2 DEF Drain
<1>4. ASSUME NEW s \in Source, Of(h, s)
      PROVE  h \in StartedMsg \cup FinishedMsg
  BY <1>2, <1>4 DEF Message, ProbeMsg, Of
<1>5. ASSUME NEW s \in Source, Of(h, s), h.kind = "started"
      PROVE  /\ view'[s].identity = h.account
             /\ view'[s].cards # None => view'[s].cards = h.account
             /\ view'[s].hold # None => view'[s].hold = view'[s].cards
  BY <1>1, <1>3, <1>5 DEF CardsOfIdentity, Began, NewState, State
<1>6. ASSUME NEW s \in Source, Of(h, s), h.kind = "finished", h.ok
      PROVE  view[s].identity = h.account
  <2>1. Announced(updates, view, s, 1 - 1, h.account)
    BY <1>2, <1>6 DEF AnswersFollowTheirStart, h
  <2> QED
    BY <2>1 DEF Announced
<1>7. CardsOfIdentity'
  <2> SUFFICES ASSUME NEW s \in Source
               PROVE  /\ view'[s].cards # None => view'[s].cards = view'[s].identity
                      /\ view'[s].hold # None => view'[s].hold = view'[s].cards
    BY DEF CardsOfIdentity
  <2>1. CASE ~Of(h, s)
    BY <1>3, <2>1 DEF CardsOfIdentity
  <2>2. CASE Of(h, s) /\ h.kind = "started"
    BY <1>5, <2>2
  <2>3. CASE Of(h, s) /\ h.kind = "finished"
    <3>1. view[s] \in State /\ view'[s] = Finished(view[s], h)
      BY <1>1, <1>3, <2>3
    <3>2. CASE h.ok
      <4>1. /\ view'[s].cards = h.account /\ view'[s].identity = view[s].identity
            /\ view'[s].hold \in {h.account, None}
        BY <3>1, <3>2 DEF Finished, State
      <4> QED
        BY <1>6, <2>3, <3>2, <4>1
    <3>3. CASE ~h.ok
      BY <3>1, <3>3 DEF CardsOfIdentity, Finished, NewState, State
    <3> QED
      BY <3>2, <3>3
  <2> QED
    BY <1>4, <2>1, <2>2, <2>3 DEF StartedMsg, FinishedMsg
<1>8. ASSUME NEW s \in Source, NEW n \in 1..Len(updates), NEW a, Announced(updates, view, s, n, a)
      PROVE  Announced(updates', view', s, n - 1, a)
  <2>1. \A k \in 1..(n - 1) : updates'[k] = updates[k + 1] /\ k + 1 \in 2..n
    BY <1>2
  <2>2. CASE \E j \in 2..n :
              /\ Of(updates[j], s) /\ updates[j].kind = "started" /\ updates[j].account = a
              /\ \A k \in (j + 1)..n : ~Of(updates[k], s)
    <3>1. PICK j \in 2..n :
              /\ Of(updates[j], s) /\ updates[j].kind = "started" /\ updates[j].account = a
              /\ \A k \in (j + 1)..n : ~Of(updates[k], s)
      BY <2>2
    <3>2. j - 1 \in 1..(n - 1) /\ updates'[j - 1] = updates[j]
      BY <1>2, <2>1
    <3>3. ASSUME NEW k \in ((j - 1) + 1)..(n - 1) PROVE ~Of(updates'[k], s)
      <4>1. k \in 1..(n - 1) /\ k + 1 \in (j + 1)..n
        OBVIOUS
      <4> QED
        BY <2>1, <3>1, <4>1
    <3> QED
      BY <3>1, <3>2, <3>3 DEF Announced
  <2>3. CASE /\ Of(h, s) /\ h.kind = "started" /\ h.account = a
             /\ \A k \in 2..n : ~Of(updates[k], s)
    BY <1>5, <2>1, <2>3 DEF Announced
  <2>4. CASE view[s].identity = a /\ \A k \in 1..n : ~Of(updates[k], s)
    <3>1. ~Of(h, s) /\ \A k \in 2..n : ~Of(updates[k], s)
      BY <2>4 DEF h
    <3>2. view'[s] = view[s]
      BY <1>3, <3>1
    <3> QED
      BY <2>1, <2>4, <3>1, <3>2 DEF Announced
  <2> QED
    BY <1>8, <2>2, <2>3, <2>4 DEF Announced, h
<1>9. ASSUME NEW s \in Source, pc'[s] = "querying"
      PROVE  Announced(updates', view', s, Len(updates'), asked'[s])
  BY <1>1, <1>2, <1>8, <1>9 DEF AnswersFollowTheirStart
<1>10. ASSUME NEW s \in Source, NEW i \in 1..Len(updates'), Of(updates'[i], s),
              updates'[i].kind = "finished", updates'[i].ok
       PROVE  Announced(updates', view', s, i - 1, updates'[i].account)
  <2>1. i + 1 \in 1..Len(updates) /\ updates'[i] = updates[i + 1]
    BY <1>2
  <2>2. Announced(updates, view, s, (i + 1) - 1, updates'[i].account)
    BY <1>10, <2>1 DEF AnswersFollowTheirStart
  <2>3. (i + 1) - 1 = i /\ i \in 1..Len(updates)
    BY <1>2
  <2> QED
    BY <1>8, <2>2, <2>3
<1> QED
  BY <1>7, <1>9, <1>10 DEF AnswersFollowTheirStart

(* The cards on the screen were brought by a credential of the account the *)
(* screen names (model.rs, begin and finish), for every number of unread   *)
(* messages and whatever the user logs in with meanwhile.                  *)
THEOREM CardsOfIdentityHolds == Spec => []CardsOfIdentity
<1>1. Init => CardsInv
  <2> SUFFICES ASSUME Init PROVE CardsInv
    OBVIOUS
  <2>1. /\ updates = <<>>
        /\ pc \in [Source -> {"begin", "off"}]
        /\ view = [s \in Source |-> NewState]
    BY DEF Init, QuotaInit
  <2> QED
    BY <2>1 DEF CardsInv, CardsOfIdentity, AnswersFollowTheirStart, NewState
<1>2. MonitorTypeOK /\ CardsInv /\ [Next]_vars => CardsInv'
  <2> SUFFICES ASSUME MonitorTypeOK, CardsInv, [Next]_vars PROVE CardsInv'
    OBVIOUS
  <2> USE DEF MonitorTypeOK
  <2>1. ASSUME UNCHANGED <<view, updates>>,
               \A s \in Source : pc'[s] = "querying" =>
                 pc[s] = "querying" /\ asked'[s] = asked[s]
        PROVE  CardsInv'
    BY <2>1 DEF CardsInv, CardsOfIdentity, AnswersFollowTheirStart
  <2>2. ASSUME NEW s \in Source, Prepare(s) PROVE CardsInv'
    <3> DEFINE m == [source |-> s, kind |-> "started", account |-> login[s]]
    <3>1. m \in Message
      BY <2>2 DEF Prepare, Message, StartedMsg, QuotaTypeOK
    <3>2. /\ updates' = Append(updates, m) /\ view' = view
          /\ pc' = [pc EXCEPT ![s] = "querying"]
          /\ asked' = [asked EXCEPT ![s] = login[s]]
      BY <2>2 DEF Prepare, Send
    <3>3. /\ m.kind = "started" /\ m.account = login[s]
          /\ \A t \in Source : Of(m, t) <=> t = s
      BY DEF Of
    <3>4. \A t \in Source : pc'[t] = "querying" =>
            \/ pc[t] = "querying" /\ asked'[t] = asked[t] /\ ~Of(m, t)
            \/ Of(m, t) /\ m.kind = "started" /\ m.account = asked'[t]
      BY <3>2, <3>3 DEF QuotaTypeOK
    <3>5. ~(m.kind = "finished")
      BY <3>3
    <3> HIDE DEF m
    <3> QED
      BY <3>1, <3>2, <3>4, <3>5, SentKeepsCards
  <2>3. ASSUME NEW s \in Source, NEW answer \in Answer, Finish(s, answer),
               answer.ok => pc[s] = "querying"
        PROVE  CardsInv'
    <3> DEFINE m == [source |-> s, kind |-> "finished", account |-> asked[s],
                     ok |-> answer.ok, held |-> answer.ok /\ Hold(answer) > 0,
                     invalidate |-> ~answer.ok /\ answer.invalidate]
    <3>1. m \in Message
      BY AnswerParts DEF Message, FinishedMsg, QuotaTypeOK
    <3>2. /\ updates' = Append(updates, m) /\ view' = view
          /\ pc' = [pc EXCEPT ![s] = "waiting"]
          /\ asked' = [asked EXCEPT ![s] = None]
      BY <2>3 DEF Finish, Send
    <3>3. /\ m.kind = "finished" /\ m.account = asked[s] /\ m.ok = answer.ok
          /\ \A t \in Source : Of(m, t) <=> t = s
      BY DEF Of
    <3>4. \A t \in Source : pc'[t] = "querying" =>
            pc[t] = "querying" /\ asked'[t] = asked[t] /\ ~Of(m, t)
      BY <3>2, <3>3 DEF QuotaTypeOK
    <3>5. \A t \in Source : Of(m, t) /\ m.kind = "finished" /\ m.ok =>
            pc[t] = "querying" /\ m.account = asked[t]
      BY <2>3, <3>3
    <3> HIDE DEF m
    <3> QED
      BY <3>1, <3>2, <3>4, <3>5, SentKeepsCards
  <2>4. ASSUME NEW s \in Source, QuotaStep(s) PROVE CardsInv'
    <3>1. ASSUME NEW inv \in BOOLEAN,
                 Finish(s, [ok |-> FALSE, retry |-> 0, invalidate |-> inv])
          PROVE  CardsInv'
      <4> DEFINE answer == [ok |-> FALSE, retry |-> 0, invalidate |-> inv]
      <4>1. answer \in Answer /\ ~answer.ok
        BY QuotaAssumption DEF Answer
      <4> HIDE DEF answer
      <4> QED
        BY <2>3, <3>1, <4>1 DEF answer
    <3>2. CASE PrepareFails(s)
      BY <3>1, <3>2 DEF PrepareFails
    <3>3. ASSUME NEW answer \in Answer, Fetched(s, answer) PROVE CardsInv'
      BY <2>3, <3>3 DEF Fetched
    <3>4. ASSUME NEW a \in Account \cup {None}, ChangeLogin(s, a) PROVE CardsInv'
      BY <2>1, <3>4 DEF ChangeLogin, thread
    <3>5. CASE WakeUp(s) \/ DropEarlyRequest(s) \/ QuotaStops(s)
      BY <2>1, <3>5 DEF WakeUp, DropEarlyRequest, QuotaStops, thread, QuotaTypeOK
    <3> QED
      BY <2>2, <2>4, <3>2, <3>3, <3>4, <3>5 DEF QuotaStep
  <2>5. ASSUME NEW r \in Route, ProbeStep(r), UNCHANGED <<life, quotaVars>> PROVE CardsInv'
    <3>1. UNCHANGED <<pc, asked, view>>
      BY <2>5 DEF quotaVars, thread
    <3>2. ASSUME NEW result \in {"failed", "ok"}, Report(r, result) PROVE CardsInv'
      <4> DEFINE m == [route |-> r, result |-> result]
      <4>1. m \in Message /\ \A s \in Source : ~Of(m, s)
        BY DEF Message, ProbeMsg, Of
      <4>2. updates' = Append(updates, m)
        BY <3>2 DEF Report, Send
      <4> HIDE DEF m
      <4> QED
        BY <3>1, <4>1, <4>2, SentKeepsCards
    <3>3. CASE UNCHANGED updates
      BY <2>1, <3>1, <3>3
    <3>4. CASE SpawnFails(r) \/ Reported(r)
      BY <3>2, <3>4 DEF SpawnFails, Reported, FinishProbe
    <3> QED
      BY <2>5, <3>3, <3>4 DEF ProbeStep, SpawnProbe, CurlExits, KillChild, ReapChild,
         NoteRequest, NextProbe, ProbeStops
  <2>6. CASE Drain
    BY <2>6, DrainKeepsCards
  <2>7. CASE EndProcess
    <3>1. \A s \in Source : pc'[s] = "off"
      BY <2>7 DEF EndProcess
    <3> QED
      BY <2>1, <2>7, <3>1 DEF EndProcess
  <2>8. CASE UNCHANGED <<pc, asked, view, updates>>
    BY <2>1, <2>8
  <2> QED
    BY <2>4, <2>5, <2>6, <2>7, <2>8
    DEF Next, MainStep, WatchStep, ReturnFromMain, WatchdogExits, Signal, Hangup, Refresh,
        LeaveLoop, LoopFails, GetStuck, JoinWatchdog, DropWorkers, WatchdogNaps,
        WatchdogWakes, Tick, QuotaTick, threads, vars, quotaVars, thread
<1> QED
  BY <1>1, <1>2, MonitorTypeCorrect, PTL DEF Spec, CardsInv

-----------------------------------------------------------------------------
(* The delay the server asked for runs down no faster than the wait and    *)
(* the deafness it caused.                                                 *)
RetryInv ==
  \A s \in Source :
    /\ pc[s] \in {"begin", "querying"} => ban[s] = 0
    /\ pc[s] = "waiting" => ban[s] <= wait[s] /\ ban[s] <= notBefore[s]

(* Only a thread that is polling has a process.                            *)
ChildInv == \A r \in Route : rpc[r] # "probing" => child[r] = "none"

(* "A server-requested delay cannot be bypassed by pressing r"             *)
(* (worker.rs:96), whatever delays the servers ask for.                    *)
THEOREM RetryAfterHonouredHolds == Spec => []RetryAfterHonoured
<1>1. Init => RetryInv
  <2> SUFFICES ASSUME Init PROVE RetryInv
    OBVIOUS
  <2>1. pc \in [Source -> {"begin", "off"}] /\ ban = [s \in Source |-> 0]
    BY DEF Init, QuotaInit
  <2> QED
    BY <2>1 DEF RetryInv
<1>2. MonitorTypeOK /\ RetryInv /\ [Next]_vars => RetryInv'
  <2> SUFFICES ASSUME MonitorTypeOK, RetryInv, [Next]_vars PROVE RetryInv'
    OBVIOUS
  <2> USE DEF MonitorTypeOK, QuotaTypeOK, RetryInv
  <2>1. ASSUME NEW s \in Source, NEW answer \in Answer, Finish(s, answer) PROVE RetryInv'
    <3> DEFINE n == IF answer.ok THEN 0 ELSE Shorter(failures[s] + 1, MaxFailures)
    <3>1. answer.ok \in BOOLEAN /\ (~answer.ok => answer.retry \in Nat)
      BY AnswerParts
    <3>2. n \in 0..MaxFailures /\ (~answer.ok => n # 0)
      BY QuotaAssumption, <3>1 DEF Shorter
    <3>3. NextDelay(answer, n) \in Nat /\ DeafFor(answer) \in Nat
      <4> HIDE DEF n
      <4> QED
        BY <3>2, NextDelayIsTime
    <3>4. ~answer.ok /\ answer.retry > 0 =>
            NextDelay(answer, n) = answer.retry /\ DeafFor(answer) = answer.retry
      BY DEF NextDelay, DeafFor
    <3>5. /\ wait' = [wait EXCEPT ![s] = NextDelay(answer, n)]
          /\ notBefore' = [notBefore EXCEPT ![s] = DeafFor(answer)]
          /\ ban' = [ban EXCEPT ![s] = IF answer.ok THEN 0 ELSE answer.retry]
          /\ pc' = [pc EXCEPT ![s] = "waiting"]
      BY <2>1 DEF Finish
    <3> DEFINE delay == NextDelay(answer, n)
               deaf == DeafFor(answer)
               asks == IF answer.ok THEN 0 ELSE answer.retry
    <3>6. delay \in Nat /\ deaf \in Nat /\ asks <= delay /\ asks <= deaf
      BY <3>1, <3>3, <3>4
    <3> HIDE DEF n, delay, deaf, asks
    <3> QED
      BY <3>5, <3>6 DEF delay, deaf, asks
  <2>2. ASSUME NEW s \in Source, QuotaStep(s) PROVE RetryInv'
    <3>1. CASE Prepare(s)
      BY <3>1 DEF Prepare
    <3>2. CASE PrepareFails(s)
      <4>1. PICK inv \in BOOLEAN : Finish(s, [ok |-> FALSE, retry |-> 0, invalidate |-> inv])
        BY <3>2 DEF PrepareFails
      <4>2. [ok |-> FALSE, retry |-> 0, invalidate |-> inv] \in Answer
        BY QuotaAssumption DEF Answer
      <4> QED
        BY <2>1, <4>1, <4>2
    <3>3. ASSUME NEW answer \in Answer, Fetched(s, answer) PROVE RetryInv'
      BY <2>1, <3>3 DEF Fetched
    <3>4. CASE WakeUp(s)
      BY <3>4 DEF WakeUp
    <3>5. CASE QuotaStops(s)
      BY <3>5 DEF QuotaStops
    <3>6. ASSUME NEW a \in Account \cup {None}, ChangeLogin(s, a) PROVE RetryInv'
      BY <3>6 DEF ChangeLogin, thread
    <3>7. CASE DropEarlyRequest(s)
      BY <3>7 DEF DropEarlyRequest, thread
    <3> QED
      BY <2>2, <3>1, <3>2, <3>3, <3>4, <3>5, <3>6, <3>7 DEF QuotaStep
  <2>3. CASE Tick
    BY <2>3 DEF Tick, QuotaTick, Left
  <2>4. CASE EndProcess
    BY <2>4 DEF EndProcess
  <2>5. CASE UNCHANGED thread
    BY <2>5 DEF thread
  <2> QED
    BY <2>2, <2>3, <2>4, <2>5
    DEF Next, MainStep, WatchStep, ReturnFromMain, WatchdogExits, Signal, Hangup, Refresh,
        LeaveLoop, LoopFails, GetStuck, JoinWatchdog, DropWorkers, WatchdogNaps, Drain,
        WatchdogWakes, threads, vars, quotaVars
<1>3. RetryInv => RetryAfterHonoured
  BY DEF RetryInv, RetryAfterHonoured
<1> QED
  BY <1>1, <1>2, <1>3, MonitorTypeCorrect, PTL DEF Spec

(* A probe's process never outlives its thread (network.rs:214): not when  *)
(* the probe is killed, not when the program stops in the middle of one,   *)
(* not when the watchdog ends the process.                                 *)
THEOREM NoStrayChildHolds == Spec => []NoStrayChild
<1>1. Init => ChildInv
  BY DEF Init, ProbeInit, ChildInv
<1>2. MonitorTypeOK /\ ChildInv /\ [Next]_vars => ChildInv'
  <2> SUFFICES ASSUME MonitorTypeOK, ChildInv, [Next]_vars PROVE ChildInv'
    OBVIOUS
  <2> USE DEF MonitorTypeOK, ProbeTypeOK, ChildInv
  <2>1. ASSUME NEW r \in Route, ProbeStep(r) PROVE ChildInv'
    <3>1. CASE SpawnProbe(r)
      BY <3>1 DEF SpawnProbe
    <3>2. CASE SpawnFails(r)
      BY <3>2 DEF SpawnFails
    <3>3. CASE CurlExits(r)
      BY <3>3 DEF CurlExits
    <3>4. CASE KillChild(r)
      BY <3>4 DEF KillChild
    <3>5. CASE ReapChild(r)
      BY <3>5 DEF ReapChild
    <3>6. CASE Reported(r)
      BY <3>6 DEF Reported, FinishProbe
    <3>7. CASE NoteRequest(r)
      BY <3>7 DEF NoteRequest
    <3>8. CASE NextProbe(r)
      BY <3>8 DEF NextProbe
    <3>9. CASE ProbeStops(r)
      BY <3>9 DEF ProbeStops
    <3> QED
      BY <2>1, <3>1, <3>2, <3>3, <3>4, <3>5, <3>6, <3>7, <3>8, <3>9 DEF ProbeStep
  <2>2. CASE EndProcess
    BY <2>2 DEF EndProcess
  <2>3. CASE UNCHANGED <<rpc, child>>
    BY <2>3
  <2> QED
    BY <2>1, <2>2, <2>3
    DEF Next, MainStep, WatchStep, ReturnFromMain, WatchdogExits, Signal, Hangup, Refresh,
        LeaveLoop, LoopFails, GetStuck, JoinWatchdog, DropWorkers, WatchdogNaps, Drain,
        WatchdogWakes, Tick, ProbeTick, threads, vars, probeVars, probe
<1>3. ChildInv => NoStrayChild
  BY DEF ChildInv, NoStrayChild
<1> QED
  BY <1>1, <1>2, <1>3, MonitorTypeCorrect, PTL DEF Spec
=============================================================================
