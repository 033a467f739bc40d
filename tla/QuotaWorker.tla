------------------------------ MODULE QuotaWorker ------------------------------
(***************************************************************************)
(* The quota threads of ai-monitor, one per source (worker.rs, start), and *)
(* what the screen keeps of their answers (model.rs, SourceState).         *)
(*                                                                         *)
(* A round reads the credential files, announces the account they name,    *)
(* asks the provider with that credential and reports the answer; then the *)
(* thread sleeps until the next round or until `r' is pressed, unless the  *)
(* answer forbids asking so early.                                         *)
(***************************************************************************)
EXTENDS MonitorChannel

CONSTANTS
  Source,     \* the sources
  Account,    \* the accounts a user may log in with
  None,       \* no account
  Base,       \* config.refresh
  Cap,        \* the longest error delay
  MaxFailures,\* bound: failures counted; five in a row are the code's longest delay
  MaxRetry,   \* bound: the longest Retry-After
  MaxReset    \* bound: how far away a quota's reset is

ASSUME QuotaAssumption ==
  /\ None \notin Account
  /\ Base \in Nat \ {0} /\ Cap \in Nat \ {0}
  /\ MaxFailures \in Nat \ {0} /\ MaxRetry \in Nat /\ MaxReset \in Nat

VARIABLES
  login,      \* the account the credential files of a source name, or None
  pc,         \* where the thread is; "off": it has returned
  asked,      \* the account whose credential the running query carries
  failures,   \* queries failed in a row
  wait,       \* what is left until the next round
  notBefore,  \* what is left of the time in which `r' does nothing
  trigger,    \* the source's sync_channel(1) holds a request
  view,       \* SourceState: the account shown, whose cards are shown, and
              \* whose used-up week is waited for (hold_until)
  ban         \* history: what is left of the delay the provider asked for

thread == <<pc, asked, failures, wait, notBefore, ban>>
quotaVars == <<login, thread, trigger, view>>

(* SourceState::new: placeholder cards.                                    *)
NewState == [identity |-> None, cards |-> None, hold |-> None]

QuotaInit(on) ==
  /\ login \in [Source -> Account \cup {None}]
  /\ pc = [s \in Source |-> IF s \in on THEN "begin" ELSE "off"]
  /\ asked = [s \in Source |-> None]
  /\ failures = [s \in Source |-> 0]
  /\ wait = [s \in Source |-> 0]
  /\ notBefore = [s \in Source |-> 0]
  /\ trigger = [s \in Source |-> FALSE]
  /\ view = [s \in Source |-> NewState]
  /\ ban = [s \in Source |-> 0]

-----------------------------------------------------------------------------
(* The user logs in, out, or switches accounts; the files are read anew    *)
(* by every round.                                                         *)
ChangeLogin(s, a) ==
  /\ a # login[s]
  /\ login' = [login EXCEPT ![s] = a]
  /\ UNCHANGED <<thread, trigger, view, stop, updates>>

(* What a query may bring: cards, with the time to the earliest reset (0:  *)
(* none is known) and whether every pool's week is used up; or an error,   *)
(* with the delay the server asks for and whether it rejects the login.    *)
Answer ==
  [ok : {TRUE}, reset : 0..MaxReset, weekly : BOOLEAN]
    \cup [ok : {FALSE}, retry : 0..MaxRetry, invalidate : BOOLEAN]

(* weekly_hold_until needs a reset to come.                                *)
Hold(answer) == IF answer.weekly THEN answer.reset ELSE 0

(* The wait after an answer: error_delay doubles with every failure, a     *)
(* used-up week waits for its reset, any other reset shortens the period.  *)
ErrorDelay(n) == Shorter(Base * 2 ^ Shorter(n - 1, 4), Cap)
NextDelay(answer, n) ==
  CASE ~answer.ok /\ answer.retry > 0 -> answer.retry
    [] ~answer.ok /\ answer.retry = 0 -> Longer(ErrorDelay(n), 1)
    [] answer.ok /\ Hold(answer) > 0  -> Hold(answer)
    [] answer.ok /\ Hold(answer) = 0 /\ answer.reset > 0 -> Shorter(answer.reset, Base)
    [] OTHER -> Base

(* Mutant: `r' overrides the delay the server asked for.                   *)
DeafForFiveSeconds(answer) == 1

(* `r' is deaf for five seconds, or for as long as the server asked.       *)
DeafFor(answer) == IF ~answer.ok /\ answer.retry > 0 THEN answer.retry ELSE 1

(* providers::prepare reads an account from the files: Started is sent.    *)
Prepare(s) ==
  /\ pc[s] = "begin" /\ ~stop
  /\ login[s] # None
  /\ Room(1)
  /\ Send([source |-> s, kind |-> "started", account |-> login[s]])
  /\ pc' = [pc EXCEPT ![s] = "querying"]
  /\ asked' = [asked EXCEPT ![s] = login[s]]
  /\ UNCHANGED <<login, failures, wait, notBefore, ban, trigger, view, stop>>

(* The end of a round: back-off, the Finished message, and the requests    *)
(* that came in meanwhile are dropped.                                     *)
Finish(s, answer) ==
  LET n == IF answer.ok THEN 0 ELSE Shorter(failures[s] + 1, MaxFailures) IN
  /\ Room(1)
  /\ Send([source |-> s, kind |-> "finished", account |-> asked[s],
           ok |-> answer.ok, held |-> answer.ok /\ Hold(answer) > 0,
           invalidate |-> ~answer.ok /\ answer.invalidate])
  /\ failures' = [failures EXCEPT ![s] = n]
  /\ wait' = [wait EXCEPT ![s] = NextDelay(answer, n)]
  /\ notBefore' = [notBefore EXCEPT ![s] = DeafFor(answer)]
  /\ ban' = [ban EXCEPT ![s] = IF answer.ok THEN 0 ELSE answer.retry]
  /\ trigger' = [trigger EXCEPT ![s] = FALSE]
  /\ pc' = [pc EXCEPT ![s] = "waiting"]
  /\ asked' = [asked EXCEPT ![s] = None]
  /\ UNCHANGED <<login, view, stop>>

(* No usable credential: the round fails without a query.                  *)
PrepareFails(s) ==
  /\ pc[s] = "begin" /\ ~stop
  /\ login[s] = None
  /\ \E inv \in BOOLEAN : Finish(s, [ok |-> FALSE, retry |-> 0, invalidate |-> inv])

(* The provider answers, or the request times out after twelve seconds.    *)
Fetched(s, answer) ==
  /\ pc[s] = "querying"
  /\ Finish(s, answer)

(* The wait is over, or `r' was pressed; pressed too early it is lost.     *)
WakeUp(s) ==
  /\ pc[s] = "waiting" /\ ~stop
  /\ wait[s] = 0 \/ (trigger[s] /\ notBefore[s] = 0)
  /\ pc' = [pc EXCEPT ![s] = "begin"]
  /\ trigger' = [trigger EXCEPT ![s] = trigger[s] /\ wait[s] = 0]
  /\ UNCHANGED <<login, asked, failures, wait, notBefore, ban, view, stop, updates>>
DropEarlyRequest(s) ==
  /\ pc[s] = "waiting" /\ ~stop
  /\ trigger[s] /\ wait[s] > 0 /\ notBefore[s] > 0
  /\ trigger' = [trigger EXCEPT ![s] = FALSE]
  /\ UNCHANGED <<login, thread, view, stop, updates>>

(* The thread sees the flag at the top of the round or while it waits.     *)
QuotaStops(s) ==
  /\ stop /\ pc[s] \in {"begin", "waiting"}
  /\ pc' = [pc EXCEPT ![s] = "off"]
  /\ UNCHANGED <<login, asked, failures, wait, notBefore, ban, trigger, view, stop, updates>>

QuotaTick ==
  /\ wait' = [s \in Source |-> Left(wait[s])]
  /\ notBefore' = [s \in Source |-> Left(notBefore[s])]
  /\ ban' = [s \in Source |-> Left(ban[s])]
  /\ UNCHANGED <<login, pc, asked, failures, trigger, view>>

-----------------------------------------------------------------------------
(* Mutant: the wait for the other account's reset stays on the screen.     *)
BeganWaiting(state, account) ==
  IF state.identity = account THEN state
  ELSE [state EXCEPT !.identity = account, !.cards = None]

(* SourceState::begin: another account than the one shown clears its cards *)
(* and its hold.                                                           *)
Began(state, account) ==
  IF state.identity = account THEN state ELSE [NewState EXCEPT !.identity = account]

(* SourceState::finish: an error ends the hold, and keeps the cards unless *)
(* it rejects the login.                                                   *)
Finished(state, msg) ==
  IF msg.ok THEN [state EXCEPT !.cards = msg.account,
                               !.hold = IF msg.held THEN msg.account ELSE None]
  ELSE IF msg.invalidate THEN NewState
  ELSE [state EXCEPT !.hold = None]

(* The main loop takes one message of a quota thread from the channel.     *)
ShowQuota(msg) ==
  view' = [view EXCEPT ![msg.source] =
             IF msg.kind = "started" THEN Began(@, msg.account)
             ELSE Finished(@, msg)]

-----------------------------------------------------------------------------
(* The cards on the screen were brought by a credential of the account the *)
(* screen names, whatever the user logs in with meanwhile (model.rs:251),  *)
(* and the reset it says it waits for is one of these very cards.          *)
CardsOfIdentity ==
  \A s \in Source :
    /\ view[s].cards # None => view[s].cards = view[s].identity
    /\ view[s].hold # None => view[s].hold = view[s].cards

(* "A server-requested delay cannot be bypassed by pressing r"             *)
(* (worker.rs:96): no round begins before it is over.                      *)
RetryAfterHonoured ==
  \A s \in Source : pc[s] \in {"begin", "querying"} => ban[s] = 0
=============================================================================
