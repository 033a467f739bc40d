# Verification of ai-monitor

TLA+ models of the parts of ai-monitor whose correctness depends on the order
of steps: what is stored, counted, attributed and archived when processes
interleave, files rotate, statements fail and programs are killed. TLC checks
the models on small instances; TLAPS proves the safety properties that TLC
checks for all values of the constants, under the hypotheses named below. Paths are relative to the repository;
`db.rs`, `tail.rs`, `main.rs`, `sources/...` and `web/...` are those of
`crates/herdr-usage/src/`.

## The system

Three programs share one machine and, through it, their state.

| part | state it keeps | operations | what makes it correct |
|---|---|---|---|
| **hourly archive** (`db.rs`, `web/hourly.rs`, `main.rs`) | `usage_event`, `usage_hourly`, a watermark in `collect_offset` | insert a batch, roll closed hours up; called by the collector loop and by every web worker | every event of a closed hour is summed once, an archived hour does not change |
| **start-up passes** (`main.rs`, `sources/mod.rs`) | marker rows in `collect_offset` | delete duplicates, insert omitted events, wipe and rebuild `usage_hourly` | the archive agrees with the corrected events, whatever is interrupted |
| **tail and offset store** (`tail.rs`, `sources/mod.rs`) | per file: offset, residue | find new bytes, baseline, detect rotation, save | the watermark never passes what is not stored; nothing after the first round is skipped |
| **codex source** (`sources/codex.rs`) | per file: model, session, whether records were seen | parse a line, scan the head of a file | each inference once, with the model of its turn |
| **opencode source** (`sources/opencode.rs`) | the first round's highest rowid | replay the last rows of another program's table | rows filled late are stored, history is not |
| **omp source** (`sources/omp.rs`, `omp_api_keys.rs`) | account catalogue, models, key timeline per session | parse, attribute, reconcile provisional identities | a line belongs to the account in force when it was written |
| **grok source** (`sources/grok.rs`, `sources/mod.rs`) | a model per session, the default of `config.toml`, both in memory | refresh the default, parse, forget on a rotation | a request carries the last model of its own session |
| **price table** (`cost.rs`, `bin/import_prices.rs`) | prices by id, the round's table, costs of stored events, a ledger of unresolved models | load, resolve, price, import, reprice | no event is billed at a price the model's name does not single out |
| **reports** (`web/mod.rs`, `web/hourly.rs`) | one cached aggregate per database; an hourly report made of several statements | ask, compute, keep; roll up and read | a cached answer is as good as a computed one; nothing is counted twice or left out |
| **web server** (`web/server.rs`) | worker threads, one slot with a socket each | accept, serve, drop | the drop ends whatever the browsers do |
| **plans** (`plans.rs`) | nothing: samples of two ledgers | cut samples into cycles, measure them | usage is set against one cycle |
| **Cloudflare** (`cloudflare.rs`) | a cached report and the days so far | find the billing period, query, persist, answer | an answer that is not marked stale is fresh |
| **ai-monitor** (`crates/ai-monitor/src/main.rs`, `worker.rs`, `network.rs`, `model.rs`) | a thread per quota source and per route, one trigger each, one channel; curl processes; a watchdog; three flags | query, refresh, back off, kill, draw, end | cards belong to the account named, a server's pause is kept, every process ends |
| **ai-monitor views** (`usage.rs`, `system.rs`, `ui/`) | a copy of what the threads sent | read, lay out, draw | functions of that copy |
| **herdr-tps reporter** (`integrations/herdr-tps/lib/live-tps-reporter.mjs`, `herdr-metadata-publisher.mjs`, `token-rate-meter.mjs`) | what was said of a pane, a queue of reports, a text buffer | publish, supersede, drain, clear, count | the row never goes back and is blank in the end; text is counted once |
| **codex observer** (`lib/codex-tps-observer.mjs`, `codex-with-tps.mjs`) | threads, look-ups under way, the root thread | follow both directions of a session | the pane speaks of one root thread |
| **omp key router** (`lib/omp-api-key-observer.mjs`) | the pin of a provider and session, its entries on disk, epochs | answer, pin, release, take up again | a late answer changes nothing, a restart restores the pin in force |
| **shared daemons** (`share-omp-daemons.mjs`, `omp-with-tps.mjs`) | a directory or a link, a lock | set aside, link, give back | no client loses the directory it runs in |
| **installer** (`install.mjs`) | files of the user's configuration | copy, restore | not modelled |

How they meet: agents (omp, codex, grok, opencode) write logs; the collector
reads them once a minute and stores rows in SQLite; the same database is read,
and its archive advanced, by the web workers; ai-monitor reads it and draws.
The integration runs inside the agents and writes the key observations that
the omp source later reads.

ai-monitor also embeds the web server. Its threads meet in one channel and
three flags; the reporter, the publisher and Herdr in the row of a pane.

What is hard in it: two processes rolling up one archive; a watermark read
before its transaction; a crash between two transactions that belong together;
logs that are truncated, replaced or cut in the middle of a character; parser
state that lives in memory while the position it belongs to is persisted;
values that another program fills in later; callbacks and timeouts in the
integration and in the workers. `PROJECT.json` lists each at its line under
`hazards`.

## Modules

| module | models | state and actions |
|---|---|---|
| `HourlyArchive` | what the archive promises | events are recorded, hours go by, closing a range adds each of its events once and freezes it |
| `HourlyRollup` | `insert_events`, `rollup_closed_hours` and their callers | per process: idle, round, called, read (watermark read in autocommit mode), snapshot (deferred transaction after its first SELECT). `fresh` is SQLite's condition for upgrading that snapshot to a write; a stale one fails. `archived[e]` counts how often an event is summed |
| `HourlyRollupProofs` | proofs about `HourlyRollup` and `HourlyRebuild` | |
| `HourlyRebuild` | `main.rs` from the start of the process to its loop, over `HourlyRollup` | stages delete, insert, mark, wipe, rewind; the old version, its upgrade, crashes and errors; `cut` and `overlap` remember why a rebuild may be incomplete |
| `TailCollect` | one file source's round | files of lines of two units; the agents append, rotate, let files grow old; the collector opens, reads chunks, keeps half lines, inserts, saves; `skipped` remembers what was passed over and why |
| `TailCollectProofs` | proofs about `TailCollect` | |
| `CodexSource` | one rollout file and its parser | the log is a sequence of envelopes; `model`, `session`, `scanned`, `recorded` are the maps of `CodexState` at this file; the head that a scan reads is the first `HeadLines` lines, or cannot be read (`HeadFails`). `reread` is history, and so is what a row says of the scan made for it: `scan`, `blind` |
| `GrokSource` | the log of grok and its parser | "model changed" and usage lines of sessions, rotation, edits of `config.toml`; `sidModels` and `fallback` are `GrokState` and `grok_config_mtime`, lost by a restart and kept by a failed round; the mtime and the text of `config.toml` are read in two steps (`BeginGrok`, `ReadConfig`), either of which may fail (`ConfigFails`). `since` and `fed` are history: which lines that memory can know; `offered` and `unread`: which defaults |
| `ModelSourcesProofs` | proofs about `CodexSource` and `GrokSource` | |
| `OmpAccounts` | which account an OpenCode Go request of an omp session is charged to | pins, releases and requests in the session's log and its siblings; `timeline`, `seeded` and `dirty` are `ApiKeyHistory` and `OmpState::seeded`, lost by a restart; each file is seeded up to its watermark and then parsed line by line; read, insert, reconcile, save |
| `OmpAccountsProofs` | proofs about `OmpAccounts` | |
| `OpencodeReplay` | the opencode round against the other program's table | rows are created with zero tokens and filled later; cursor, window, insert or ignore |
| `OpencodeReplayProofs` | proofs about `OpencodeReplay` | |
| `HourlyReport` | a request to `/api/hourly`, over `HourlyRollup` | the statements of `load`, each on what is committed then; `began`, `caughtUp` are history |
| `ReportCache` | `cached_global` and the report around it | the database is the number of commits so far; `holder` is the mutex, `entry` the cache |
| `ServerPool` | `server.rs`: start, the threads, drop | a thread's place, its slot, the sockets shut |
| `CloudflareSync` | `cloudflare.rs`, `report` | the unit of time is a day on a calendar of short months; `kept` is `cf_sync_state`, `daily` is `cf_daily_usage` (written as the code does, and read by no property); a call is asked, period, queried, persisted, answered |
| `PlanCycles` | how `plans.rs` cuts samples into cycles | the state is the ledgers' samples and the time; `Clusters` (a recursive function), `Truncate`, `AccountCycles`, `Groups`, `GroupCycles`, `Kept`, `Measured` are the functions of the code, evaluated on every ledger within the bounds |
| `PriceTable` | `cost.rs` and `import_prices` beside a collecting round | `catalogue` is in row order; a cost is the id it came from and the table it was found in |
| `ReportsProofs` | proofs about `ReportCache`, `HourlyReport`, `CloudflareSync` and `PriceTable` | |
| `MonitorChannel`, `QuotaWorker`, `NetworkProbe` | the threads of ai-monitor and what the screen keeps of their answers | a program counter per thread, delays as what is left of them, the curl child of a route; `view` is `SourceState`: identity, whose cards, and whose `hold_until`; `ban` is history: what the server asked for |
| `Monitor` | the process: main loop, watchdog, signals, the drop of the workers; composes the three above | `main`, the flags `shutdown`, `finished`, `stop`, the terminal |
| `MonitorProofs` | proofs about `Monitor` and its parts | |
| `MetadataBoard` | what the agent row promises its reader | things said, things taken in, what is shown, by number |
| `MetadataPublisher` | the publisher's queue and Herdr's side of it | pending, one request in flight, requests on the way, Herdr's row |
| `LiveTpsReporter` | the reporter of a pane over that queue; implements `MetadataBoard` | open, models, rates, the repetition, close, a killed process |
| `TokenRateMeter` | the meter's buffer and its counts | a count is the text and the tokenizer it was made of |
| `CodexObserver` | the observer of Codex's two streams | messages, look-ups and their answers, in any order |
| `ApiKeyRouter` | the wrapped `getWithCredential` of one provider and session | requests between their awaits, the pin, epochs; `disk` is what the session's entries amount to. An entry is written or not (no writer, a manager that has moved on, an append that throws), entries are loaded or not; `lost` is history: the latest attempt of either failed |
| `ShareDaemons` | launchers that move a directory | each at its step, the lock, old clients |
| `IntegrationProofs` | proofs about the five above and the refinement of `MetadataBoard` | |
| `MC...` | instances for TLC; `MCModelSources`, `MCReports` and `MCIntegration` choose one of several components that share no state and run it; in `MCModelSources` grok's is run in two shapes | |

The map from every definition to its lines is in `PROJECT.json`. A transaction
that commits is one step; statements outside of one are separate steps; so is
everything another process can see between two of them. An error, a lock
timeout or a kill is a step that rolls back.

Abstractions: an event is one value and an hour a number; token arithmetic,
costs and text are left out where no property is about them. A line in
`TailCollect` is two units long, which is what distinguishes a whole line from
one cut in the middle; a line cut inside a multi-byte character is one whose
number is in `TornLine`. The parser in `TailCollect` yields one event per
whole line; in `CodexSource`, `GrokSource` and `OmpAccounts` it is modelled, line by
line, with whole lines for offsets; there the files of Codex and omp only grow,
and a log of grok is replaced by one shorter than what was read of it. In the newer modules a
price, a key, a model or a text is a name; a delay is counted in units of five
seconds; what another program decides (a provider's answer, OMP's ranking,
Herdr's refusal of an old sequence number) is a free choice or modelled as the
integration's documents state it. `OmpAccounts` has one session and one profile, and no two
entries of the same millisecond. The two
back-fills that may ask for a rebuild have the same shape and are one in
`HourlyRebuild`.

## What is checked

| run | result | question |
|---|---|---|
| `RollupSolo` | holds | Does the collector alone archive each event once, leave none of a closed hour out (`NoGap`), freeze closed hours, catch up in the end, and implement `HourlyArchive`? |
| `RollupRace` | violated | `ArchivedHoursFrozen` with two callers: both read one watermark (`db.rs:208`) before either's transaction starts (`db.rs:216`), and the second adds to an archived hour (`db.rs:263-272`) the events it already holds; none need be stored in between |
| `RebuildStart` | holds | Beside a web worker and with faults anywhere: is anything archived above the watermark, and is the archive rebuilt unless a step that owed it was cut short or rollups overlapped? |
| `TailOneFile` | holds | Rotation, half lines, chunks, crashes and failures together: does the stored watermark ever pass a line that is not stored? |
| `TailTwoFiles` | holds | With fair rounds: does only the first round skip, and is every later line stored? |
| `TailTorn` | violated | `WatermarkCovers` when an append is cut inside a character: `tail.rs:185` drops the residue that `README.md:118` promises to keep |
| `ModelSources` | holds | Codex: records, counts, quotations, restarts, a head that is shorter than the file or cannot be read, failed statements, an old file: counted once, none lost, attributed to the turn, up to the stated exceptions. Grok: two sessions in one log, rotation, restarts, failed rounds, a configuration that is edited or cannot be read: does a request carry its own session's last known model (`GrokAttributed`)? |
| `OmpSession` | holds | Entries in two logs, seeded and read line by line, written late, read out of order, again, or after a restart: is every stored request charged to the pin in force at its time, with its reason, and none to an account the session did not hold? |
| `OpencodeWindow` | holds | Rows filled late: stored in the end, with final tokens, and no history |
| `Reports` | holds | Behind the web server: is an hourly report, beside rollups of the collector and another request, exact (`ReportExact`), a cached aggregate current (`CacheFresh`), a Cloudflare answer fresh (`FreshAnswers`), usage set against one plan cycle (`UsageInOneCycle`), a price never a guess (`NoGuess`), and does the drop of the server end (`DropEnds`)? |
| `Monitor` | holds | Do the cards belong to the account named, and a hold to the cards (`CardsOfIdentity`), is a pause the server asked for kept (`RetryAfterHonoured`), does no curl outlive its thread (`NoStrayChild`), and does the process end after a hang-up (`EndsOnHangup`) or a request (`EndsOnRequest`)? |
| `Integration` | holds | Does Herdr's row never go back (`RowKeepsPromise`, the refinement) and end blank (`BlankAfterEnd`); is text counted once (`TextCountedOnce`); does the pane speak of one root (`PaneOfOneRoot`); are late answers harmless (`LateAnswersHarmless`) and pins durable (`PinsDurable`); is the daemons' directory safe (`OneNamespace`)? |

**Bounds.** Three events in two hours are enough for two callers to disagree
about an hour that is closed, one that is running, and one that has a late
event; `LastHour` (3 in `RollupSolo`, 2 in `Reports`) leaves hours after that to catch up in. The rebuild needs
one event of each kind (plain, duplicate, omitted). A file of two lines in two
incarnations, read one unit at a time, has an offset before, in and after each
line of each incarnation, and a rotation to every size; a batch limit of 2
puts an insert in the middle of a round. Four rollout lines hold the session's header, a turn, and
an inference reported by record and by count, or two reported once, or a change of turn between two lines of one,
with restarts and failures between any two of them. The scanned head is two lines (`HeadLines`), the header and a first turn,
so that a second turn, or a record, may lie beyond it; longer rollouts are the theorems'. Three
lines of grok's log hold a change of model of either session before, between and after
usage lines, in one log or in two, with one edit of `config.toml` (`EditsWithout`), a restart and a
failed round between any two steps; a configuration that fails is checked apart from that, with two edits,
one session and two lines (`LinesWithFailures`), since the default of a session does not depend on another's lines. Four rows and a window of two have
rows inside, at the edge of and beyond the window while one waits to be filled.
Three lines in two logs hold a request with two changes around it in any order
(a change of credential, a late pin, a release, a replaced store), and two requests of one pin.
`MCModelSources` and `MCOmpAccounts` use symmetry of the models, sessions and
credentials; they check invariants only.
`Reports`: two events in two hours and a third one running, beside a collector
and one worker, whose request may be followed by another; three commits and
one midnight, between any two steps of two workers; three
server threads; a calendar of three-day months, one of two days, with a
subscription's months, a configured day and a time to live of two days; three samples in
five instants, with two lengths of the window and two shares; two prices for
one bare name and one alias. `Monitor`: a source with two accounts, delays of one or two units, two unread messages, and separately a route; the threads share
nothing but the channel, so the run takes one kind at a time. `Integration`:
three fields, at most three things said of one, sequence numbers up to 4 with a clock that is
set back; five letters; two root threads and a helper with four messages and a
buffer of two; two requests and one limit over two credentials; two launchers and four launches.

**Fairness.** `HourlyRollup!Fairness`: the loop starts a round every minute
(weak), and a round or rollup that is tried again and again is not defeated
for ever (strong): failures are lock timeouts of milliseconds against a retry
every minute. The web workers and the clock have none. `TailCollect` and
`OpencodeReplay`: the steps of a round follow one another (weak), and failures
and crashes stop at some time, without which no collector can promise
anything; agents need not write. `ServerPool!PoolFairness`: threads and
the drop go on, but a thread comes back from a connection only when its socket
is shut. `Monitor!Fairness`: the loop notices `SHUTDOWN`, the watchdog wakes,
a probe looks at its child; nothing is assumed of the network, the
user, signals, the terminal, or of a loop stuck in its event source.
`LiveTpsReporter!Fairness`: the queue is worked off, a request arrives or is
lost, time passes; agents need not close. No liveness is claimed of `HourlyRebuild`,
`CodexSource`, `GrokSource` and `OmpAccounts`; `Attributed` of the latter is a property of every
round that ends.

## Deviations

Three constants, `TornLine`, `Downtime`, `ReadFails`, and others of their kind
exist because the code does not do under them what its documentation says. The
two above have a run. The others show when a run's constants are changed as
follows.

- `HourTotalComplete` as an invariant of `RollupSolo`: an event stored after
  its hour was archived never reaches `usage_hourly`, while `schema.sql:84`
  calls the row the hour's total.
- `NoGap` in `RollupSolo` with a web worker (`Web = {w1}`, under `Spec`): an older call overwrites a newer
  watermark (`db.rs:277-281`); late readers then skip events. `ClosedHoursFrozen` adds to the property of
  `RollupRace` that the watermark never goes back; with two callers it does so even where nothing is stored.
- `RebuildSurvives` of `HourlyRebuild` (`MCHourlyRebuild` as in `RebuildStart`, with `Web = {}`,
  `LastHour = 1`): the markers are saved before the table is wiped and rebuilt
  (`main.rs:88-98`), so that a crash between the two leaves the old totals and
  nothing that makes the next start rebuild, although `main.rs:149-151` says an
  interrupted pass runs again. With a web worker and `Faults = FALSE` a rollup
  between wipe and rewind (`main.rs:90-92`) does the same.
- `NeverTwice` of `CodexSource` (`MCModelSources` with `HeadLines = 4`, no mentions, history or failures of any kind): after a restart between a
  `token_usage_record` and its `token_count`, the count is stored as well:
  `codex.rs:133` is reached before the head scan of `codex.rs:212`, while
  `codex.rs:58-59` says counts are ignored to prevent it.
- `NoGuess` with three ids that share a bare name: `cost.rs:93-97` removes the
  entry at the second id and puts the third one in its place, although
  `cost.rs:25-27` says an ambiguous name is left unresolved. With any odd number of vendors the last
  one is billed.
- `UsageInOneCycle` with two accounts of one provider: group cycles overlap
  where the accounts' cycles do, and a share of usage is measured twice. The code knows one account
  per provider today (`plans.rs`, `resolve`). A sample from a clock ahead of ours would
  give `clamp` (`plans.rs:876`) bounds out of order, which panics.
- `CloudflareSync`: a billing day of 29 to 31 names a date that short months do not
  have; Cloudflare refuses the period, and the page shows the error or the stale copy until the month is over.
  Two syncs may write `cf_daily_usage` in the other order than they read it.
- `ReportExact` holds under a condition: when the hour turns between the two
  readings of the clock (`web/hourly.rs:90`, `:148`), the cell of the closed
  hour shows the new one's events.
- `PriceTable`: an event priced with the round's old table after an import has
  looked for unpriced ones stays unpriced until the next import. An import
  changes no archived hour (`cost.rs:223`).
- `OnlyFirstRoundSkips` with `Downtime = TRUE`: a log that began and ended
  while the collector was down is taken for history (`sources/mod.rs:438-440`).
- `RotationForgets` with `ReadFails = TRUE`: a failed read has applied the
  rotation's reset, and the parser is never told (`sources/mod.rs:451-454`). So
  it is, without `ReadFails`, with `MaxGen = 3`, if the file shrinks again between the look at it and the
  read. With `DbFails = TRUE` and `Chunk = 2`: a failed round takes back the
  first watermark of a file, but not the parser's state of it; when the file is replaced before the
  next round, that round reads it from zero (`sources/mod.rs:429-437`) and reports no rotation.
- `WatermarkCovers` in `TailOneFile` with `PositionKey = TRUE`: lines of a
  replaced file have the event ids of the old one's (`codex.rs:222`). A
  replacement at least as long as what was read is not noticed at all
  (`tail.rs:57`); `skipped` counts the lines it hides.
- `CodexSource`: the exceptions in `NoneLost`, `Attributed` and `CountedOnce` are deviations of
  their own. A count or a row re-read after a failed insert meets what the
  parser learnt from later lines; a file that quotes `token_usage_record` is
  taken to have records after a restart. When the head cannot be read, the row is stored for good without
  model and session, and the scan is left to the next event (`codex.rs:95-97`). A head that ends before
  the last turn gives a new process the model of an earlier one (`HeadOnly`; `codex.rs:99-101`, so does not keep
  `OnlyTurnsChangeModel`), and one that ends before a record lets its count in. The module comment of `codex.rs:11-18` says
  `token_usage_record` is ignored; line 131 collects it.
- `GrokSource`: the mtime of `config.toml` is kept before the file is read (`sources/mod.rs:330-334`): after a
  read that failed the default is none until the mtime moves again, although `sources/mod.rs:80-81`
  calls it the mtime of the last successful read. `GrokAttributed` allows that (`DefaultsIf`): with
  `{config.model}` for either case it fails.
- `ApiKeyRouter`: an entry is not written when the session's manager has moved on or the append throws
  (`omp-api-key-observer.mjs:46-49`), and none is loaded when they cannot be read (lines 55-61); the pin in memory
  is changed all the same. Until the next entry is written or all are loaded, the pin and what a restart
  restores may differ: a released pin comes back, a new one is forgotten. `PinsDurable` leaves out that time
  (`lost`), and no more. A limit reported for a pin whose entry was lost releases the older pin
  that a change of branch loads over it, since that load begins no epoch (line 427).
- `NeverInvented` with `LateRelease = TRUE`: a release that is read after a request
  it precedes was stored never withdraws the account (`omp.rs:296-303` keeps an account
  whose source is `session_pin`), while `crates/herdr-usage/README.md:99` says the account follows from
  pins, releases and times alone. What is stored depends on when the
  round ran.
- `GrokSource`: `crates/herdr-usage/README.md:70-71` says that a model switched while the
  collector was not running is charged to the default. The code reads those
  lines when it resumes and knows the model; what it has lost is a change it read
  before it was restarted (`grok.rs:126`), which is charged to the default or to
  none. A line read again after a failed round may carry a later model of its
  session. `Explained` states both.
- Of the omp source, not modelled: an `agent.db` that cannot be opened is an empty catalogue for that
  round (`sources/mod.rs:185`), and its rows stay without an account until the session's
  timeline changes; a file that cannot be opened while seeding counts as seeded.
- `FilledStored` with `Overrun = TRUE`: a row filled after `REPLAY_WINDOW` more
  rows is never read again. `NoHistory` with `ReadFails = TRUE`: a failed
  `MAX(rowid)` counts as 0 (`opencode.rs:53`) and imports all history.

## What is proved

TLAPS, for every value of the constants that satisfies the modules' named
assumptions. Every safety invariant of a passing run has a theorem, and so have
the two action properties `ClosedHoursFrozen` and `OnlyFirstRoundSkips` and
both refinements; `PROJECT.json` lists them under `theorems`. A hypothesis of a theorem beyond those assumptions is named below; each
is a case in which the code keeps the promise, and the deviations above say what
happens without.

- **`HourlyRollupProofs`.** `TypeCorrect` and `OnlyClosedHoursHolds` for any set
  of web workers. `TypeOK` bounds every target by the clock, which is what
  makes "only closed hours" inductive: a commit sums events below its target.
  `SerialAtMostOnce`, `SerialNoGap`, `SerialClosedHoursFrozen` and
  `SerialImplementsArchive`: for any set of web workers, in every behaviour in
  which no two calls are open at a time (`OneOpenCall`; a call is open from the reading of
  the watermark to the commit). They rest on `SerialInv`: in an open call the
  watermark read is still the stored one, and what is archived is archived once
  and lies below it; neither `AtMostOnce` nor `NoGap` is inductive without the
  first part, and it is that part which fails in `RollupRace`. So nothing but
  overlapping calls keeps the rollup with web workers from implementing
  `HourlyArchive`; a transaction begun for writing before the watermark is read would
  exclude them. The `Solo...` theorems are the case `Web = {}`, where calls cannot overlap.
  The refinement maps every variable to itself; reading, snapshots and failures
  stutter and `CommitRollup` is `CloseHours(target)`.
  Of `HourlyRebuild`, for any set of web workers and any faults:
  `ArchivedBelowCursorHolds` and `RebuildConsistentHolds`, by `RebuildInv`. A
  call's range is not empty, so a commit never moves the watermark below what
  it sums; the table stays empty from wipe to rewind unless a rollup comes
  between (`overlap`); the marker is there exactly in the stages after it was
  saved; and until then whatever the passes changed is still known to be owed
  (`BackfillInv`) unless a start was cut short.
- **`TailCollectProofs`.** `TailTypeCorrect`; `OnlyTornLostHolds`: the saved
  watermark passes no line but a torn one, where every line has a key of its own
  (`OwnKeys`: keys are the lines' ids, as of omp and grok, or are positions, as of
  Codex, in files that are not replaced). `WatermarkNeverAhead`: then, with
  `TornLine = {}`, `WatermarkCovers`. The invariant
  extends it from the saved cursor to the store of the running round, whose
  watermark may be ahead of the table by exactly the lines in the batch; both
  assumptions are needed (`TailTorn`, and the deviation above).
  `RotationForgetsHolds`: in every behaviour without `RoundFailed` and `ReadError`,
  `RotationForgets`, through rotations between any two steps and crashes
  (`CtxInv`: a parser whose place is a file's start has no state of it); the deviation above
  shows that either kind of error breaks it.
  `LaterSkipsAreReplacements`: with `Downtime = FALSE` a round after the first
  passes over no line but of a file that replaced another; and, where files are
  not replaced (`MaxGen = 1`), `OnlyFirstRoundSkipsHolds`. `SkipInv`: once a
  round has been saved, a file without a watermark is live, also one that
  appears behind the walk of the running round. A step of the clock alone does
  not keep that; the bound on the time the collector is away does.
- **`OpencodeReplayProofs`.** `OpencodeTypeCorrect`; `OpencodeNoHistory` without
  `ReadFails` (the window's floor is never below the cursor, and the cursor is
  the first round's highest row); `OpencodeStoredFinal` without `StepFills` (what is in
  the batch is absent or final).
- **`ModelSourcesProofs`, Codex.** `CodexTypeCorrect` and `NoneLostHolds` for every
  length of rollout and head. The rollout's own order (`LogInv`: calls are
  numbered, a count follows its record) is part of the invariant. `LossInv`: when
  counts are being ignored there is a record behind the parser, one a failed round
  had read, or a quotation; so a count is passed over only if its record is due
  or an exception applies. `AttributedHolds` and `CountedOnceHolds` likewise, with heads that end before the
  file does or cannot be read: the parser's model is that of the last turn behind it, unknown
  since the restart, that of a line a failed round had read, or what the head told a process that
  started behind it, with no turn since (`ModelInv`, `OfHeadOnly`); and a process that has scanned, or knows its
  session, knows of every record behind it but those between the head and the row it scanned at
  (`RecordsKnown`), so that only such a record, or a row that scans or could not, can make a count the second
  row of an inference (`CountsFirst`).
- **`ModelSourcesProofs`, grok.** `GrokAttributedHolds`, with a `config.toml` that may fail at either step.
  `GrokInv`: a place is within the current log, or beyond the end of it in one that was
  rotated away (`PlacesInv`); while the last look at `config.toml` has not failed, an equal mtime means an equal default, and in a round
  the default is one it may report (`ConfigInv`); and `sidModels[s]` is the last change of `s` between the line where the memory
  was emptied and the place of the parser, or a later one that a failed round had
  reached (`MemoryInv`). A place in the current log never has a line before it that
  the memory should know and was not fed: a rotation, a restart and a failed round could each
  break that.
- **`OmpAccountsProofs`.** `OmpTypeCorrect` and `AttributedHolds`, for any logs,
  credentials and order of reading. `OmpInv`: the timeline is in order of time and holds
  each change up to every file's place (`NoticedInv`), and either the session is marked
  for reconciliation or every row agrees with it (`SettledInv`). Agreement with
  *all* changes read, also of files read later in the round, is not inductive by
  itself, hence the mark. `NeverInventedHolds` for `LateRelease = FALSE`: a row's
  account was pinned before it and the last entry before it is no release
  (`ChargeInv`), which later pins and releases keep because a release is later
  than the requests written before it.
- **`ReportsProofs`.** `CacheFreshHolds`: a request's stages bound its answer
  from both sides (`CacheInv`). `ReportExactHolds`, beside any number of rollups:
  the invariant `ReportInv` ties each statement's reading to the archive then, and needs of
  the rollups only that archive, stored rows and clock never go back.
  `FreshAnswersHolds` on every calendar that satisfies `CalendarAssumption`
  (months follow one another, and each day of the run is in one that has a
  month before and after it): a
  period that the calendar has is the one of the day it was asked for on, in each of
  its three forms. `NoGuessHolds` under `AtMostTwoOfName`, no three ids share a
  bare name (the deviation above): a table that prices came from is
  the catalogue of some time (`PricesInv`), and in a catalogue of such names a
  bare name resolves to the only id that has it.
  `UsageInOneCycleHolds` for ledgers of any length when there is one account
  (`OneAccount`; with two, group cycles overlap), and `CycleBoundsHold` for any number of
  accounts: `clamp` is given bounds in order, and the shares of a cycle cover its last
  sample. What is needed of the clusters, a recursive function, is that each is
  typed, holds what it has summed and begins no later than now (`ClustersTyped`,
  `CycleOfSample`). An account's cycles are in order of their starts and `Truncate`
  ends each by the start of the next (`CyclesOfAccount`); of one account every group is
  one cycle (`GroupOfEachCycle`), and usage is measured within it (`MeasuredWithin`).
- **`MonitorProofs`.** `MonitorTypeCorrect` for the whole composition;
  `CardsOfIdentityHolds`: an answer in the channel follows a start of the same
  account, with no other start between (`AnswersFollowTheirStart`), so what the screen takes
  in is for the identity it shows, and a hold is of the cards beside it; `RetryAfterHonouredHolds`: what is left of
  the server's pause is at most what is left of the wait and of the deafness to
  `r` (`RetryInv`); `NoStrayChildHolds`: only a thread that is polling has a curl
  (`ChildInv`).
- **`IntegrationProofs`.** `LateAnswersHarmlessHolds` and `PinsDurableHolds`: a request
  that asks for a former pin is not the one that may pin, and an epoch names one
  pin but for what is loaded within it (`RouterInv`), while entries fail to be written or loaded at any step; `OneNamespaceHolds`: one launcher holds the lock, what it
  checked under it stays true, and the own directory is in one place
  (`DaemonsInv`); `TextCountedOnceHolds`: a kept count is one of the whole buffer
  (`MeterInv`); `PaneOfOneRootHolds`: what the observer holds was said of the
  thread it holds it for (`ObserverInv`).
  `RowImplementsBoard`: the reporter, its queue and Herdr's row implement
  `MetadataBoard`. The mapping takes `taken` and `shown` from the row; a request that arrives is a step of the
  board if its number is newer than the row's and a stutter otherwise, and `RowInv` has the
  reason: there is a set of entries that holds everything queued and on the wire, in
  which a later number carries nothing older (`LaterIsNewer`) and none that
  is ahead of the row says less than it (`AheadOfRow`). Steps that drop, lose or
  deliver an entry need not name a smaller set.

How the proofs deal with data: a greatest element (of the changes before a line, of
the lines of a turn) exists by well-founded descent (`NoDescent`,
`LessWellFounded`); and a recursive function, a run of a machine and
a sorted sequence exist because the set of numbers for which they fail has no least member (`RunExists`,
`SortedInOrder`). The library's induction theorems cannot be instantiated here.

Model-checked only:

- every liveness property, since fairness is outside of what the prover does:
  `EventuallyArchived`, `EveryLineStored`, `FilledStored`, `DropEnds`,
  `EndsOnHangup`, `EndsOnRequest`, `BlankAfterEnd`;
- the assumptions themselves where the code does not force them: that calls do not overlap, that
  errors do not happen, that files are not replaced. The runs and the deviations say
  what is found without.

Two runs show that a property fails (`RollupRace`, `TailTorn`).

The refinements: `HourlyRollup` implements `HourlyArchive` (proved for callers
that do not overlap, checked by `RollupSolo`); `LiveTpsReporter` over `MetadataPublisher`
implements `MetadataBoard` under the mapping of `taken` and `shown` to Herdr's
row (proved, and checked by `Integration`).

## Not modelled

- Reading `/proc`, decoding of answers, drawing, and the text of reports: no
  interleaving and no state of their own. `usage.rs` is a read-only query per round.
- Token arithmetic of a line (`event.rs`, and inside the sources), the formula
  of a cost, and the SQL of the aggregates: read as given.
- Of the omp source reset boundaries, credential pins, the sticky cache and the
  one-time attribution back-fill.
- The routes of `server.rs`, its headers and static files; the request list of `requests.rs`.
- How an account is matched to a plan, and the formats of the two ledgers of `plans.rs`.
- Of the integration: the installer (killed while it copies the
  omp binary, `install.mjs:306`, it leaves a part of it that the next install takes for whole), the OMP extension's glue, and of `codex-with-tps.mjs` all
  but the thread look-up and its close. The moving averages of the rate.
- The attributes of Herdr itself, OMP, Codex, opencode and SQLite other than
  those stated by the repository's documents or used by its code.

## Open

- That `skipped` of the first round of `TailCollect` is exactly what its baseline excludes; the
  theorems bound only what later rounds skip.
- `UsageInOneCycle` for several accounts of a provider, once the code resolves them.
- A statement of what is lost when `RotationForgets` fails: the model of
  `TailCollect` knows that the parser's state is an old one, and `CodexSource` what
  the parser does with it, but Codex's files only grow there.
- The rest of the omp source, and the reader of `usage.rs`, when their state is more
  than a parser's.

Runs are kept to one per question: later modules are compositions that share a run where they
share a question.
