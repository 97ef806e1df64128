# Verification of summarybot-3

TLA+ models, TLC runs and TLAPS proofs for the Rust host of a chat
summarization bot: it fetches or imports messages, summarizes them with an LLM
under cost and rate limits, runs schedules, and delivers the results. The code
is about 12 000 lines in five crates under `src/crates`: `domain` (pure policy),
`repository` (SQLite), `host` (orchestration, LLM path, ingestion, auth), `api`
(HTTP) and `wasm-summarize` (a sandboxed guest). `PROJECT.json` lists the
components, runs, mutants, findings, hazards, theorems, and for every definition
the source lines it models.

## 1. The system

| Component | Code | State it keeps | Operations | Meets |
|---|---|---|---|---|
| Rate limiter | `host/src/llm/limiter.rs`, `ratelimit.rs` | one mutex over a circuit breaker and a token bucket per provider, made on first use | `try_acquire`, `record_success`, `record_rate_limited` | every caller of the LLM path |
| Resilient call path | `host/src/llm/engine.rs`, `failure.rs` | a thread's locals: attempt, deadline, waits | `complete` (acquire, call, record, back off, retry) | limiter, provider client |
| Provider client | `host/src/llm/openrouter.rs`, `provider.rs` | none | one HTTP call; headers to hints | engine |
| Scheduler | `host/src/scheduler.rs`, `repository/src/schedule.rs` | `schedules` rows: due time, failures, enabled; a pass's snapshot | `tick`, `list_enabled`, `update_runtime` | schedule API (same rows), the runner |
| Recurrence | `domain/src/schedule.rs` | none | `next_run`, `evaluate_tick` | scheduler, schedule API |
| Schedule API | `api/src/schedules.rs` | - | create, pause, resume, delete | the rows a pass works on |
| Summarization | `host/src/summarize.rs`, `domain/src/summarize/*` | a request's rung, spending, loop budget | `summarize`, `summarize_as_job` | engine, job store |
| Jobs | `domain/src/job.rs`, `repository/src/job.rs` | `jobs` rows | create, start, complete, fail, `pause_running` | summarization, startup |
| Export parser | `domain/src/whatsapp/*` | none | `parse_export`: an exported text to messages, events, a date range | import |
| WhatsApp import | `host/src/whatsapp.rs`, `repository/src/whatsapp.rs` | `whatsapp_participants`, `messages`, `whatsapp_imports` | `ingest`, `add_alias`, `record_import` | uploads of the same chat |
| Coverage | `domain/src/coverage.rs` | none (reads the imports) | `analyze_coverage`, `merge_spans` | import store |
| Rolling summaries | `domain/src/rolling.rs` | the active period's window and how far it has got | `window`, `decide_rolling` | a host not written yet |
| Extraction, formats | `domain/src/summarize/extract.rs`, `format.rs` | none | `finalize`, `render` | summarization, delivery |
| Delivery | `domain/src/delivery.rs`, `host/src/delivery.rs` | none of its own | `deliver` (save, then one destination after the other), `dispatch` | summary store, transports |
| Summary store and API | `repository/src/summary_store.rs`, `api/src/summaries.rs` | `summary_records` and two child tables | save, get, list, pin, archive, tag, create | delivery, clients with access tokens |
| Sessions, identity | `host/src/auth/*`, `domain/src/session.rs`, `identity.rs`, `repository/src/session.rs`, `identity.rs` | `sessions`, `identity_links`, `audit_log` | login, refresh, link, log out everywhere, prune | every request of the API |
| Workspaces | `domain/src/workspace.rs`, `membership.rs`, `repository/src/workspace.rs` | tenants, bindings, members | CRUD | API |
| Platform fetch, API shell, WASM guest | see `PROJECT.json` | none | conversions and I/O | - |

### What is hard about it

* **Interleaving.** Callers read the clock *before* they take the limiter's
  lock, so operations reach it with stale times and in any order of them. A
  scheduler pass works on a snapshot of the rows while the API changes them.
  Uploads of one chat interleave statement by statement; none is in a transaction.
  Requests check a token first and wait for the one lock on the repository then.
* **Crashes.** Between a run and the write of its outcome; between the
  creation of a participant and its message; between any two job writes;
  between revoking a refresh token and issuing the next; between saving a
  summary and sending it, and between one destination and another.
* **Partial failure.** A failed write ends a pass, a batch, a job or a sign-in
  in the middle; a failed delivery must not.
* **Timeouts and retries.** Acquire deadlines, `Retry-After` and reset headers,
  exponential backoff, a bounded number of attempts; answers that come after the
  circuit has tripped.
* **Boundaries.** Bucket capacity against reserve, half-open windows, spring
  gaps and autumn overlaps, spans that touch or are inverted, caps met exactly,
  lists that are stored in one column.
* **Long legal sequences.** Up and down the model ladder; fail, disable, resume;
  refresh, log out, prune, repeat; what a line of an export means after others.

What makes each component correct is stated with its module below.
`PROJECT.json` lists the single hazards at their lines with the properties that
watch them.

## 2. Modules

Every module is a state machine with the code's operations as actions, and its
properties after them. Definitions whose comment begins "Variant of" are
plausible mistakes in the operation that follows them; no specification uses
them, and each serves to show that some property would notice.

### SharedBudget, RateLimiter (with proofs in LlmProofs)

`RateLimiter` is the mutex-protected limiter. A minute is `Minute` ticks and a
token is `Minute` units, so that the code's floating-point tokens are exact
integers; `limiterVars` are the breaker (`circuit`), the map of buckets (`made`,
`bucket`), the calls admitted and not yet recorded (`inflight`) and a history
variable `window` that counts what was admitted by priority. `Grant`,
`RefuseForTokens` and `RefuseForCircuit` are the three ways out of
`try_acquire`, `RecordSuccess` and `RecordRateLimit` the two recordings, and
`DropCall` a call that ends with neither; each takes a reading `at` that may be
any time from the start to now. `OpenWindow` starts the history anew. Quotas and thresholds
of zero are raised to one, as the constructors do.

`SharedBudget` is what it promises: in any window, no more requests than the
allowance it opened with plus what the rate earned. `ImplementsBudget` states
the refinement, with the window's history as the mapping.

Properties: `BudgetKept` (no overspending under stale readings and lazily made
or drained buckets), `LimiterSound` (`BucketsSound` and `BreakerCoherent`: no
bucket above its capacity or refilled from the future, and the circuit closed
exactly while its failures are short of the threshold), `HeadroomKept`
(background traffic never eats what is reserved for higher priorities),
`WaitIsExact` (a refusal's wait is neither too short nor too long where the bucket
can hold the price, and leads to another refusal where it cannot), `WaitStaysGood`
(what a caller was told to wait for is there when the wait is over, whoever polls
meanwhile). The reserve is one fraction of every bucket, twice it for Low requests,
as `reserve_for` has it.

### ResilientLlm (with proofs in LlmProofs)

Each caller is a thread in `complete()`: asleep, polling with a reading in hand,
refused with a wait, drowsy (it has looked at the time left, `SeesTimeLeft`, and not
yet gone to sleep, `FallAsleep`), calling, holding a 429, backing off. The field
`late` is history: the ticks in which the thread could have run and did not. It *extends* the
limiter; its specification `EngineSpec` is shown to implement the limiter's
`Spec` (`ImplementsLimiter`), so everything proved about the limiter holds of the
callers' system, however many callers there are. Own properties: `HintHonoured` (a
retry does not come before the server allowed it), `AnsweredInTime` (a request lasts
no longer than its acquires, calls and backoffs and the time its thread was kept from
running: a sleep can pass the deadline by what went by between the look at the clock
and the sleep, and by no more) and, with fair threads (`FairSpec`), `EveryRequestEnds`.

### Scheduler (and SchedulerProofs)

The rows (`stored`, `row`), and a pass per driver: `BeginPass` is
`list_enabled`, then one action per fate of `evaluate_tick` (`NotYet`,
`Disable`, `Skip`, `StartRun`), `FinishRun` with its `reschedule`, and `Fault`
(the process dies or a write fails, and the rest of the pass is lost). The
handlers of the API (`Create`, `Pause`, `Resume`, `Delete`) interleave with it,
atomically, as the repository lock makes them. There is at most one driver
(`OneDriver`), since the driver is still to be written and `tick()` takes no lock
against a second. Properties: `RunOnce`, `StopsStick` (`ExhaustedNotRun` and
`DeletedStaysDeleted`: what failed too often or was deleted stays stopped; a pause
may not, which `PauseHolds` shows), `EveryDueHandled`. History variables record runs and failures, since the rows
themselves forget.

### Calendar, Recurrence, Rolling (and RecurrenceProofs, RollingProofs)

`Calendar` is what the code asks of chrono and chrono-tz, an external library:
dates, local times, and the instants that show a wall-clock time (none in a
spring gap, two in an overlap).

`Recurrence` follows a schedule from the request that creates it. `Build` is what
makes a schedule of a request or rejects it, `CreateSchedule` the row, with its
days in one text (`JoinDays`, `ParseDayNumbers`), and `RowToStored` the
schedule read back, which the scheduler builds anew on every pass; `NextRun` is
`next_run` of every kind, and `Reschedule` its repeated use from ticks of any
lateness. Properties: `NothingSkipped`; `OnTime` (`AtWallClockTime` and
`OnTheGrid`: across clock changes a run stays at its wall-clock time, and interval
runs at the multiples of the interval); `OncePerDate`. The clocks of a zone are
any that satisfy `ClocksAssumption`; the run's instance is one of them.

`Rolling` is the period windows and `decide_rolling`. Properties:
`WindowsPartition` (`WindowContainsInstant` and `WindowsTile`: every instant belongs
to one window) and `TakenOnce` (`CaughtUp` and `NothingTwice`: a period takes
every instant up to its last run, and none twice). What a host does with the
decisions follows the documentation of `RollingAction` (`Cover`), since that host
is not written.

### SummaryJob (and SummaryJobProofs)

`summarize_as_job` around `summarize`: a job is recorded, started, and the loop
visits rungs of the model ladder (`Downgrade`, `CapTooLow`, `Call`, and the
outcomes of a call) until it finishes and the row is concluded. Writes fail,
the process dies anywhere, and `Startup` pauses what it left running. Prices,
output allocation and the guard are the code's integer arithmetic. Properties:
`SpendNearCap` (a job is over its cap by no more than the answer it got last cost
above its own estimate, the history `excess`), `RunningIsOwned`, `EndIsFinal`, `EveryJobEnds`.

### ExportParser, WhatsAppImport, Uploads (with proofs in WhatsAppImportProofs)

`ExportParser` is `parse_export`, line by line: a header in one of two dialects,
read in the date order and the zone its uploader declares (`ParseStamp`, `ToUtc`:
the earlier instant of an overlap, none in a gap), or a line that continues the
message above (`Continue`); system lines that are events, media, the date range. A
line is a record of how it opens, the numbers of its stamp, its sender and its
text; the scanning of characters that finds them is abstracted. The loop over the
lines is a recursive function, so that it can be proved about.

`WhatsAppImport` is `ingest`, one action per statement it sends to SQLite, so
that uploads interleave as their connections do. Hashes are taken to be
injective, so a hash is its input. Properties: `SharedLinesCollapse` (a line that
exports show alike is one row), `IdentitiesSound` (`AuthorsKnown` and
`OneParticipantPerSender`), `ReimportChangesNothing`. `add_alias` has no caller
yet and is left out.

`Uploads` composes the two, from file to rows, and states what only both can
break: `StoredAsWritten` compares the stored messages with the files themselves,
without the parser's loop: for each line that starts a message (`Starts`), a row
tells of it and of the lines below that belong to it (`TellsOf`), and there are no
other rows. `OverlapParsedAlike` says that what comes before a message of an export
does not change how the lines from there on are read, which is all that overlapping
exports have in common (`TailReadsAlike`, for the files of a small sample).

### Coverage (with proofs in WhatsAppImportProofs)

`analyze_coverage` over a growing set of imports, against the set of time units
they cover: `ReportIsRight` (`CoveredIsUnion` and `GapsAreGaps`), `NothingHidden`
(a stretch the report leaves out is no longer than the floor), `ImportsOnlyFill`
(an import never makes a gap grow). `sort_by_key` is the insertion of one span after
the other behind those that start no later; it and the loops over spans are
recursive functions.

### Extraction, Records (and RecordsProofs)

`Extraction` is what becomes of a model's answer: `Problem` and `Resolve` are
`finalize`, which refuses an answer that is cut off, filtered, empty or
ungrounded and resolves citations by place; `Join` and `Split` the columns that
hold lists (`Joinable`: those a column gives back); `Render` the formats, a function
from the sections a format shows to their entries (the order of sections is fixed, so
it tells nothing apart), each entry with its own breaks, since a reader sees where one
begins by its bullet or by the comma. `Nonblank`, which `Split` rests on, is a
recursive function.

`Records` is the life of a summary once it is made. A publication is a call of
`deliver`: `SaveRecord` in one transaction, refused when the id is taken, then one
step per destination (`SkipDashboard`, `Refuse`, `Dispatch`) and the `Report`. A
client's request checks its token (`Ask`), waits for the lock (`Enter`), and
runs one statement and the reload after it (`Update`, `Reload`), lists, or creates
a demo summary. Statements fail, the process dies, publications are repeated;
`deliver` is called by nothing yet that would serialize it with the requests, so
the two interleave. `rows` and `children` are the tables; `handed`, `report` and
`answer` are history.

Properties: `WholeRecords` (`StoredWhole`, a record is stored with all that
belongs to it and nothing lies about without one, and `ReadsBack`: a list is read as it
was made exactly if its entries are single lines, and not blank, and a rendering of
such lists is the rendering of what was made); `SentOnceAfterSaved`; `HonestReport` (one
destination's failure costs no other its turn, and the report says what was handed
over); `ChangesStayHome` (a record changes only as a client of its workspace
asked, under the lock); `AnswersShowChange` (clients see whole records with their
change, and listings in order). The older `summaries` table, which only the
walking skeleton uses, is left out.

### Accounts (and AccountsProofs)

`AuthService`, statement by statement. `BeginLogin`, `BeginLink` and `BeginRefresh`
take the repository's lock, as the login route does; refreshing, linking and
logging out everywhere have no route yet, but cannot do otherwise: `AuthService`
borrows the repository for the whole of a call (`host/src/auth/mod.rs:154` is not
asynchronous), and an `SqliteRepository` holds a connection, which Rust does not let
threads share but behind the mutex of `api/src/lib.rs:28`. `FindUser` and
the five outcomes of `resolve_link`, `LinkIdentity`, the best-effort `Audit`,
`MatchSession`, `RevokeSession`, `OpenSession` and `Answer` are a call's
statements; between them any may fail, the process may die, and the clock moves on
while the call works with the time it began at. `RevokeAllForUser` and
`PruneExpired` come between calls. Spellings of an identity are normalized as each
provider does. Random tokens are fresh values; hashing and signing are injective.

Properties: `OneLivePerSignIn` (of the sessions that go back to one sign-in at most
one is live), `SpentRemembered` (a spent token is refused as revoked as long as it
would have been good, through every pruning), `LoggedOutWithinTtl` (no token of a
sign-in that was logged out everywhere is exchanged again, and its access, which is
not cut, is over after the lifetime of an access token), `OneUserPerPerson`, `LedgerTells` (the
audit log tells of every binding but those whose entry a fault swallowed, and of
none that was not made).

### How they meet

`ResilientLlm` extends `RateLimiter`; `Scheduler` takes `NextRun` as a constant
operator, which `Recurrence` gives in full; `SummaryJob` has the verdict of
`Extraction!Problem` as an outcome of a call, `Records` begins where a job's
summary is made; `Uploads` is `ExportParser` before `WhatsAppImport`, and
`Coverage` works on the date ranges the former reports.

## 3. Runs

The `MC*` modules give the constants values. Every counter that could grow is
bounded by a constant named in its module (`MaxClock`, `MaxFaults`, `MaxCrashes`,
`MaxImports`, `LastBegin`, ...). Deadlock checking is off where the bounded
clock, the calendar or the last upload ends the behaviour.

| Run | Properties | Instance, and why it is enough |
|---|---|---|
| `limiter` | `LimiterSound` `BudgetKept` `HeadroomKept` `WaitIsExact` `WaitStaysGood` `ImplementsBudget` | Two providers of different quotas (one zero, raised to one) behind one circuit, for three of the 5 ticks of a minute, with a fifth of every bucket reserved: refills by fractions of a token, up to a whole one and more, prices that fit the bucket and, at one request a minute, prices that do not, every stale reading, trips, half-openings and recoveries, and what one provider's 429s do to the other. |
| `engine` | `AnsweredInTime` `HintHonoured` `ImplementsLimiter` `EveryRequestEnds` | Two callers on one bucket of two, in `FairSpec`, 8 ticks, both begun at the start: both pass, both wait, one drains while the other is in flight; retries up to the limit, long enough for the worst sequence of waits (6 ticks) and the one tick in which a thread may be held up, between any two of its steps. Temporal, so without symmetry. Any number of such ticks is in `EngineSpec`, of which the proofs speak. |
| `scheduler` | `RunOnce` `StopsStick` `EveryDueHandled` | An interval schedule and a Once, grace shorter than the interval, 5 ticks, one fault anywhere: a run that outlasts its interval, late runs, skips, two failures in a row and what follows. In `LiveSpec`, which has the behaviours of `Spec` with fairness. |
| `scheduler_pause` | `PauseHolds` | The same without faults; a violation, below. |
| `recurrence` | `NothingSkipped` `OnTime` `OncePerDate` | Half a year with both clock changes and months of 28, 30 and 31 days; all kinds, with times in the gap and in the overlap, no weekdays, days that never come, and requests that are rejected. A day has six ticks, so that the quarter-hourly and hourly kinds, which are the four-hourly one with another divisor, are not requested. |
| `rolling` | `WindowsPartition` `TakenOnce` | Two and a half weeks around a month's start; one clock change skips a midnight, one is in the day; weekly periods ending on two weekdays, biweekly, monthly. |
| `job` | `RunningIsOwned` `SpendNearCap` `EndIsFinal` `EveryJobEnds` | Every length and caps that are negative, exactly met and never met over three models; two crashes and a failed write anywhere. Jobs share nothing but the crash and the restart, so one shows it. |
| `import` | `SharedLinesCollapse` `IdentitiesSound` `StoredAsWritten` `OverlapParsedAlike` `ReimportChangesNothing` | Three overlapping exports of one chat, in both dialects, both date orders and two zones, with a system line, an uploader's own line, continuation lines, a line in a clock gap, a name and a number that exports share, and an export of a second chat with the same number; a crash, and repetition. `OverlapParsedAlike` compares every file of up to four of seven kinds of lines. |
| `import_contact` | `ParticipantsPerChat` | One export of each chat; a violation, below. |
| `coverage` | `ReportIsRight` `NothingHidden` `ImportsOnlyFill` | Up to three imports over six instants: two neighbours and a third meet in every way. |
| `accounts` | `OneLivePerSignIn` `SpentRemembered` `LoggedOutWithinTtl` `OneUserPerPerson` `LedgerTells` | Two callers, a mailbox in two spellings, a Google account with the same address and one whose claims are refused; three refresh tokens (a sign-in refreshed twice, or two sign-ins), two users, a clock that outlasts both lifetimes, one fault. Symmetric in callers, users and tokens; there is no temporal property. |
| `records` | `WholeRecords` `SentOnceAfterSaved` `HonestReport` `AnswersShowChange` `ChangesStayHome` | Four publications, two of which clash over an id from different workspaces, one ungrounded, one older; lists whose entries are lines, and lists with broken and blank entries in a section that both formats show and in one that plain text leaves out; destinations of every fate (dashboard, delivered, failed, no deliverer, no address, not enabled, not connected); two clients, of one and of both workspaces. Two publications, two requests and one fault suffice for a repetition after a crash and for two requests that overlap. |

Every property of a passing run has a mutant in `PROJECT.json`: one of the
"Variant of" definitions, with which TLC finds the property violated.

### Disagreements between the code and what is said of it

Two are runs, each checking one property that the code violates:

* `scheduler_pause`: the write after a run re-enables a schedule that the user
  paused during it (`host/src/scheduler.rs:104`).
* `import_contact`: the participant id is derived from the contact alone and is
  the table's primary key, so the first message of a contact known in one chat
  cannot be ingested in another (`host/src/whatsapp.rs:155`).

The others were met while modelling. The models do what the code does, and the
properties claim no more than that allows:

| Where | The code | What is said |
|---|---|---|
| `host/src/llm/ratelimit.rs:214` | A later 429 can bring the end of an open cooldown forward. | line 206: honours a hint when it is longer |
| `ratelimit.rs:98` | At one request per minute, a Normal or Low request needs more tokens than the bucket can hold, and no wait it is told suffices. | line 91: "until `target` tokens are available" |
| `ratelimit.rs:198` | A success in flight when the circuit trips closes it at once. | line 113: "refused until the cooldown elapses" |
| `ratelimit.rs:173` | A half-open circuit admits every caller. | line 115: "a single probe" |
| `openrouter.rs:119` | The reset header's Unix time is slept as a duration. | `provider.rs:15`: "Unix-seconds reset time" |
| `host/src/scheduler.rs:62` | A pass judges by the time it began; a schedule behind a slow run starts after its grace. | `domain/src/schedule.rs:232`: "don't fire a stale summary" |
| `scheduler.rs:107` | Resuming a fired Once within its grace fires it again. | `domain/src/schedule.rs:69`: "fires a single `once_at`" |
| `repository/src/schedule.rs:150` | Resuming an auto-disabled schedule keeps its failures; the next pass disables it without a run. | `docs/PRD.md:219`: "Pause/resume tasks" |
| `domain/src/schedule.rs:197` | Day 31 at a time in the gap of 31 March has no date within the scan, and the schedule is given up. | line 192: two months cover monthly |
| `host/src/summarize.rs:152` | The guard checks an estimate; the actual answer may exceed the cap. | line 34: "Hard cost cap" |
| `summarize.rs:130` | Downgrades and escalations alternate until the loop's bound reports an outage. | line 130: one visit per rung in each direction |
| `summarize.rs:155` | `degraded` survives an escalation back to the model the length starts with. | line 44 |
| `summarize.rs:158` | The cap is called too low for the cheapest model because of what was spent; a usable earlier attempt is dropped. | line 57; `docs/PRD.md:70` |
| `summarize.rs:225` | A failed job is recorded as having cost nothing. | `domain/src/job.rs:150`: "the cost so far" |
| `domain/src/whatsapp/datetime.rs:72` | iOS exports show seconds and Android exports do not, so a message has another instant, hence another fingerprint, in an export of the other dialect. | `host/src/whatsapp.rs:170`: "collapses to one row" |
| `domain/src/whatsapp/mod.rs:101` | A line whose header does not parse is appended to the message above. | line 68: "unparseable headers are skipped" |
| `repository/src/summary_store.rs:53` | An entry of a list that contains a newline is read back as several, and a blank one not at all; nothing keeps such entries out, and a reader sees other bullets than were made. | line 51: "entries can't contain newlines" |
| `host/src/auth/mod.rs:223` | Access tokens are verified without a look at the sessions: after a logout everywhere they are good until they expire. | `domain/src/session.rs:34`, `repository/src/session.rs:4`: a revocation can "cut access before the short access-token TTL elapses" |
| `host/src/whatsapp.rs:109` | The uploader's own messages have another author, hence another fingerprint, than in everyone else's export. | line 171: "collapses to one row" |
| `repository/src/whatsapp.rs:203` | Once an alias is linked, the same export may store its messages again. | line 8: "a re-import is idempotent" |
| `domain/src/rolling.rs:106` | Periods that begin or end at a skipped midnight have no window. | line 3: "DST-correct" |
| `rolling.rs:124` | A period found over is finalized without what came since the last run. | line 5: "catching up missed days" |
| `host/src/scheduler.rs`, `domain/src/schedule.rs` | Grace 300 seconds, five failures. | `docs/PRD.md`: an hour, three |

## 4. Fairness

* `EngineSpec` has no fairness. `FairSpec` of `ResilientLlm` is weakly fair to each
  thread and to the clock: the threads are OS threads that do nothing but sleep, lock
  and call, and the HTTP agent has a timeout, so a call always returns. It bounds the
  ticks in which a thread that could run does not (`MaxLate`), so that the bounded
  clock lasts for the worst sequence of waits.
* `LiveSpec` of `Scheduler` is weakly fair to the clock and to each driver. The
  driver is external: the crate's documentation has the caller tick
  periodically. Runs return because every LLM call is bounded, the previous
  point. Users and faults are never fair.
* `FairSpec` of `SummaryJob` is weakly fair to each live job and to `Startup`,
  because `repository/src/job.rs:5` has a restart pause the jobs left running;
  the call itself is in no main yet, and is external.
* `Records`, `Accounts`, `WhatsAppImport` and the rest have no fairness and no
  liveness property: a caller that dies is not obliged to come back, and nothing in
  the code resumes for it. In particular a publication that died between two
  destinations is never completed, since a repetition is refused at the save; the
  code promises no more, and `SentOnceAfterSaved` is what that buys.

## 5. Proofs

Proved with TLAPS for all values of the constants that satisfy the `ASSUME`s of
the modules (`LimiterConstants`: natural rates and times, and any fraction in
reserve, the default is a tenth; `EngineConstants`: natural timeouts, and every wait a header can announce among
the limiter's hints):

* `LlmProofs`, the limiter. The inductive invariant is `BudgetInv`: type correctness,
  `BucketsSound` and `BudgetKept` together. `BudgetKept` alone is not inductive:
  a grant at a stale time needs the bucket's last refill to lie between the
  window's opening and now, and a bucket not yet made needs to be as good as
  full at the start. Each of the limiter's steps has its lemma, and a step
  touches one provider (`OneProviderStep`). From it follow `TypeCorrect`,
  `BudgetIsKept` and, with the breaker's own invariant, `LimiterStaysSound`;
  `HeadroomIsKept` needs a second invariant on top, and
  `LimiterImplementsBudget` shows that every step is a step of `SharedBudget` or a
  stutter. `WaitsAreExact` splits on whether the price fits the bucket; where it does
  not, no reading finds the tokens (`TooDearIsRefused`). `WaitsStayGood` is an action
  property: refilling now and again later gives what refilling later does
  (`RefillsAddUp`), so a refused poll changes nothing to come.
* `LlmProofs`, the call path. `EngineInv` says that each thread's locals are fit for
  the limiter's operations (a provider, a priority, a reading not from the
  future, a wait among the hints); every thread step is then a limiter step or a stutter
  (`EngineStepSound`), which gives `EngineInvariant` and
  `EngineImplementsLimiter`. `EngineKeepsBudget` combines it with the limiter's
  theorems, and `EngineImplementsBudget` composes the two refinements: the callers'
  system implements `SharedBudget`. `EngineStaysPatient` adds that no state of a
  thread goes on earlier than the last hint allows (`AllPatient`); `EngineTypeCorrect`
  and `HintsAreHonoured` follow. `AnswersAreInTime` is about `EngineSpec`, in which a
  thread may be held up anywhere and for any time, and assumes that attempts and hints
  are bounded (`BoundedWaits`); its invariant `AllWithin` bounds what each state may
  still wait for by the start of the request, the attempts made and the time the thread
  was late, in which a drowsy thread's sleep counts from the look it took.
* `SchedulerProofs` assumes a finite, nonempty set of schedules, a `NextRun`
  that answers with a later time or none, and `OneDriver`: nothing in the
  program starts a pass while another is under way. `RunOnce` counts, so its
  invariant does too: `RepeatsArePaidFor` says that the repeated runs, plus the
  schedules that could still repeat one (from their row or from the snapshot of
  a pass), are at most the faults. It needs to know of a pass that it has a
  schedule at most once and works with no time after the clock (`PassInv`).
  `ExhaustedIsNotRun` needs that every copy of a failure count, in a row, in a
  snapshot or at the runner, lags behind the real streak by no more than the
  faults (`CountsKeepUp`). `DeletionsStick` is inductive as it stands, and
  `StoppedStaysStopped` is both.
* `SummaryJobProofs`. `SpendsStayNearCap` adds to the property that a call under
  way was affordable on top of what was spent before it (`SpendsNearCap`), and
  rests on estimates and costs being natural numbers; what it allows over the cap is
  the excess of the call last answered, whatever model that was. `RunningRowsAreOwned` and
  `EndsAreFinal` come from `RowFollowsRun`: a row says where its run is, and only
  a failed write, or a crash until the next startup, leaves it behind.
* `WhatsAppImportProofs` assumes what the parser returns: some lines, and numbers
  that are not empty. The invariant `ImportInv` says that the id of a participant
  and the row of a line are functions of what the line shows (`PeopleInv`,
  `AuthorOf`, `Landings`), and that what an upload has dealt with is in the
  tables (`Progress`). `SharedLinesCollapse` could not be proved without the
  first, nor `ReimportChangesNothing` without the second. `IdentitiesStaySound`
  and `TypeCorrect` rest on it as well.

  For the way from file to rows it is also assumed that an export is what parsing
  its file gives (`UploadsAssumption`) and that months follow each other
  (`ParserConstants`). `StoredInv` says that each row is a message of a file.
  `FilesAreStored` then needs to know what the parser makes of a file: after any
  number of lines, an increasing map leads from the messages read to the lines that
  start them, and each message tells of its line (`Tells`), which is shown line by
  line over the recursion (`ParseStepwise`, `TellsStep`, with `Induction`).
  `TailsReadAlike` compares two parses the same way, one of a whole file and one
  from the first of its messages that is kept, for every file and not only for the
  sample; that the range of dates is within the whole one's needs that a finite set
  of instants has a least and a greatest (`FiniteSpans`). `OverlapsParsedAlike`
  is an instance.

  Of coverage nothing is assumed but that times and the floor are natural numbers.
  Sorting leaves the same upright spans in order (`SortedUpright`), and merging them
  one by one keeps `Parts`: the merged spans are apart and upright, each span is
  within one of them, and their ends and units are ends and units of spans. So the
  covered units add up (`CoveredUnits`), and an instant lies behind some of the
  merged spans and before the ends of the others (`Located`), which tells whether it
  is covered, reported or in too short a stretch: `ReportsAreRight` and
  `NothingIsHidden`. `ImportsFill` is an action property: an old span that reached
  into a new gap would have a unit in it, hence an import would (`GapWasGap`). It
  rests on `CoverageInv`: imports lie between the chat's beginning and now.
* `AccountsProofs` rests on the one lock: of the calls only the holder's is under
  way (`TablesInv`, `CallsInv`), so that a row matched is still the same row when
  it is revoked. `SessionsInv` adds to that, with type correctness, that each
  session goes back to the sign-in it was issued for, and that between the
  revocation and the insertion of a refresh its sign-in has no live session at
  all; from it follow `OneLiveSession`, `LogoutIsFinal` and `SpentStaysRefused`
  (for which the invariant keeps spent rows from every pruning before they expire).
  `IdentityInv` says that every binding is in the links before anything is written
  of it and that claims of one person normalize to one identity; it gives
  `PersonStaysOneUser` and `LedgerStaysTrue`.
* `RecordsProofs`. `RecordsInv` has three parts: what is stored is whole and came
  from an accepted answer (`StoreInv`); a publication that is sending has stored its
  record, has handed over only destinations it is past, and none twice
  (`SendingInv`); a request under way was granted its workspace (`RequestsInv`).
  `SendsOnceAfterSaving` and `ChangesAreAuthorized`, an action property, follow.
  `RecordsAreWhole` needs, of the columns, that the lines of a list are read back
  without the blank ones and in order (`Join` and `Split`), which is proved over
  the recursive function `Nonblank` by induction on a set of lengths (`Induction`),
  and that of the lists only those of nonblank lines come back as they were
  (`JoinableLasts`, `SplitIsJoinable`).
  `ReportsAreHonest` rests on `ReportingInv`: what a publication has noted so far
  is, place by place (`Place` counts the destinations before one that are no
  dashboard), what became of the destinations it is past. `AnswersAsAsked` rests on
  `AnsweringInv`: a request that made its change holds the lock, so its row still
  shows the change when it is reloaded, and an answer given is true of the tables
  when it is given.
* `RecurrenceProofs` assumes of a zone that it is less than a day from UTC, and that
  clocks set back show again what they have shown (`ClocksAssumption`; a zone moves
  its clocks in one step, and its changes lie days apart). A due time is the first
  instant that shows the schedule's wall-clock time on a date that it names, and
  `RecurrenceInv` carries that: the row came of a request and reads back as it, the
  due time is `next_run` of the last run, and the date last served lies behind
  (`DueOn`). `RunsOnTime` is a fact of `DueOn` and of the interval arithmetic;
  `NextRunSkipsNothing` that the scan over `Horizon` days meets every date in order;
  `DatesServedOnce` that a later date is due later, across every clock change.
* `RollingProofs` assumes a calendar in which weekdays go round and no month is
  longer than 31 days (`CalendarAssumption`), and clocks as above that besides do
  not return to a date once left. Zones set back at midnight satisfy that when
  they go from midnight to 23:00 of the date that is ending; a zone that is set
  back at 00:01, as Newfoundland's was until 2011, does not, and there a window
  does not contain all of its dates' instants. `WindowsArePartition` needs no
  invariant: a window is a set of consecutive dates, and a date's instants lie
  between its midnight and the next. `InstantsTakenOnce` rests on `RollingInv`:
  while a summary is active, its window is covered from its start to where it has
  got, nothing after that is, and the window ends where another begins (`Going`);
  otherwise all that is covered lies before a period that has begun (`Settled`).

Every property of a passing run is stated by a theorem but for those that depend on
fairness (`EveryRequestEnds`, `EveryDueHandled`, `EveryJobEnds`), which are out of the
prover's reach and left to TLC. The `ASSUME`s are checked by TLC for the constants of
every run.

## 6. Not modelled

* Workspaces, tenants and membership: rows inserted and read by single statements
  with no order between them, and role tables; `evaluate_accept` has no store and
  no caller.
* The older `summaries` table of the walking skeleton.
* Platform fetch (Discord, Slack) and the requests to the LLM provider: I/O and
  mapping of JSON, with unit tests. Their results are inputs here.
* The HTTP shell but for the check of a token and the lock around a handler;
  main, which wires the parts; the WASM guest, which has no state of its own.
* Prompts, secrets, validated newtypes; the scanning of characters in stamps and
  headers.
* `add_alias`, the order of `record_import` and `ingest`, `set_progress` and
  `pause()` of a job: no caller.
* Floating point: token counts are exact here. Clocks are taken to be monotone
  but for the order in which readings are used.

## 7. Plan

Done, in order of importance: limiter, call path, scheduler with its API,
recurrence with its rows, summary jobs, import from file to rows, rolling periods,
coverage, accounts, delivery and stored records; proofs of the limiter, the call
path, the scheduler, recurrence, rolling periods, summary jobs, import from file to
rows, coverage, accounts and records.

Next:

1. `ScheduledSummary`: `Scheduler`, `SummaryJob` and `Records` composed, to ask
   what a crash costs from end to end (a job paused and its schedule moved on, a
   summary stored and not sent). The runner that joins them is still to be written.
2. The order of `record_import` and `ingest`, when the code has a caller for both.
3. Theorems about `ScheduledSummary`, from the invariants of its three parts.
