# Verification project for SmartScraper

SmartScraper runs scrapers on a schedule without a model in the loop, judges
what they extracted, delivers it, and calls an agent back only when a script
stops working.  This directory models that machinery in TLA+, checks it with
TLC on small instances and proves its safety properties with TLAPS.  Paths below are
relative to the repository root.

## 1. The system

| component | code | state it keeps | operations |
|---|---|---|---|
| run lifecycle | `smartscraper/scheduler/tasks.py`, `worker.py`, `huey_app.py` | `run` table, Huey queue, worker threads, `_LIVE` | run, validate, deliver tasks and their follow-ups |
| schedules | `scheduler/cron.py` | registered expressions | match, gate, enqueue, reload |
| web actions | `web/actions.py`, `web/routes/` | coroutines of the web server | enqueue, rerun, cancel, enable, approve, reject, retry |
| post-run pipeline | `pipeline.py` | versions, YAML files | `validate_run`, `promote_version` |
| runner | `runner/` | one subprocess per run, artifacts on disk | steps, locators, engines, escalation |
| validation | `validate/` | none | rules over rows and run history |
| delivery | `delivery/` | `delivery` table | deliver a run, retry what is parked |
| build and repair jobs | `agents/jobs.py`, `builder.py`, `repair.py` | scripts, versions, repairs, `llm_usage` | build up a ladder of engines, trial, repair, store |
| agent gateway and tools | `agents/gateway.py`, `tools_browser.py`, `cost.py`, `fallback.py` | a toolbox for each session | tools, usage, bills, extraction by model |
| build registry | `web/builds.py` | builds of this process | start, trim, cancel all |
| MCP server and client | `mcp/` | none | run, review and read tools; the client that a delivery uses |
| settings | `settings_store.py`, `config.py` | `setting` table, `_OVERRIDES` of a process | load, save, the settings page |
| web pages | `web/queries.py`, `web/routes/` | none | counts, buckets, lists, the log stream |
| scraper files | `dsl/`, `importer.py`, `cli.py` | YAML files | read, import |

Three processes share one SQLite database and one Huey queue (a second SQLite
file): the web server (`smartscraper serve`), the worker (`smartscraper
worker`) and the MCP server.  A run is a subprocess of whichever process
executes it: the web server runs what its buttons ask for in a coroutine of its
own, the worker runs what cron and MCP put on the queue.  After a run, its
process enqueues a validate task, and that enqueues a deliver task.

What is hard about it:

* **interleavings**: a request reads a row, awaits, and writes what it decided;
  the same row is written by three processes without a version check;
* **check then act**: the gates of cron read rows that the tasks they enqueue
  create only later;
* **crashes**: rows and queue are durable, coroutines, threads and children are
  not, and nothing reaps what a dead process left behind;
* **files beside the database**: a script is a file and a row, written one after
  the other;
* **at-least-once delivery**: sends happen before the commit that records them;
* **timeouts and kills**: a child may be killed after it reported;
* **several SELECTs to an answer**: pages, tools and the log stream read one thing
  after the other while runs go on;
* **money**: what a session costs is known when it has ended, and sometimes never;
* **text that may be read in two ways**: numbers, dates, walls and pages.

What makes each component correct is listed with its module below and, line by
line, under `hazards` in `PROJECT.json`.

## 2. Modules

### RunLifecycle (with RunPipeline, MCRunLifecycle, RunLifecycleProofs)

The life of a `Run` row from whoever asks for it to the hand-over to delivery.

| variable | code |
|---|---|
| `enabled`, `row` | `Scraper.enabled`, the `run` table (status, and whether `validator_report` is set) |
| `queue` | the Huey queue: tasks `fire` (a cron match), `run`, `validate`, `deliver` |
| `job` | what each consumer thread holds, and the point its function has reached |
| `web` | the coroutine `_dispatch` started for a run: dispatched, waiting for the child, outcome recorded |
| `child` | the subprocess: alive; ended, and something told that a status is read off (`told`: its outcome line, its exit code, or a last line that says `blocked`); ended with nothing to go by, never spawned, or overdue (`dead`) |
| `cancels` | cancel requests between signalling the child and committing |
| `delivered`, `lost` | how often `deliver_run` was called; runs whose executor died |

A transaction is one action when no other process can matter between its read
and its commit; `cancel_run`, `validate_run` and the cron gate are two actions,
because they write what they decided from an earlier read.  `TaskFails` and
`FailWeb` are a transaction that fails and is rolled back (the web server then
calls `_mark_failed`, the worker does not), `CrashWeb` and `CrashWorker` are
process deaths.  `CancelSignal` ends the child of a run only when it is a child
of the web server, and a child may have its outcome line out by then.  Which status
a child leads to is opened up in `Runner`.

`RunPipeline` is the promise: asked, executed, recorded, judged, delivered, in
this order, each at most once, dropped perhaps but never taken up again.
`RunLifecycle` implements it under the refinement mapping `Phase`, which reads
the stage of a run off its holder.

| property | what it says |
|---|---|
| `OutcomeBeforeFollowUp` | nobody judges or delivers a queued or running run |
| `RunningIsOwned` | a running row has a process, or lost it to a crash or failing transaction |
| `UnjudgeableKept` | a blocked or errored run is never judged, only cancelled |
| `PipelineOnce` | refinement of `RunPipeline`, and with it that the chain of tasks never doubles |
| `DispatchedIsDelivered` | what the web server dispatched comes to an outcome, and every recorded outcome reaches delivery |
| `PoolComesToRest` | the fixed thread pool never wedges |

One statement of the documentation does not hold, with a run that shows it:
`QueuedIsTakenUp` (a re-run is never dispatched).  What the model shows besides,
and no run checks: cron runs do queue up behind each other (`cron.py:15` says
that they do not; the gate at line 127 reads a row that only the queued task
creates), and the outcome of a run in the worker overwrites its cancellation
(`actions.py:131` against `tasks.py:455`).

Left out: the budget gate of `should_fire`, the registry of cron expressions
(a match may come for any scraper at any time; the gate decides), immediate mode
of Huey, history rows and audit log.

*Fairness.*  `FairSpec` assumes weak fairness of each thread's next step, of
each coroutine's next step, of committing a cancel request that was begun, and
of the end of each child.  Threads and the event loop are scheduled by the
operating system; the end of a child is what the hard timeout of
`execute_subprocess` enforces.  Users, cron and faults are not fair.

### Delivery (with MCDelivery, DeliveryProofs)

What `deliver_run`, the sweep `retry_pending` and a retry by hand do to the
`delivery` table, three kinds of database session that overlap freely.

| variable | code |
|---|---|
| `kind`, `disabled` | a `DeliveryTarget`: whether it opted into rows of runs that did not pass, wants only those, or has no usable sink; `enabled` |
| `status` | `Run.status` as `deliver_one` tells it apart |
| `table` | the `delivery` table: status, attempts, whether `next_attempt_at` has passed |
| `pc`, `todo`, `cur`, `tries`, `result` | a session: its deliveries left, the one it attempts, the rounds of `_send_with_retry` and what they came to |
| `seen`, `view` | what the session read: attempts on record, the run's status |
| `writes`, `writer` | what it has not committed, and SQLite's one write lock |
| `sends`, `received`, `byHand` | history, what the receiver could tell |

A session reads at its start, sends (`Attempt`), writes after each target
(`Flush`, which takes the lock) and commits at its end.  So the lock is held over
the sends to the next targets, and what was sent is on record only with the
commit: a crash (`CrashWorker`, `CrashWeb`), a failing session or a lock that
never comes (`TimesOut`) forgets sends that were made.  A receiver may get any
prefix of the batches and still have its answer lost.

| property | what it says |
|---|---|
| `SentMeansReceived` | what is recorded as sent was received, whole |
| `EveryTargetHasOutcome` | one target failing never stops the others |
| `OnlyWhereAsked` | rows of a run that did not pass only go where that was asked for |
| `RecordedAttemptsMade` | no attempt on record that was not made (up to `MaxSends`, where the count stops) |
| `SweepKeepsLimit` | the sweep gives up at `max_total_attempts` |
| `PendingSettles` | a parked delivery is sent or given up in the end |

`PendingSettles` holds only where something enqueues `retry_deliveries`
(`Sweeper`), and nothing in the repository does: `pending_never_retried` is the
run with the code as it is, `delivery_live` shows that the sweep itself is sound.

Left out: how a sink forms a request (each sink is the set of its answers;
module `Sinks` opens them up), the delays between attempts, `last_error`, deduplication and change
detection (the code has none).

*Fairness.*  A session goes on (sends and lock waits have timeouts), time passes
until a parked delivery is due, and with `Sweeper` the sweep is enqueued again
and again.  Retries by hand and faults are not fair.

### Promotion (with MCPromotion, PromotionProofs)

How a repaired script comes to be the one that runs execute, for one scraper.  A
run executes the YAML file (`script_path`), the verdict is made with the version
row (`load_script`), so the two must agree.

| variable | code |
|---|---|
| `script`, `version` | `ScriptVersion`: whose script a version holds, and its status |
| `file` | whose script the scraper's YAML file holds |
| `repair` | the `Repair` row of each job: its status |
| `policy`, `traits` | `promotion_policy`; whether a candidate is minor, has custom Python, was made with capability gaps |
| `pc`, `op`, `on`, `base` | a session: what it does about whose repair; the version a job repairs |
| `seen` | what the session read; SQLAlchemy writes only columns that differ from that (`Merge`) |
| `asked`, `behind`, `clash` | history: approvals asked for; the file was left behind; two sessions were open at once |

The sessions are `repair_scraper` with `persist_repair` (`Start`, `Propose`,
`Store`), `approve_repair` and `reject_repair` of the web UI (`Decide`), and
`approve_repair` over MCP (`McpApprove`).  Where a promotion writes the file, it
does so between its reads and its commit (`WriteFile`), and no rollback undoes it.

| property | what it says |
|---|---|
| `OnlyLetThrough` | nothing is active or in the file that neither a human nor the policy let through |
| `AtMostOneActive` | one active version, where sessions did not overlap |
| `DecisionMatchesVersion` | a repair's status and its version's status agree, where sessions did not overlap |
| `FileFollowsTable` | runs execute the active version, where sessions did not overlap and nothing left the file behind; the next promotion by the web UI or a job makes up for that |
| `ApprovedIsExecuted` | what was approved over MCP is executed: **fails**, `approve_repair` there never writes the file |

What the model shows besides, and no run checks:

* overlapping approvals (three on two repairs) leave two versions active, which
  is why three properties speak of sessions that do not overlap;
* the web UI decides repairs that were decided before: rejecting an approved one
  leaves no version active and its script in the file;
* a candidate's version is its base plus one, so that after a rejection, or while
  a candidate is pending, the next job on that base fails when it stores
  (`Store`, second case), after its agent was paid for, and with the spend not
  recorded.

Nothing in the repository enqueues `repair_scraper` yet; the model runs it any
number of times.  Left out: `yaml_path` being empty, builds and imports, which
write the first version, and the budget check (all in `AgentJobs`).

### Runner (with MCRunner, RunnerProofs)

One run: the child process that executes a script (`runner/cli.py`), and what its
parent makes of it (`scheduler/tasks.py`).  `RunLifecycle` sees the child from
outside, as something that ends; this is its inside.

| variable | code |
|---|---|
| `script`, `level` | the `ScrapeScript`; the rung `escalate` tries |
| `pc` | where the child is: loading, opening an engine, in the steps, judging, exited, killed; recorded by the parent |
| `stack` | the calls in progress: a block for each `execute_steps`, a frame for each `_loop` and `_paginate` with its local variables |
| `doc` | the document the engine shows: pages of a listing, or the page of one row |
| `page`, `scope`, `named`, `bags`, `rows`, `visited` | `StepContext`: `vars`, `bags`, `rows`, `pages_visited` |
| `file` | `records.jsonl` |
| `attempts`, `outcome`, `code` | `LadderResult`, `RunOutcome`, the exit code |
| `line` | the last line the parent has read of the child, as `final_line` tells it: the outcome, one that says `blocked`, another, or none |
| `run` | the `Run` row and the `Record` rows |

Each step is one action: `Goto`, `Extract`, `ExtractList`, `CustomPython`, `Emit`,
`LoopStart` and `LoopNext`, `PaginateStart`, `Turn`, `TurnFails` and
`PaginateEnd`, and `PlainStep` for the steps that change nothing the model keeps
but may fail (`Ends`).  `Fails` is the way of an exception through `escalate`: to
the next rung if `Climbs`, else to the end.  `Timeout` and `Killed` may come at
any step; `CustomPythonExits` is code of the script that ends the process.  The
parent judges what is left (`Status`): a child over its hard timeout is an error;
else the exit code decides, if it is one of the four, and then the last line,
which need not be the outcome line (`LastRead`: a line over the stream's limit is
dropped, and the child may be killed before it writes it).  `Scripts` are the scripts and `Steps` the steps that they and the bodies
of their loops are made of; `ScriptsAssumption` is what the models of `dsl/models.py`
demand of them.  The site is free: which rows a page yields and how an engine call ends
is chosen step by step.  A row carries the rung that extracted it.

| property | what it says |
|---|---|
| `RowsOfOneRung` | what is judged was found by one rung; nothing of a failed one is in it |
| `EmittedIsOnDisk` | whenever a run is stopped, what it emitted is in `records.jsonl` |
| `ListingInOrder` | pagination takes the pages in order and no row twice |
| `WalkIsCapped` | a listing visits no more pages than the caps of its step and of the run allow; no pagination of a block that visits one page turns to a page past the cap of the run |
| `StatusTellsHow` | a verdict means that the last rung came through and the child ended by itself, outcome line or not; blocked, that this rung was refused, even if the child was killed later; what ended by itself has the status of its outcome, unless code of the script chose the exit code |
| `RunIsRecorded` | every run ends recorded |

One statement of a test does not hold beyond the case it tests: with several rungs
`records.jsonl` keeps what a failed rung emitted, and the parent stores the file
(`PersistedIsJudged`, run `stale_records`).

What the model shows besides, and no run checks:

* a "load more" takes the rows of the document again at every click, so that the
  same row is in the bag once for each click after it appeared;
* `max_pages_per_run` stops `paginate` only, and between its turns: a loop over links
  goes on beyond it, and a block that visits several pages may pass it by those of
  one turn;
* a script that declares an engine which its `escalation` does not list has that
  engine put in front of the whole ladder, cheaper rungs included, which the
  docstring of `rungs_for` says are skipped.

Left out: selectors, fallbacks and value parsing (the rows of a page are any
subset), the delays of the rate limit, disk errors, the `index` variable, page
variables with other names, custom code that returns nothing to a bag or changes
the context itself or prints log lines of its own, clicks that navigate, the saved page, screenshot
and trace, the log.

*Fairness.*  The child and its parent go on: every engine call has a timeout, and
loops and pages are bounded by the script.

### The services around a run (MCServices)

`MCServices` puts the modules below side by side.  They share no state in the
model, so a behaviour is of one of them, its *scene* (`Scenes`); nothing would be
gained from the product of their states.  Modules of functions only are checked
over samples, one state for each input.

#### AgentSession (with AgentProofs)

One session of the builder or the repair agent: the tools of `BrowserToolbox`
that the model calls, one at a time, until its stream ends, and what `build` or
`repair` then reads off the toolbox.

| variable | code |
|---|---|
| `kind`, `engine` | builder or repair; an http engine cannot click, fill or scroll |
| `proposals`, `captured`, `gaps`, `finished` | the toolbox: proposals with the test of their trial, snapshot, capability gaps, `finished` |
| `trial`, `trialRuns`, `justified` | a trial that is going on; a repair's trials as `Run` rows, and `state["trial_run_id"]` |
| `agent`, `result` | the stream: open, ended with a result message, broken; what came back |

The stream may break at any moment, also in the middle of a trial.
`PassedScriptComesBack`: a script that passed its trial comes back, unless a later
one does, and what comes back had passed or was being tried when the stream broke.

What it shows besides: that last case hands on a script nobody tested; the run a
repair points at may be the trial of another proposal (`RunJustifiesCandidate`,
against `jobs.py:248`); the row of a trial that raised or was cut off stays
`running` and holds back its scraper's schedule.

#### AgentJobs (with AgentProofs)

Builds, repairs and imports as jobs (`agents/jobs.py`, `importer.py`): the budget,
the check of a name, the ladder of engines with one session on each rung, the
file and the rows that are stored, and what is recorded of the cost.  A repair that
the policy promotes writes the file (`WriteRepair`) before the flush that may fail on a
taken number, and the process may die in between (`PromoteRepair`, `JobDies`); an
approval writes file and rows in the web UI, may fail after the file
(`ApprovalDies`), and writes rows only over MCP (`ApproveOverMcp`).  `Promotion` takes
those sessions apart step by step.

| variable | code |
|---|---|
| `pc`, `of`, `rung`, `base` | a job: its point, its scraper, its place on `BUILD_LADDER`, the version a repair began from |
| `limit`, `spent`, `usage` | `Budget`; the usage of the result in hand, which a session without a result message does not tell |
| `versions`, `author`, `file` | `script_version`, and whose script a version and the file hold |
| `ledger`, `known` | `llm_usage` of the month; history: the usages a job got to see |
| `overlap`, `raced`, `torn` | history: a job read its budget while another worked; two jobs found a name free at once; a promotion changed only one of file and table, or two changed them at once, and no approval in the web UI since |

`SpendIsCapped`: the rungs of a build share one headroom, and the caps of the month
and of a scraper hold as long as no two jobs are under way at once (nothing
reserves what was read; two side by side do overrun them).  A session is given
`max_budget_usd` and may overrun it (`Overrun`), since the gateway only passes it on and
books what was reported; the claim is up to one such overrun.  `FileIsActiveScript`:
the file of a scraper is the script of its active version, except for names in `raced`
and `torn` and while a repair is between its file and its rows (`Promoting`).

What it shows besides: a repair's candidate is lost after a rejection, or beside
another candidate (`CandidateIsStored`); usages of all rungs but the last, and of
jobs that raise, are never recorded (`SpendIsRecorded`, against `jobs.py:194`: "Spend
that is not recorded cannot be capped"); `build_scraper` lets the `IntegrityError`
of a taken name through, its file already written.

#### BuildRegistry (with WebProofs)

`web/builds.py`: `start` (with and without a running loop), the coroutine of a
build, `_trim` and `cancel_all`, over `jobs`, `listed` (`_JOBS`) and `tasks`
(`_TASKS`).  `NewestListed`: what runs and the newest `MAX_JOBS` stay listed, what is
shown as running has a coroutine, and the registry outgrows its limit only by
builds that were running when it was last trimmed.

#### Watch (with WebProofs)

Those who watch a run of one scraper: the log stream of the web UI, which reads
the file and then the row, while the child and the parent's pump both write to
the file, and `run_scraper` over MCP, which enqueues and then waits for a row newer
than those it knew.  Variables: `row`, `queue`, `log`, `piped` (what the child wrote
and the parent pumped), `stream`, `caller`, and the history `crowded`.

`ShownIsPrefix`: what a stream shows is a prefix of the log, without a gap and
without a repetition.  `OwnRunIfAlone`: the run a call answers with is its own,
unless somebody else's run of that scraper was created during the call; with
cron or a button beside it, it need not be (the call adopts the newest row).

What it shows besides: every line of a run is in `log.txt` twice, once from the
child and once from the pump (`LogIsTheStream`, `runlog.py:66-72` and `tasks.py:145`);
a stream may end without the last lines, written after its last read of the file
(`StreamsShowTheLog`); a call adopts a queued row that was cancelled.

#### SettingsStore (with WebProofs)

`load`, `coerce` and `save` with its flush, reload and commit, the settings page with all
its boxes, single boxes, and a restart, over `env`, `table`, `over` (`_OVERRIDES`),
`page`, `save` and the history `stray`.  `InForceIsSaved`: the web server runs on what is
committed, or on what is about to be, except after a failed commit, a load
between a flush and its commit, or a failed load at the start (`stray`), and
then only until the next load.

`SecretIsKept` **fails** (run `blank_clears_secret`): saving the page for any other
reason deletes a saved secret, whose empty box says "leave blank to keep".
What it shows besides: no other process ever sees a saved setting (the worker
and a stand-alone MCP server never load), and saving the page pins every field
at what it was, as an override.

#### Engines (with ServicesProofs)

What each rung of a ladder opens (session, driver, browser, context), closes, and
leaves on disk (page, trace, HAR), for the runner and for an agent on one rung:
`ladder`, `place`, `at`, `failure`, `held`, `made`, `kept`.  `FailureIsExplained`: no rung begins with
something of an earlier one open, nothing stays open in the end but an agent's
browser whose page could not be opened (the leak of `browser.py:250-252`; the
docstring at `jobs.py:126` asks the caller to close what it never got), a run that
passed in the browser leaves no HAR and none of its own trace, and a run that
failed leaves what was made by the rung it failed on.

What it shows besides: a run that times out keeps no trace, HAR or page; a passing
browser rung deletes the HAR of an earlier one whose trace stays; an http rung
after a browser rung overwrites the saved page, with an empty one too.

#### Sinks, Mapping (with ServicesProofs)

`Sinks` opens up one answer of `Delivery`: attempts, batches and calls of
`_send_with_retry`, each sink by what it may answer and what its receiver has taken
then, an answer that is lost, and the MCP client's own second try.  What a call brings
depends on the sink (`Brings`): all its rows to a webhook, a file, S3 or an MCP server
(`RowSinks`); a preview of a few in a chat message; all or none in a mail, with its
attachment, and none to an addressee that the server refused beside others.  A file or
object whose name has the second in it, as the default one of a file has, is written
anew by each attempt.  `Mapping` is the nesting of a flat mapping (`expand_paths`).
`SinkTellsTruth`: a row that is counted as sent to a sink for rows was taken there; a row
is sent at most once per attempt, twice over MCP; and a mapping whose paths are
compatible reaches the receiver as written.  Besides: a chat message and a mail count
every row as sent whatever they brought; the file sink appends the same rows again on
a retry, or leaves the first file beside the second; and `_assign` raises on paths that
conflict below a list.

#### Answers (with ServicesProofs)

What is read back, one SELECT after the other while runs are recorded: the tools
of the MCP server that answer with rows and freshness, and the counts of
`queries.py` as functions of a history, read while nothing is written.  Each page looks
back over a period of its own (`Since`): the tiles to midnight UTC, the strip over 24
hours, the pass rate over 7 days, the coverage over 30; buckets, lists, feed and the
baseline of row counts have none.  `AnswersAgree`: a client that pages misses no row
that was there when it began; a scraper is listed as needing attention exactly if its
bucket says so; tiles count no run twice and none that the strip has not, and make up
its sums where no run of the 24 hours is from before midnight (after midnight they
differ by those of the evening); and where every engine passed all of its month,
the week's pass rate is 100, but for runs of other engines or of none.

Besides: the tiles are five SELECTs, so that a run judged anew in between may be in two
of them; freshness is read after the rows, so that rows of an older run may be
called fresh (no property is about freshness); a queued or running run makes data stale, and hides a failing
scraper from `needs_attention`; a cancelled run is `fail` in the feed and in no bucket
of `FAILED`; trial runs of a repair count as newest runs and their rows are served;
nothing ever stores `llm_fallback` rows; `scraper_rows` drops the newest passed count
from its baseline even when the last run did not pass; the page of records
counts all records though it lists filtered ones.

#### Verdicts, Scripts, Reading, Spending (with ServicesProofs, FunctionProofs)

Functions only, checked over all small inputs against what they are for.

| module | code | property |
|---|---|---|
| `Verdicts` | `validate/`, the derived thresholds of `agents/builder.py` | `BuiltScriptAcceptsTrial`: a build's script passes the rows of its own trial, but for what `Unforeseen` lists; `BreakageIsKept`: a row count that was rejected stays rejected, and a page that halves is caught |
| `Scripts` | `dsl/models.py`, `classify_change` | `MinorIsOfSelectorsOrMoves`: where no step moved into or out of a loop, a change is minor exactly when only selectors changed; a minor change may move steps that come after a loop, but keeps fields, emits and custom code |
| `Reading` | `runner/block_detect.py`, `locators.py`, `parsing.py`, `validate/parse.py` | `PageIsRead`: walls are told from pages, the ladder of selectors is stable, numbers and dates are read as written where that is possible |
| `Spending` | `agents/cost.py`, `gateway.py`, `fallback.py` | `SpendIsWhole`: a bill counts each model's share once at its own rate; the extractor overruns its cap by one call at most, and what says ok and not capped has read the page to its end or to `max_chunks` |

Besides: blank strings and empty lists are filled when thresholds are derived and
null when a run is judged, and a derived schema forgets that a field was None; a
change that moves a step into or out of a loop may be minor, although `repair.py:7-8` says
that the step list is the same (the comparison goes over flattened steps, so that a
loop that ends a step earlier or later looks the same); three decimals are read as grouping, and the integer of "3.7" is 3; a
vendor's marker beside a captcha in a form makes a full page a wall, against
`block_detect.py:11-13`, and its fifth rule is never reached; a slice of a model
without a price is recorded as free; a page is cut at `max_chunks` before its chunks
are counted, so that what is behind the cut is dropped with ok and without capped;
an answer of a model without a price and without a cost raises out of `extract_rows`
(answer `unpriced`).  Nothing in the repository calls `extract_rows`.

Left out: a schema that the request asks for, which `build` takes before the inferred
one (`builder.py:283`), and exceptions of `build` after the stream (`builder.py:281-288`);
the sign of a number, which `parsing.py:19` matches without, so that -5 is read as 5; a
cancellation while an engine opens, which `browser.py:239` does not catch.

### Not modelled

Migrations, the design screens (static mock-ups) and examples: no behaviour of the
running system.  Rendering of pages, authentication, icons, prompts, the text a
build explains itself with, templates, transforms and file formats of sinks, selector
grammars and regular expressions: data or text that no property here tells apart.
Profiles, proxies and the audit log: rows that are written and read by one
function each.  The argument parsers.  How a site, a model, a receiver and the
operating system answer is left to them, and chosen freely.

## 3. Runs

| run | instance | shows |
|---|---|---|
| `lifecycle` | 1 scraper, 2 threads, limit 2, 2 runs, 1 request, 1 fault | the safety properties and the refinement |
| `lifecycle_live` | the same without faults | the liveness properties |
| `rerun_stays_queued` | web only, 1 thread | finding: `QueuedIsTakenUp` fails |
| `delivery_targets` | 2 targets of any kind, 2 sends a session, limit 4, 1 change, 1 fault | several targets in one session beside the sweep |
| `delivery_live` | 1 target, 2 batches, 1 retry by hand, 1 change, 1 fault, with a sweep | three kinds of session at one delivery: what is recorded of it, and that it settles |
| `pending_never_retried` | 1 target, no sweep | finding: `PendingSettles` fails |
| `promotion` | 2 jobs, 2 decisions in the web UI, 1 over MCP, 1 fault, every policy | the safety properties of promotion |
| `approved_over_mcp` | 1 job, 1 approval over MCP | finding: `ApprovedIsExecuted` fails |
| `runner` | 18 scripts, 5 ladders, caps of 0, 1, 2 and 4 pages, listings of 3 pages | the safety properties of a run and that it ends |
| `stale_records` | 1 script that emits early, 2 rungs | finding: `PersistedIsJudged` fails |
| `services` | ten scenes, see below | the properties of the services around a run |
| `blank_clears_secret` | the scene of the settings: 1 flag, 1 secret box, 2 requests | finding: `SecretIsKept` fails |

*Bounds.*  `MaxRuns` bounds cron matches and requests for a run, `MaxRequests`
cancel and enable requests, `MaxFaults` crashes and failing transactions.  Two
runs on two threads are enough for two runs of one scraper side by side (two
web requests, or cron behind MCP), for a follow-up of one overtaking the other,
and for a gate that sees the other run; one request and one fault suffice for
each property to be broken by its mutant.  The theorems have no bound.
For deliveries, two targets show that one does not stop another and that a held
lock reaches into a send; two batches are the least that can be received in
part; with a limit of 4 and 2 sends a session the sweep reaches it in its second
round.  For promotion, two jobs are one repair on top of another, or two on one
base; two decisions are an approval and its repetition or reversal, beside one
over MCP.  `MaxSends` caps the history `sends` above what the instance can send.
For the runner, three pages with rows, any of them empty, are a first, a middle
and a last one, and a cap of four lets a walk run past them; the ladders have a
declared engine that is listed and one that is not, the rung without an
implementation, and three rungs in a row.  Loops take at most two items, in two
loops over one variable, and one script nests deeper than the limit of five.

The scenes of `services`:

| scene | instance | why that is enough |
|---|---|---|
| `session` | 3 proposals, trials of at most 1 row | a passed one, a failed one behind it, and one that is being tried |
| `jobs` | 1 build, 1 repair, 1 import, one name, 2 rungs, caps 2 and 1, overruns of 1, 2 versions, 1 review, 1 fault | a build and an import race for the name; a repair works on what either made, and dies or is promoted between file and rows, with a review beside it; a build spends on both rungs |
| `registry` | `MAX_JOBS` 2, 5 builds | running builds among the oldest, at, below and above the limit |
| `streams`, `callers` | 1 stream or 1 call, 2 runs, 1 line (written by two processes) | reads between the writes of child and pump; another run beside that of the call |
| `settings` | 1 flag, 1 box that is a secret, 2 requests | a page rendered before and posted after another save |
| `sinks` | every sink, 3 rows, previews of 2, batches of 2 or none, 2 attempts | a full batch and a short one, a first and a last attempt |
| `engines` | every ladder of up to 3 rungs | a rung before and a rung behind the one that fails |
| `readers` | 2 runs, 2 records, pages of 1 | a page before and a page after a record is stored |
| `functions` | trials of up to 3 rows (2 are reported), histories of up to 4 counts, 3 runs of today or 2 of any age, scripts of up to 2 steps, tokens of up to 4 groups, every pair of day and month, mappings of up to 3 paths, 2 slices, pages of 2 chunks of which 1 or 2 are taken | each rule meets a first, a middle and a last item, and each pair of rules meets on one input |

Deadlock checking is off: an instance stops when its bounds are used up.

Every property of a passing run has a mutant in `PROJECT.json`: a change of one
definition, as a plausible bug of that code would make it, under which TLC finds
the property violated.

## 4. What is proved

Every theorem holds for every value of the constants under the assumptions named
with it; none has a bound of the runs.

`RunLifecycleProofs` proves `TypeOK`, `OutcomeBeforeFollowUp`, `DeliveredAtMostOnce`
and `RunningIsOwned` as invariants, `UnjudgeableKept` as an action property, and the
refinement `PipelineOnce`, from `BoundsAssumption`.

None of the invariants is inductive alone.  The inductive invariant says that a
run has at most one holder: the places that may take it further (its coroutine,
a thread, a position of the queue) exclude each other, a run that nobody created
has none, and a run that was delivered has none left.  With it, taking a task
off the queue cannot leave a second one behind, and the status a holder relies
on (running while the child executes, terminal from the recorded outcome on)
cannot be changed by another holder; cancel requests only ever move a row to a
terminal status.

`ImplementsPipeline` rests on the same invariant: as holders exclude each other, the
stage `Phase` reads off a run is that of its one holder (`PhasesOfHolders`), so each
action moves the runs it takes, hands over or drops, and leaves the stage of every
other run alone; the abstract specification takes many runs at once, since a crash
of a process drops all that it held.

`PromotionProofs` proves `TypeOK`, `OnlyLetThrough`, `AtMostOneActive`,
`DecisionMatchesVersion` and `FileFollowsTable` for every number of jobs,
decisions and faults, from `PromotionAssumption` (finitely many jobs).  For
`OnlyLetThrough` the invariant `Inv` adds that nobody sees anything of a job that
has not proposed yet, so that what is known of a candidate no longer changes, and
that a session that may come to activate or write a script is one that may.  For
the others, `Apart` says what holds as long as sessions do not overlap: one is
open at most, what it read is what the tables still say, so that the version
it retires is the one active version, and what it wrote is what the file holds.

`DeliveryProofs` proves `TypeOK`, `SentMeansReceived`, `EveryTargetHasOutcome`,
`OnlyWhereAsked`, `RecordedAttemptsMade` and `SweepKeepsLimit` for any number of runs,
targets, batches and attempts, from `DeliveryAssumption`.  The inductive invariant has
`Custody` (a session attempts one delivery at a time, and has none in hand when it is
closed) and, for what a session did and has not committed, the same statement that
the property makes of the table: what it wrote as sent was taken (`SentWasTaken`), what
it read, wrote and is about to write are attempts that were made (`Counted`), it sends
only where the status it read lets it (`SendsWhereAsked`), which is still the run's
status but for a cancellation (`ViewsAreTrue`).  Two properties need what a deliver
task is to the others: it creates the rows of its run, nobody else has one in hand
before (`FirstIsDeliverRun`), so that its count starts at zero (`WithinLimit`) and each
target is still to do, under way, or written (`NoneForgotten`).

`RunnerProofs` proves `TypeOK`, `RowsOfOneRung`, `EmittedIsOnDisk` and `StatusTellsHow`, for
every set of scripts over the DSL's steps, however deep loops and paginations nest,
from `RunnerAssumption` and `ScriptsAssumption`.  The inductive invariant says that the
stack alternates, a block at the bottom and on the top of each loop or pagination
(`StackFits`), and that all that the context keeps, down to the loop variables saved in
frames, is of rows of this rung (`Seen`); an exception replaces all of it.  The rows of
the context are a suffix of the file, which only grows by what they grow by; exit code
and row follow the stage the child was in (`Stages`, `CodeTells`), but for code of the
script that ended the process (`CodeOfScript`), and so does the last line (`LineTells`).

It also proves `ListingInOrder` and `WalkIsCapped`.  For a script that is a
listing, `ListingInv` says where the walk is (`Shape`), that document, page variable and
frame agree on the page (`Numbers`), that the bag has pages up to that one, or up to the
one before it until the page is read (`Order`), and how many pages were visited (`Capped`).
For the paginations of any script, `CapInv` says what a block may do that visits one
page a turn: it has no loop, nothing it repeats is a pagination, it has a `goto` only
if that is what drives it (`PagesFit`), so that a turn adds one page to a count that
`MayTurn` found below the cap.  This proof corrected the property: it was stated of
every pagination, which no run contradicted, and a block with two `goto`s passes the cap
by one.

The services are proved in four modules (`AgentProofs`, `WebProofs`, `ServicesProofs`,
`FunctionProofs`).

| theorem | from | inductive invariant |
|---|---|---|
| `AgentProofs`: `PassedScriptIsReturned` | `MaxTrialRows \in Nat` | tests only of valid proposals; while the stream is open, a valid proposal without a test is the last one, and its trial is going on; hence the last accepted one passed or is being tried |
| `AgentProofs`: `FileIsThatOfTheActiveVersion` | `JobsAssumption` | one active version of a scraper; a name that nobody raced for is claimed by one job at most, and then it has no scraper yet; from its write to its insert, the claiming job has its script in the file, and so has a repair between its file and its rows (`FileOfPromotion`); a repair at work has versions to work on |
| `AgentProofs`: `SpendStaysCapped` | `JobsAssumption` (finitely many jobs) | each job's account (`AccountOf`: what it knows it spent is within its limit and one overrun, and what it recorded is of that); while no two jobs overlapped, one spends at most, and what is recorded plus its limit fits under both caps (`Reserved`). The recorded spend is a fold over a set of jobs; that the fold is a sum (`TotalWithout`, `TotalGrows`) is proved from least counterexamples, as the induction theorems of the library cannot be instantiated |
| `WebProofs`: `NewestAreListed` | `RegistryAssumption` | the property itself, with types; the work is in the cardinalities: of `n` jobs the newest `MAX_JOBS` are few, and what `_trim` keeps is they and what runs |
| `WebProofs`: `OwnRunUnlessCrowded`, `StreamsKeepOrder` | nothing | every row newer than what an uncrowded call knew is its own (`OwnRuns`); a stream's position is the length of what it showed, line by line that of the log (`ShownInPlace`), and logs are only appended to |
| `WebProofs`: `SavedIsInForce` | nothing | one request at most is between flush and commit (`OneWriter`, SQLite's write lock), and the overrides follow that request or the table (`OverFollows`) |
| `ServicesProofs`: `EnginesLeaveTheFailure` | `MaxLadder \in Nat` | which handles are held at which point of a rung (`Custody`); evidence is made in a browser only; what is kept is of earlier rungs until this one's capture, and then what its failure calls for (`KeptInOrder`) |
| `ServicesProofs`: `SinksTellTheTruth` | `SinksAssumed` (natural numbers) | while an attempt is on its way, the rows up to its batch and call were taken, at a sink for rows (`BringsOfRows`), and no other was sent more often than the attempts and second tries so far explain (`OnItsWay`, `Placed`); that the batches make up all rows for every batch size is `BatchesAreEnough` and `RowsOfBatch`. For a mapping of any length: each step of `_assign` leaves a payload whose leaves are as written, none above another, the last one in place, and all of them if the paths are compatible (`Written`); densifying adds gaps only (`DenseNodes`, `DenseLeaves`), which make every list's places an interval from 0 (`ListsAreFull`) |
| `ServicesProofs`: `MinorChangesAreKnown` | nothing | no invariant but that a sample stays; two scripts of any length differ step by step exactly where `classify_change` looks (`AlikeIsBare`, `ChangeIsTold`), and the depth of a step is open only after a loop |
| `ServicesProofs`: `AnswersAgreeWithRuns` | `AnswersAssumed` (natural numbers) | while the pages are about one target, the client has all it saw as it began that now comes before the offset, counted from the newest record (`Paged`); records are only added, so that these ranks only grow (`MatchesGrow`), and a page that is not full is the last one (`ShortPageIsLast`: the ranks of `n` records are the numbers below `n`).  Of the pages of the web UI, for any history: the periods lie in one another (`PeriodsNest`), colours and tiles split the runs of theirs (`CountsAgree`), bucket, list and feed follow the newest run (`AttentionIsShown`), as many rows as before is no change (`DeltaIsNone`), and engines that passed all of their month make a week's pass rate of 100 (`RatesAgree`) |
| `FunctionProofs`: `SessionsAreBilled` | nothing | none; of the bill, that a fold which adds is a sum that loses a share's cost with the share (`ShareCounts`); of the extractor, what holds after each chunk: complete and different rows, a cost below the cap but for the last call, and a chunk asked for each place until it stopped, of those that were taken |
| `FunctionProofs`: `BreakageStays` | nothing | none; which runs were compared with which is the same however long the history became (`JudgedSoFar`, `RunIs`), a rejected run leaves the baseline as it was, and the mean of equal counts is that count |
| `FunctionProofs`: `TrialsPass` | `TrialsAssumed`: the sample is at most 20000 rows, the code's is 20 | none; each derived threshold against the rows it was derived from.  The assumption is real: a null rate is rounded to four places, so that one empty value in 20001 rows would be derived as no empty value |
| `FunctionProofs`: `PagesAreRead` | nothing, but that a blank selector finds nothing | none; what joining over spaces makes of a number, group by group, and what a number has of each separator as some country writes it; candidates of a longer ladder begin with those of the shorter one |

The theorems about functions state them for every input, not only for the samples of
the runs: rows, shares, chunks, histories, ladders and groups of digits of any length.
Most of these functions fold over a sequence, and a fold of the community modules is a
recursion over sets of places.  That the function it chooses exists, and what it is
place by place (`Unrolls`), is proved once for any step (`FoldByExists`, and `FoldExists`
for `expand_paths`), by a least counterexample among the places; what a fold keeps is
then shown by going on from one place to the next (`UpToAll`).  Separators of
a number are names in the model, and the conversion of `_strip_grouping` a chain of
conditions as in the code, because the provers can reason about those.

Model-checked only, and why:

* liveness under fairness (`DispatchedIsDelivered`, `PoolComesToRest`, `PendingSettles`,
  `RunIsRecorded`): TLAPS cannot reason about ENABLED.

Every safety invariant and action property that a passing run checks is stated by a
theorem.  The statements that runs show to fail have none.

## 5. Plan

Done: all modules above with their runs, and the proofs of section 4.

1. Compositions: `Sinks` under `Delivery` and `AgentSession` under `AgentJobs`, each
   as a refinement of the one answer that the larger module sees.
2. Profiles and proxies, and the tools of the MCP server that read one row, if
   they come to keep state that another component relies on.
