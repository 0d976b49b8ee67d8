# Verification of the job aggregator

TLA+ modules that model this program, TLC runs that check them on small instances and
TLAPS proofs about them for instances of any size. Read it next to the repository. Paths
are relative to the repository's root, so the Python package is `src/` (the scheduler is
`src/scheduler.py`); `PROJECT.json` maps every definition to the lines it translates.

The program watches job boards. A daemon polls them, filters and scores what is new with
a model, alerts the user through Discord or ntfy, and keeps everything in one SQLite file
that a web process (triage board, settings, analytics) and a command line share. Its hard
part is that many small jobs, most of them several statements long with network calls in
between, read and write the same rows with no coordination but single-statement
transactions, and that each of them is written to survive the failure of the others.

1. [The parts of the system](#1-the-parts-of-the-system)
2. [The plan](#2-the-plan)
3. [The modules](#3-the-modules)
4. [The runs](#4-the-runs)
5. [Bounds and fairness](#5-bounds-and-fairness)
6. [What is proved](#6-what-is-proved)
7. [Where the code and its documentation disagree](#7-where-the-code-and-its-documentation-disagree)
8. [What is not modelled](#8-what-is-not-modelled)

## 1. The parts of the system

The processes are the poller daemon (`scheduler.py`: one thread per job, at most one
instance of a job at a time), the web process (`web/`: request handlers, some on the event
loop and some in a thread pool, plus the watchdog thread), and any number of commands
(`handler.py`, `gmail_ingest.py`, `discovery.py`, ...) the user starts by hand. They
interact only through the database; a store call is one transaction.

| Part | State it keeps | Operations | What is hard | What makes it correct |
|---|---|---|---|---|
| Poll cycle (`orchestrator.py`) | nothing between cycles; a claim in flight | fetch, screen, cap, score, claim, fan out, release | overlapping cycles, failures at every await, previews beside live cycles | one alert per posting; no posting lost behind a cache hint; a preview writes nothing; every match is decided |
| Seen jobs (`state.py`, `state_sqlite.py`) | one row per alerted, suppressed or triaged posting, with a ttl | claim, release, suppress, set status, expire, prune | who deletes or replaces whose row | a row only moves along the posting's ledger |
| Evaluation memory | rejected postings with a generation stamp | lookup, record, prune | settings change under a cycle | a posting is skipped only if these settings rejected it |
| Connectors (`connectors/`), source state | per board an ETag, a watermark, or calls and ids seen | conditional requests, walks through pages, sitemaps, searches, the metered aggregator | pages shift under a walk; state is stored before the fate of a posting is known | what the stored state hides was decided; a walk is complete; the budget holds |
| Filters (`normalize.py`, `geo.py`, `filters.py`) | none | one posting in, a decision out | missing data, regions, ages | widening a filter loses nothing; a remembered rejection stays right |
| Model calls (`relevance.py`, `gaps.py`, `llm/`) | none | ask, retry, decode | three providers, answers of any shape | the same answer means the same in every provider; an unscored posting was really asked for |
| Adaptive cadence (`cadence.py`) | interval and due time per board, stamped generation per tier | not_due, record_polls, set_generation | two transactions after a cycle; lost writes | bounded wait; new settings reach every healthy board |
| Poll health (`poll_health.py`) | streak, suppression and backoff per board | book an outcome, re-probe | refusals of different kinds in any order | only earned suppression; nothing is suppressed for ever |
| Vendor pacer (`pacing.py`) | next free slot and gap per vendor | reserve, widen, narrow | concurrent waiters, a deadline, a gap that changes under them | slots keep their distance; a bounded burst; every cycle ends |
| Board and triage (`web/board.py`, `web/app.py`) | status, badge, dismissed list of a card | move, bulk move, dismiss, add | two transactions per move; sweeps beside the user | the user's decision stays |
| Closed check (`closed_check.py`) | misses, flag and announced marker | daily sweep | decides on listed values, flaky boards | two misses to flag; a live posting un-flags |
| Board digest (`board_digest.py`) | the announced marker | compose, send, mark | crash between send and mark; a sweep in between | each closure is announced, once |
| Gmail ingest (`gmail_ingest.py`) | a watermark | search, read, badge, stamp | truncation, failures, two sweeps, windows that move with the clock, mail dated before it arrives | the watermark passes no mail that a sweep should have read; a dismissed message stays dismissed |
| Ops alerts (`ops_alerts.py`, `web/watchdog.py`) | active flag and time of last send per condition | evaluate, gate, send, re-arm | two processes, mark before send | told once per cooldown, told in the end, recovery owed |
| Discovery (`discovery.py`, `sightings.py`, `starter_pack.py`) | discovered slugs, misses, staged candidates | probe, revalidate, quarantine, stage, seed | one budget for five phases; other writers between lookup and verdict; verdicts of two statements | verdicts are earned; nothing staged leaves without one; nothing staged or stale is starved |
| Board sweep (`discovery.py`, `fingerprint.py`) | a verdict per company | list, fingerprint, judge | a list that is old when it is used; two runs | only earned quarantine; every seed gets its turn |
| Companies (`web/settings/companies.py`, `settings/boards.py`, `rows.py`) | rows of the settings | add, remove, edit by digest | three tables list the same board; stale pages | what is listed is polled, once; an edit hits the row that was meant |
| Settings (`settings/store.py`, `settings/service.py`) | append-only versions, a generation, secrets | read, update, restore, import | two forms at once; a snapshot of several statements; a bad version | no change is lost; a snapshot belongs to its generation; bad settings never stop the poller |
| Web objects, config watch (`web/generation_cache.py`, `scheduler.py`) | one object per generation; the triggers applied | get; poll, reschedule | builds that finish out of order; a failing reschedule | never an older object after a newer; the newest trigger in the end |
| Backups (`settings/archive.py`, `transfer.py`) | an archive; the instance it came from | export, extract, import | an archive that is broken halfway, a restore that is cut short | a rejected archive leaves nothing; a backup brings back what it holds |
| Setup wizard (`web/wizard/`) | draft, preview, topic, skipped steps | six steps, two background calls | stale pages, forms of two writes, a GET that calls the model | done means ready; a draft of a replaced résumé has a known cause |
| Draft runs (`web/settings/content_draft.py`) | one record, one background task | start, poll, give up, discard, save | a slow draft declared dead; edits meanwhile | at most one live draft; no edit is lost; never stuck |
| Résumé (`resume_intake/`, `tailor/`) | none | draft, review, rewrite, fit | ids a model makes up | nothing is fabricated; a page loses no more than it must |
| Audit trail (`web/audit.py`, `tuning.py`) | rejected and suppressed postings with a verdict | confirm, rescue, recommend | a rescue waits for the model while a cycle writes; rows that have expired but are still there | a rescue takes; judgements are kept; advice settles |
| Funnel (`web/funnel.py`) | none | count | statuses and their history disagree | the bands of the chart add up |

`PROJECT.json` lists every component, with the reason for each that has no module, and the
hazards this code is exposed to, each at its line with the properties that watch it. Left
off that list, because another part of this file tells of them, are the preview beside a
live cycle (proved, section 6) and those whose bad outcome the code allows (section 7).

## 2. The plan

The order followed what hurts most when it goes wrong: alerts first, then what decides
whether a board is looked at, then what the user's board shows, then the alarms about all
of it, then the slower learning and configuring parts, then the pure functions.

1. `PollCycle` with its abstract specification `PostingLedger`, and its proofs: done.
2. `BoardPolling`, `VendorPacer`, `OpsAlerts`, and `MCPolling` that puts them together, with
   proofs of their safety: done.
3. `BoardCards`, with proofs: done, but for `DismissalsRemembered` (section 6).
4. `SettingsStore` with its abstract specification `SettingsRegister`, and its proofs: done.
5. `Discovery`, with proofs of its safety: done. Not written: the verdict machine of one slug
   as an abstract specification.
6. `AuditTrail`, `DraftRuns`, `SetupWizard`, with proofs of their safety: done.
7. `BoardSweep`, `Fetching`, with proofs of what a fetch accounts for and of the sweep's
   quarantine: done.
8. The pure functions, checked over bounded inputs: `Fingerprint`, `Portfolio`, `PollSet`,
   `Companies`, `Screening`, `ModelCalls`, `Resume`, `Backups`, `Tuning`, `Funnel`: done, with
   proofs about `PollSet`, `Companies`, `Screening`, `ModelCalls` and `Backups`.

The modules compose through what they share. `PollCycle` takes the set of boards a cycle
polls as a free choice; `BoardPolling` is that choice, among those `PollSet` builds from the
settings and from the tables `Discovery` and `BoardSweep` write. `Fetching` is what one
fetch of `PollCycle` stands for. `BoardCards` and `AuditTrail` take claims and releases of a
card as free steps; `PollCycle` is those steps, and `PostingLedger` is the interface all
respect. `OpsAlerts` takes the recorded cycles as given, and the settings generation that
`PollCycle` and `BoardPolling` read is the one `SettingsStore` writes. `BoardSweep` and
`PollSet` extend `Fingerprint`, `Companies` extends `PollSet`.

## 3. The modules

A definition keeps the name of the function it models where TLA+ allows it. Variables are
of three kinds: tables of the database, what a running process holds in memory, and
histories, which no action reads and which let an invariant speak of the past. Operators
commented "Mutant" are small bugs a reader can put in a definition's place to see which
property notices; nothing refers to them. The MC modules put several modules side by side:
a variable `part` says which of them a behaviour is of, and the others stay as they began.
Where theorems are about such a composition (`MCPolling`, `MCServices`, `MCSources`), the constants of its
parts are constants of its own, to which the .cfg gives their values.

### PollCycle, PostingLedger

`PollCycle` is `orchestrator.run_once`, run by any number of runners at once: nothing in
the code stops a command-line run from overlapping a daemon tier, or a preview from
overlapping both.

| State | In the code |
|---|---|
| `seenJobs` | the row of a job id in `seen_jobs`: none, notified, suppressed, kept (a triage status without ttl), expired (past its ttl, not pruned yet) |
| `sourceState` | the ETag stored for a board; the ETag is the content it stands for, so a fetch gets a 304 exactly when the board lists the same postings |
| `evaluated` | the generation stamp of a rejected posting in `evaluated_postings` |
| `settings` | the active generation, the postings its filters pass, whether a sink is configured |
| `pc`, `snap`, `prior`, `todo`, `reply`, `matched`, `scored`, `sending` | the locals of one `run_once`: its settings snapshot, the ETags it sends, boards under way, answers, matches before and after scoring, the claim whose alert is being sent |
| `listing` | what the vendor lists |
| `delivered`, `rejected`, `lost` | histories: alerts in the life of a row, postings a live screening rejected, why an undecided posting is in no table |

The actions follow the function: `Start` (snapshot, stored ETags of the due boards),
`Receive` / `NotModified` / `FetchFails`, `Absorb` (screening, evaluation memory, ETag: one
step, because the event loop runs it without an await) or `ScreenFails`, `CapForScoring`
(which drops the ETags of the deferred boards), `ScoreLow` / `ScorePass`, `EndScoring`
(where a dry run stops), `ClaimForNotify`, `Deliver` / `NothingToSend` / `ReleaseClaim`,
`EndCycle`, and `Abort` anywhere. Beside them run the vendors (`BoardChanges`), the user
(`ChangeSettings`, `SetStatus`), time (`Expire`) and the daily `Prune`.

`PostingLedger` is what the pipeline promises about one posting: open, claimed, alerted,
muted, lapsed. `Standing` in `PollCycle` is the refinement mapping.

### VendorPacer

The pacer of one vendor and the boards that wait for it, cycle after cycle: `Places` boards
hold a place, a board that gets one reserves the next slot in the same step, and an answer
opens the gap (a 429) or closes it. Times are ticks from now, so the clock runs for ever.
`NextCycle` and `Cancel` end a cycle; a dry run gets a pacer of its own and is not here.
Only reserved slots are spaced: the further pages of a walk and the requests of a board
that holds its slot are not.

### BoardPolling

What `handler._run` does around a cycle of the ats tier: `Start` reads health and schedule
(`not_due`, suppressed and paused boards, the generation comparison that makes every board
due), `Fetch` gives a board one of eight outcomes, `EndFetching` reads `tracked_names`,
`BookHealth` is `update_poll_health`, `RecordPolls` and `SetGeneration` are the two
transactions of the schedule, `Recover` is the daily re-probe, and `Tick` is the scheduler's
trigger. Times are relative and in ticks: a row says how many ticks its board still waits.
`DEAD_AFTER_CYCLES`, the pause of a 429 and the one-hour cap are constants.

### BoardCards

One card (a `seen_jobs` row) and everybody who writes it: the cycle (`Claim`, `Sent`,
`Release`), the user (`Move`, then `ClearBadge` in a second transaction; `Dismiss`;
`AddManual`), the closed-posting sweep (`SweepList`, `Probe`, `SweepGathered`,
`SweepWrite`), the digest (`DigestCompose`, `DigestSend`, `DigestMark`) and the Gmail
sweeps (`MailList`, `MailSearch`, `MailSkip`, `MailRead`, `MailEnd`). A sweep keeps the cards
as it listed them and decides on that copy, as the code does; a store call is one step.

Mail is numbered by arrival and so is time: the watermark is the number of the last message
delivered before the sweep that wrote it began. `old` and `young` are what by now lies
before the lookback window and the first-run window (`Age` moves them). A sweep begins at
the watermark, or without one at the first-run window, but at nothing older than the lookback
window (`Since`), less the overlap; it searches by the day of delivery and skips what is
dated earlier than that (`TooOld`), where `lag` is how long before its delivery a message
is dated. `lapsed` is a history: the messages a sweep began after although the watermark
had not come to them.

### OpsAlerts

Conditions evaluated by two kinds of process. A tier of the poller records its cycle
(`Record`) and evaluates `llm_degraded` (`EvaluateCycle`); the web process' watchdog
evaluates `pipeline_stopped` and one `tier_stopped` per tier (`WatchdogPass`). `_gate` is
two statements and so two steps, `GateRead` and `GateWrite`; the sends come after all
conditions are gated (`Send`), and a refused alert re-arms its row. `Crash` loses what was
gated and not sent. `age` is the time since a tier's last recorded cycle, and stops at the
oldest that a threshold tells apart (`Oldest`); `Never` is that of a tier without a row.
`recent` holds the last `K` scored cycles.

### Fetching

One source read by one of six protocols, cycle after cycle. `source` is the connector's
kind and what it asks for, `listing` the postings it lists, newest first, `store` what is
kept between fetches (ETag, watermark, calls and ids of today), `fetch` the locals of the
fetch under way, `carried` the postings a cycle took from it, `fate` a history: what became
of a posting, or by which known way it was lost. `Publish` and `TakeDown` change the list
under the walk of `FetchPage`; `ReadSitemap` and `ReadJobs` are the two stages of a sitemap
connector, `Query` and `Resolve` those of the metered one, whose ids are payload and outlive
a dropped cache hint. `CapForScoring` and `Decide` stand for the rest of the cycle.

### Discovery

The daily run over `discovered_slugs`: `Start`, the phases of the one budget (staged
candidates, of boards and of slugs, the crawl, revalidation, the portfolios), each probe a
step (`ProbeClaimed`, `ProbeOthers`, `ProbeVariant`, `Fingerprint`, `Revalidate`), and the
ends of phases (`Cut` and `DrainCut` when the budget is gone). A verdict on a staged
candidate takes two statements: a key's row is deleted and comes back under the family that
answered, or is resolved and then recorded as a miss; a company's verdict is written and then
its row deleted. `run.owes` is the second of them, `Settle` makes it, and a crash or another
writer may come in between. Beside it run a slow cycle
that sights a board (`Sight`, then `Stage` in a second statement), the starter pack
(`Reconcile`, then `Seed`), the user's switch, and boards that open and close. A key is a
family and a slug; `order` is the order of validation, which is what revalidation reads.
`live` and `steady` are what a probe would answer and what answered during the whole run;
`Without` takes one key out of a sequence and leaves the rest in order.

### BoardSweep, Fingerprint, Portfolio

`BoardSweep` is the sweep of the seed companies: a run lists the table once (`StartRun`,
`StartSweep`), and judges every company by that list (`Look`, `Judge`), while a cycle stages
a sighted board in two steps and the daemon's run may overlap one by hand. `Fingerprint` is
which board a set of careers addresses leads to, and the same for a pasted address, which is
read if it has a path, while a bare host is a company's domain and its pages are located
(`ProbeTarget`); `Portfolio` which companies a crawl, a dump and an investor's list name, and by which slugs.

### PollSet, Companies

`PollSet` is `build_connectors`: which boards of the settings and of two tables a tier polls,
under which name, and which postings the aggregators leave to them. `Companies` is the page
over it: the lists of rows a form edits by digest, adding and removing a board, the offer of
the starter pack.

### SettingsStore, SettingsRegister

Threads of three processes over one SQLite file: requests of the web process, commands, and
the poller's `config_watch`. A process has one connection and one lock, so reading and
writing exclude each other inside a process (`LockFree`) and only the write transactions,
and the commit under a foreign reader, between processes (`MayWrite`, `MayCommit`).

| State | In the code |
|---|---|
| `versions`, `gen` | `settings_versions` (document, whether an import wrote it) and `config_generation` |
| `broken` | versions the installed release cannot migrate or validate; the newest other one is in effect |
| `thread` | the locals of a request: its snapshot, its patch, the base version and the draft of the save under way |
| `cache`, `engine` | `ConfigService._cached` of each process; the generation of the object in the web `GenerationCache` |
| `applied`, `running` | what `config_watch` booked, and the trigger the job really has |
| `committed` | history: the snapshot that each generation stands for |

A request takes a snapshot in two steps, the generation (`Begin`) and the rest
(`ReadVersion`), and then does one of the things the program can do with it: a section
form, a row form or an appended source (`Submit`, `UpdateRead`, the retry in
`RefuseStale`), `Restore`, the wizard's `Review`, `SetUp`, an import (`ImportRead`,
`ImportCompare`, or `ForceImport`), or a page that needs an engine (`Look`, `Put`). Saves
share `BeginWrite`, `Commit` and `Rollback`. A document is one setting and one list, which
is what a lost update needs: a patch of one must not touch the other, and two patches of the
list must not undo each other. `Upgrade` restarts everything under a release that rejects
any set of the stored versions.

`SettingsRegister` is what the store promises its users: one document, read whole and saved
in one step. A client looks at the document in effect, asks for something made of what it saw
(a title, a list with one entry more or less, entries to append, a whole document), and that
is applied once to the document in effect when it is saved, or not at all. `Register` in
`SettingsStore` is the refinement mapping: a thread looks (`Seen`) from the end of its read
until it submits, and its order (`Wanted`) is its patch, or for a save that names a whole
document its draft. That a form's patch survives the retry of `update_settings`, and is not
the draft of the attempt before, is what the mapping shows.

### SetupWizard, DraftRuns, AuditTrail

`SetupWizard`: a request arrives with the snapshot the middleware took (`Arrive`) and is
handled later (`Save...`, `ReadSkipped` / `WriteSkipped`, `ReadTopic` / `PutTopic`,
`BeginDraft` / `EndDraft`), so pages overlap as they do over HTTP. A form makes two writes,
and each is a step: of the settings or a document (`SaveLlm`, `SaveResume`, ...), then of the
key or of the wizard's store (`StoreKey`, `DropDraft`, `SkipCompanies`, `DropTopic`). The
forms run on the event loop without an await between the two, so no other form falls there
(`Saving`); threads, other processes (`Elsewhere`: the settings page, which replaces the
résumé too, and an import) and a `Restart` do. The answers of the questionnaire, which the
résumé's form writes as well, are only text of the prompt. Which step is next and
which warnings are shown are derived from the settings, as in `steps.py` and `readiness.py`.

`DraftRuns`: the record of a run in the store, its task, and the posts to its page. `GrowOld`
is the time after which a page takes a running draft for dead; `Start` then cancels the task
and begins another. A document is a number, and `drafted` remembers which one a run's model
call was made on.

`AuditTrail`: one posting, its row of `seen_jobs` and its row of `rejected_postings`, two
poll cycles that screen, suppress, claim, deliver or release it, and a rescue in its steps:
read, ask the model, look again, drop, claim, mark. A row first expires (`Expire`: no read
sees it, `Live`, but an INSERT OR IGNORE hits it) and is deleted later (`Prune`).

### The pure functions

`Screening` (hard filters and what normalization makes of places, levels and pay),
`ModelCalls` (three providers' answers, retries, which feature has a provider), `Resume`
(ids of a draft, its review, the bullets of a rewriting, the fit to a page), `Backups`
(archive, undo, export and import of an instance; an import may be cut anywhere, also in the
middle of a pack, whose directory then has some of its files), `Tuning` and `Funnel` (the tables of the
audit page, the advice on thresholds and titles, the bands of the pipeline chart). Texts are
sequences or sets of words, places and levels members of small sets. `MCLookups` asks them:
an initial state is a question, and the one step answers it.

## 4. The runs

| Run | Instance | What it shows |
|---|---|---|
| `PollOverlap` | two runners, one board, one posting, two settings generations, with and without sinks, one failure of any kind | `FanoutIsExclusive`: a claim in flight belongs to one cycle. `AlertedOnce`: no posting is alerted twice while its row lives. `HintsHideNothing`: a posting behind a stored ETag has a row, was rejected, is being carried, or is one of three known losses. `KeepsLedger`: the cycles implement `PostingLedger` |
| `PollLive` | one runner, two boards, a posting on each, a scoring cap of one, fair scheduling | `EveryMatchIsDecided`: with settings at rest every wanted posting gets a row in the end, also one the cap defers |
| `PollReleased` | one runner, one board, two postings, one of them unreadable | `ReleasedIsRetried` is violated: see section 7 |
| `Polling` | three parts. Tier: the daemon, one board, eight outcomes, one settings change, three failures, cycles that outlast a tick. Pacer: four boards over two places, a deadline of four ticks, gaps of 1 to 4, a cancelled cycle. Ops: two tiers of one and two ticks, a cooldown of two, two faults, one refused send or crash | `StampedMeansPolled`: after the stamp no healthy board rests on an interval earned under older settings. `AttemptedInTime`: the wait of a board is bounded by its interval and what the failures cost. `SuppressionIsEarned`, `BoardsArePolledAgain`. `SlotsAreSpaced`: slots keep their distance, whatever the gap does, and meet the deadline. `PacedCyclesEnd`. `AlertsAreHonest`: no repeat within the cooldown of a condition that did not clear, and without failures a row is active exactly while the operator believes the condition holds. `FaultsAreTold`: a fault that stays is told in the end, by the right condition |
| `Board` | four parts. Closures: one card, a posting that is taken down or put back four times in all, three failed probes, writes, sends or crashes, no mail. Answered: two sweeps at a time, hourly and by hand, two messages, an overlap of one, truncation at one message, one failure, the user moves and dismisses. Windows: one sweep at a time, mail dated up to two before its delivery, windows that move past one message, one failure. Released: two sweeps, one message, one released claim, one failure | `TwoStrikes`: one bad probe flags nothing. `AnnouncedOnce`: the marker on a flagged card belongs to this closure, and none is announced twice but for a crash or a failed write. `GoneIsAnnounced`. `MailIsRead`: the watermark passes only messages that were read, that a truncated search left out, that came to lie before the windows, or that are dated more than the overlap before their delivery. `DismissalsRemembered`: a sweep does not suggest a message dismissed before it listed the card |
| `OpsCleared` | two tiers of one interval, one refused send | `ClearedIsTold` is violated: see section 7 |
| `Settings` | two parts. Edits: a tab and a command, every way to save, two titles, two list entries, one file, three versions, one upgrade that rejects any of them. Reads: two tabs of one process and the poller, pages and two kinds of save, one failed commit or reschedule | `KeepsRegister`: the store implements `SettingsRegister`, so a form changes what it asks for in the settings it replaces and nothing else, whoever saved in between. `ImportsUndoNothing`: an import that is not forced undoes nothing saved since the last one, also while it ran. `SnapshotsAreCommitted`: a cached snapshot is what was committed under its generation. `EnginesMoveForward`: an object of older settings never replaces one of newer. `TriggersFollow`: the poller's job ends on the trigger in effect |
| `SettingsRows` | two tabs with row forms over two entries | `RowsKeepTheRest` is violated: see section 7 |
| `Discovery` | two families, one slug, one company known to the crawl and to a portfolio; one key sighted, one in the starter pack, one linked from a careers page; a budget of five with one kept back, quarantine at two, one board that opens or closes, one crash, throttled probe or switch | `VerdictsAreEarned`: no slug is hidden for 90 days while a board under it answers. `NothingIsDropped`: a staged company leaves the line only after its verdict is written, and a key only for the hands of the run, which write its verdict unless they crash between the two statements. `StaleIsRevalidated` and `CandidatesAreJudged`: the five phases starve neither |
| `Sources` | two parts. Sweep: two seeds, a sighted host, quarantine at two, one changed answer, two throttled, broken or killed runs. Fetch: every kind of connector, three postings, three calls a day, two ids remembered, three changes of the list, one failure | `SeedsGetTheirTurn`: a company is given up only after its failures, and every seed is swept. `FetchesAccount`: no ETag, watermark or list of ids hides a posting without one of the known reasons, a walk returns what was listed all the while, and the metered calls are counted. `ListedIsDecided`: a posting within reach is decided in the end |
| `FetchDeferred` | the metered connector alone | `DeferredComesBack` is violated: see section 7 |
| `Services` | four parts. Wizard: two requests at once, three in all, two résumés, one failed answer, restart, or change made elsewhere. Draft: two requests, two runs, two edits, one failure or restart. Audit: two cycles, a rescue, two mishaps. Lookups: every question of `MCLookups` | `RunsHold`: one live draft, no edit lost unasked, the page never stuck, a preview ends. `WizardHolds`: done means ready, a draft of a résumé that was replaced is there only for one of four reasons, saves explain themselves. `RescuesTake`: a rescue makes a card unless an expired row is in its way or a cycle overtook it after its second look, and judgements last. Lookups: `BoardsAreFounded`, `ListedIsPolled`, `FiltersHold`, `ResumeHolds`, `AnswersHold`, `BackupsHold`, `PagesAgree` |

Several of these are conjunctions of named parts, with the modules' type invariants among
them; the comment over each names the parts, and each part has a mutant of its own in its
module. What the lookups ask:

- `BoardsAreFounded`: a board is a company's own only when every address that can be read
  names its family; a pasted address with a path gets the answer the sweep would give, and a
  bare host no board its pages do not lead to; merging adds every match once; an import
  proposes only boards that answered; a list that a later page refuses brings in the
  companies up to there, and one that breaks on any page is an error and never a shorter
  list; a company is crawled once.
- `ListedIsPolled`: every board of any table is polled, once, as the settings write it; the
  page counts what is polled; an added board is polled and nothing else; an edit from a page
  that is out of date hits the row it shows or none.
- `FiltersHold`: widening a filter rejects nothing that passed; a rejection that is remembered
  is still one a day later; missing data passes; a foreign posting does not; a row without
  tags shows the workplace the tags would give.
- `ResumeHolds`: a saved draft can be used (unique ids, no empty entry); a rewriting has only
  bullets of the résumé, each under its job; a page that does not fit loses the tail of its
  lists and no more than it must.
- `AnswersHold`: providers agree; gaps are clean; a posting is unscored only after its tries;
  the warnings explain what is not built.
- `BackupsHold`: a rejected archive leaves nothing behind; a restored backup brings back what
  it holds and keeps the rest; one that was cut short is completed by doing it again, but for
  the one pack that was being copied, which stays as it was left.
- `PagesAgree`: following the advice ends it; pairs are of one job; a posting is shown once;
  the bands of the chart add up to the matches.

## 5. Bounds and fairness

Every bound is a constant of its module and appears in guards of environment actions only,
except `MaxVersions`, which makes a save fail, as on a full disk.

- `MaxMishaps` bounds failures, crashes and expiries together. A single mishap placed
  anywhere already separates the orders of write and failure the code chooses between; the
  tier takes three, one more than the threshold of refusals (two instead of the code's
  three), so that suppression, a backoff and a lost write occur in one behaviour, and the
  closures three, and the sweep two, one for each of two writers.
- `MaxGen`, `MaxFlips`, `MaxChanges`, `MaxFaults`, `Inbox` and `MaxReleases` bound settings
  changes, changes of a board, faults, mail and failed fan-outs. Two generations suffice for a stamp
  to be older than the settings; four flips close a posting, reopen it, and do both again,
  which is what the announced marker must survive; two faults kill and revive.
- Two runners, one board and one posting are what a double claim needs; the scoring cap
  needs two postings, on two boards so that the deferred board differs from the other one.
  A claim in flight never expires (`Expire`): a ttl is 60 days, a fan-out seconds.
- `MaxLag` (of `BoardPolling`) and `Hour` are ticks: a cycle may end in the tick after its own, and an interval
  doubles twice and is then cut to the cap (1, 2, 4, 6).
- `Boards` 4 over `Places` 2: two boards wait behind two that hold a place, and a deadline of
  four ticks turns the last away once the gap is at its widest.
- `MaxLag` (of `BoardCards`) 2 over an `Overlap` of 1 has mail that the overlap reaches and
  mail it does not; `MaxAge` 1 leaves one of the two messages before a window and one after.
- A digest, over in seconds, overlaps one of the daily sweeps at most (`laps`).
- `Cooldown` 2 lets a condition clear and fire again inside and outside it. `Never` is any
  age that is above every threshold: 8, and 5 where both tiers have the short interval.
- `MaxVersions` 3 is a version to start from, the save that comes in between and the save that
  notices; a release that would come after the last of them is left out. `Kinds` names what a
  run's threads do: the edits leave out the readers' pages and the poller, the reads the saves
  that differ only in what they write.
- Discovery's five validations with one kept back are fewer than its candidates, companies
  and stale boards together, so that every phase is cut off somewhere.
- Three postings and pages of one make a walk of three pages, the smallest that a posting
  published ahead of it, and one taken down behind it, can shift in different ways; two
  overlapping queries share the budget of three.
- Three requests to the wizard are a page, the post it leads to and one from another tab;
  `Edited` names the one field of the settings that is changed behind its back, beside the
  secrets, documents and imports; two résumés and two edits make one stale. Two runs of a draft are the one taken for dead and
  the one that replaces it.
- The lookups ask with sequences of up to three elements over sets that hold each case the
  code distinguishes. Their behaviours end with the answer, so the run does not check for
  deadlock.

Fairness is what the program's loops give: the scheduler fires every job again and again, one
instance at a time, a started job runs to its end, and network calls time out. Nothing is
assumed of the user, of the commands, of failures or of the vendors.

- `PollCycle`: strong fairness of `PollBoard(b)` (a cycle that includes the board starts
  again and again, because the cadence makes every board due within an hour; strong, as a
  busy runner disables it), weak fairness of a cycle's own `Work` and of `Prune`. A fetch may
  fail, but only `MaxMishaps` times. `EveryMatchIsDecided` needs the fairness of `Prune`: a
  row that outlived its ttl counts as new to `diff_new` and takes a place under the scoring
  cap, but its claim fails until the prune job deletes it.
- `VendorPacer`: weak fairness of `Tick`, of the boards' fetches taken together (each has a
  timeout of its own, so that some board moves on while any can) and of `NextCycle`.
- `BoardPolling`: weak fairness of `Tick`, of the daemon's cycle and of `Recover`.
- `OpsAlerts`: weak fairness of time and of each evaluator's turn (`Turn`: the watchdog's pass,
  a live tier's recording, and an evaluation under way).
- `BoardCards`: weak fairness of the sweep, the digest and the Gmail steps.
- `SettingsStore`: weak fairness of `config_watch` alone; nothing obliges a request to
  finish, as a save that hangs changes no settings.
- `Discovery`: weak fairness of the run's steps; the drain of board candidates may take all
  that is left of every budget.
- `BoardSweep`: weak fairness of the daemon's steps and of the end of its sweep.
- `Fetching`: weak fairness of the cycle's steps and of midnight.
- `SetupWizard`, `DraftRuns`: weak fairness of the preview's timeout, and of time passing.

## 6. What is proved

Each theorem holds for any sets of runners, boards, postings, cards, threads and tiers and
for any bounds; what is assumed of the constants is the named assumption of each module,
which TLC evaluates in the runs. An invariant is seldom inductive as it stands; what was
added to it is the point of each proof.

`PollCycleProofs` (from `PollAssumption`: the constants have their types and `None` is none
of the values):

- `TypeCorrect`: the types, and that a stored or received listing holds postings of its own
  board;
- `ExclusiveFanout` and `SingleAlert`: `FanoutIsExclusive` and `AlertedOnce`. A second claim
  of a posting is harmless only because the row of a claim in flight is there, and delivering
  is harmless only because nothing was delivered while the claim was in flight; `ClaimInv` is
  the conjunction of the two and of the types, proved action by action in `ClaimStep`;
- `LedgerRefined`: every step maps to a step of `PostingLedger` or a stutter. `ClaimInv`
  supplies what the mapping needs: a delivery finds its posting claimed and never alerted,
  a release withdraws a claim and no alert;
- `HintsSound`: `HintsHideNothing`. The strengthening, `HintSupport`, says what a cycle's
  answer, matches and scored postings may contain in each phase, so that a hint stored by
  `Absorb` is covered by what the same step carries on, and that `EndScoring`, `EndCycle`
  and the cap leave nothing undecided behind; `HintStep` then goes through the actions;
- `PreviewIsPure`: `DryRunLeavesNoTrace`, a preview writes nothing, from `DryInv` (a dry
  runner never reaches the notify phase and has nothing in flight).

`PollerProofs` is about the three parts of `MCPolling`, and about the poller they make.

- The pacer (`PacerAssumption`): `PacerTypeCorrect`; `Spacious`, the slots keep their
  distance, from the order in which sleeping boards wait and the fact that the next slot never
  comes before the last turn is over; `Punctual`, whoever has a slot gets it before the
  deadline; `BoundedBurst`, fewer boards than there are places fetch at the old pace after a
  throttle.
- The tier: `TierTypeCorrect`; `SuppressedForCause`, a suppressed board refused `Threshold`
  times since its last booked answer, from `HealthInv` (the streak in a row never exceeds the
  refusals since, and what a cycle carries has not been booked); `StampIsHonest`,
  `StampedMeansPolled`, from `StampInv` and the lemma `Recorded` (what `RecordPolls` leaves
  behind in each board's row); `HourAtMost`, `AttemptedInTime`, from `AttemptInv`. Its part
  `OnTime` adds up where the wait of a board can be: in its row, which then comes due within
  its slack; in the cycle under way, because the board was not due when it began; before the
  next tick; or in the turns of a cycle that includes it. These three assume one runner per
  tier (`Solo`), as the daemon's is: two that overlap can reset the count of refusals without
  clearing the streak, and book each other's polls. `HourAtMost` also assumes that a daemon
  is among the runners: a command fires at nobody's interval.
- The alerts (`OpsAssumption`): `AlertsTypeCorrect`; `QuietWatchdog`, `WatchdogIsQuiet`: the
  operator heard of a condition less than a cooldown ago only where its row is active and was
  marked no earlier; an alert on its way is of a condition nobody heard of lately; and a pass
  treats each condition once, so no second alert is decided on while the first is under way.
  `RecoveriesAreOwed`, `RecoveryIsOwed`, from `Owed`: as long as nothing failed, a row of the
  watchdog and what the operator believes differ by what is on its way, and by nothing else.
- The poller (`PollerAssumption`) implements each part: `PollerKeepsSpacing`
  (`SlotsAreSpaced`), `PollerIsHonest` (`AlertsAreHonest`).

`BoardCardsProofs`: `CardsTypeCorrect`; `WatermarkIsSafe`, `MailIsRead`, from `MailInv` (below
the place a running sweep began from, and below the message it reads next, every message is
read or of one of the three kinds no sweep has to read, and it will stamp no later than the
mail it listed; what it skips for its date is either dated too early or below the place it
began from); `NeverOneStrike`, `TwoStrikes`, from `StrikeInv` (the misses a sweep
carries are those in the row, a row never shows more than the probes that found this closure
dead, and a card a sweep listed has no ttl that could take it away); `OneAnnouncement`,
`AnnouncedOnce`, from `AnnounceInv`: a card in a digest that is being sent is flagged until the
one sweep that may overlap the digest has judged it, and has no strike against it afterwards,
so that the marker never lands on a later closure; and every announcement but the last was
paid for with a crash or a failed write. The last two
assume `MaxReleases = 0`: a card released and claimed again under a sweep can be flagged by
the sweep's old listing with one miss, and the marker of the old closure goes with the row.

`DraftRunsProofs` (from `DraftAssumption`): `DraftTypeCorrect`; `OneDraft`, at most one task,
and it is the latest; `NoEditLost`, `EditsSurvive`, from `EditInv`: the stamp a finished draft
carries is of the document its call was made on, and its run is over for good.

`SettingsStoreProofs` (from `SettingsAssumption`): `StoreTypeCorrect`; `SnapshotsAreWhole`,
`SnapshotsAreCommitted`, from `StoreInv`: the newest generation stands for the rows in
effect; a process reads and writes under one lock; and a snapshot in the making was begun
under the generation that is still the newest; `ImportsAreHarmless`, `ImportsUndoNothing`, from
`EditInv`: a save that names a base version was derived from that row if the row is still the
newest, and while it writes nobody else does, so it is; `EnginesOnlyAdvance`,
`EnginesMoveForward`, step by step. `StoreIsRegister`, `KeepsRegister`, is the refinement of
`SettingsRegister`, action by action, from both invariants: a read that ends shows the document
in effect because the lock kept every save of its own process and the generation shows those
of the others (`ReadFinds`); a form's draft is its patch applied to the base it names, and the
commit goes through only while that base is the newest row (`CommitSaves`), so that what is
saved is the patch applied to the document it replaces, also after a refusal and a retry.

`DiscoveryProofs` (from `DiscoveryAssumption`): `VerdictsEarned`, `VerdictsAreEarned`, from
`EarnedInv`: a verdict rests on probes made earlier in the run, between which boards open and
close and other writers move rows; while a candidate's later methods are tried, no board its
earlier ones asked has answered since the run began; and the miss that a second statement is
about to write is earned already (`Debt`). `CandidatesKeepTheirPlace`,
`NothingIsDropped`, from `StagedInv`: a staged row is a candidate and never the pack's, though
`Seed` writes rows of the pack and a sighting is staged in two statements; `HandStep` is about
the key whose row is deleted and not yet back, `SpokenStep` about the company whose verdict is
written and whose row is not yet deleted; with the lemmas on
`Without` and on the order of a sequence that loses one key or gets one at its end.

`ServicesProofs` (from `ServicesAssumption`) is about the composition of `MCServices`.
`RescuesAreTaken`, `RescuesTake`, from `AuditInv`: a rescue about to claim that no cycle has
overtaken has no row before it, a card, or a row that has expired, so that whichever of the
cycle and the rescue claims, there is a card, or the expired row.
`TheWizardHolds`, `WizardHolds`, from `WizardInv` (what a request holds is what its kind
reads, and where the review's first write is made there is a profile) and from the fact, proved for any settings, that the steps and the readiness warnings,
which the code derives in two modules, agree. What `RunsHold` says of drafts is proved in
`DraftRunsProofs`.

It also proves four of the questions of `MCLookups`, each first for inputs of any size and then
for the ones the run asks.

- `FiltersAreHeld`, `FiltersHold`. `WideningLosesNothing`, `RejectionOutlastsTheDay`,
  `SilenceRejectsNothing`, `AbroadIsRejected` and `BucketsAreOne` are about any posting, any
  settings and any day, over any words (`Postings`, `Settings`). They go gate by gate
  (`AllowedByAll`: a posting passes when no gate of the pipeline rejects it), and each shows
  that a gate's verdict on the posting as it is normalized under one setting bounds its verdict
  under another, though the technologies and the cities that normalization finds depend on the
  settings too.
- `AnswersAreHeld`, `AnswersHold`. `ProvidersSayOneThing` is about any object,
  `GapsStayClean` about any call that brings back lists of words and any most,
  `UnscoredStaysEarned` about any calls, `WarningsStayTrue` about any settings of the model.
  `AnswersAssumption` says that what is absent is none of the providers, texts and errors.
  `GapsStayClean` rests on `CleanKeeps`, what the recursive function `Clean` leaves of a list
  of any length.
- `PollingIsHeld`, `ListedIsPolled`, is about an install whose three tables are of any length,
  with any words in them (`InstallsOf`). `EachIsPolledOnce`, `SettingsComeFirst` and
  `TheCountIsPolled` are about `BuildConnectors`, `AddingPolls` and `TheOfferIsKept` about the
  page, `EditsHitTheSame` about an edit of any list by any form, from a page that shows any
  other. They rest on what the model makes of a loop that skips and appends: `Picked` keeps
  the elements at some places, `PickedInOrder` says that they are these, each once and in
  their order, so that the first entry of a name is the only one (`OnceByName`). The tiers
  are apart because a name begins with its family. `BoardsAssumption` says that what is
  absent is no board.
- `BackupsAreHeld`, `BackupsHold`. `RejectedIsUndone` is about any archive and any tree it is
  extracted into: after each member (`MembersAreUndoable`) the files are those that were there
  and some of those noted, and the directories those that were there and those made, so that
  taking back what was noted and made gives the tree again. `RestoredIsBack` is about
  any instance whose documents are valid and whose export fits in an archive (`Fits`),
  restored over any other, wherever the first try is cut short, if at all (but for the pack that
was being copied). It rests on
  `ExtractedAsPacked`: an archive none of whose paths is on the way to another (`Leaves`) is
  extracted as it is; on `ExportsAreLeaves`, that the paths of an export are such; and on
  `ExportIsImported`, that an import finds every document and pack where an export puts it.
  `LimitsAssumption` says that the limits of an archive leave room for what the run asks.

The library's induction theorems take an operator, which the provers cannot instantiate. Where
a proof needs induction over the naturals (`CleanKeeps`, `PicksAll`, `WritingIsUndoable`), it takes the least
counterexample, which `LeastNumber` supplies from the well-foundedness of the order.

`SourcesProofs` (from `SourcesAssumption`) is about the composition of `MCSources`.
`SourcesAccount`, `FetchesAccount`, has one induction for its three claims, `FetchInv`, which
joins to the types a part for each. `BooksInv`: the calls made in a day are those the stored
row counts, those of the fetch under way and those no row will ever count; the step that ends
a fetch moves its calls from one to another, and midnight forgets them. `HiddenInv`: what the
stored row tells the next fetch to leave out, whether it is an ETag, a set of seen ids or a
watermark, is decided, or carried by the cycle, or in `fate` with the reason why not; so a
fetch that stores a row has returned what the row hides, or lost it in a way that is named. `WalkInv`: what a walk owes is in
what it returned or beyond the offset it reads next, where a posting put in front only pushes
it further, while one taken down would pull the list back, so that the walk owes nothing from
there on; with the lemmas on parts of a sequence, and on one that gains a posting in
front or loses one. `QuarantineEarned`, `QuarantineIsEarned`, from `SweepInv`: a row counts no
more failures than were written, and no verdict of a look, which may be of an old listing, is
to quarantine; only the count does that.

Only model-checked:

- The liveness properties, since liveness under fairness and ENABLED are out of the prover's
  reach: `EveryMatchIsDecided`, `BoardsArePolledAgain`, `PacedCyclesEnd`, `FaultsAreTold`,
  `GoneIsAnnounced`, `TriggersFollow`, `StaleIsRevalidated`, `CandidatesAreJudged`,
  `ListedIsDecided`, that every seed is swept, that a preview ends and no draft is stuck.
- The other questions of `MCLookups`: `BoardsAreFounded`, `ResumeHolds`, `PagesAgree`.
  They are about folds over sequences, strings of words that are
  taken apart, and operators of the community modules that select, sort and filter; the provers
  know none of these, and a fold's value on every input is out of their reach.
- `DismissalsRemembered`. What a card remembers of dismissed mail is its last twenty entries,
  and the code appends without looking for an entry that is there. So the property depends on
  how many entries an overlap of the searches and two sweeps at once can add, and a theorem
  that assumed no entry is ever forgotten would leave out the case it is about.
- That the rows and runs of `BoardSweep` are well typed. A verdict and the queue of a sweep
  come out of folds and of a selection, which are recursive; `SweepInv` says of them only
  what the quarantine needs.

## 7. Where the code and its documentation disagree

Four disagreements have a run of their own, whose counterexample is the explanation.

- `PollReleased`. "All sinks failed; release the claim so a later cycle retries"
  (`src/orchestrator.py`). The board's ETag was stored when it was screened, and the
  release, unlike the scoring cap, does not drop it; the next fetches are 304s, and the
  alert is retried only when the board changes.
- `FetchDeferred`. "Deferred pairs are dropped from this cycle: the seen-jobs store records
  nothing for them, and run_once drops their boards' cache hints, so they re-match next
  cycle" (`src/orchestrator.py`). The ids adzuna has seen are part of its stored payload, not
  of the hint, and stay; no later fetch returns a deferred posting.
- `OpsCleared`. "send a one-time recovery notice when it clears" (`src/ops_alerts.py`). A
  repeat after the cooldown that every sink refuses marks the row recovered, although the
  operator holds the first alert; when the condition then clears, nobody is told.
- `SettingsRows`. "If another writer saves in between, the update re-reads and runs `mutate`
  once more — so `mutate` must derive everything from the doc it is given"
  (`src/settings/service.py`). The row forms compute the whole new list from the request's
  snapshot and their `mutate` writes that list into whatever document it is given
  (`src/web/settings/rows.py`, `companies.py`), so an entry another tab added since the
  request began is gone. The next base version check does not help: the loss needs no
  conflict, only a save between the snapshot and the update.

The modules also state properties the code does not keep and that no run checks, marked
"Not kept by the code", because a reader of the code would assume them.

Polling and boards:

- `SettingsChangeRejudges` (`PollCycle`): new settings make every board due, but not its
  ETag void, so a 304 hides the postings the old filters rejected.
- `TrippedByDeadCycles` (`BoardPolling`): 403s count on the streak that 404s trip, so
  two 403s and one 404 suppress a board. `EditMakesDue`: a board a 429 paused during the
  first cycle after an edit, and whose schedule write is lost, sleeps on its old interval. An
  answer that was not screened, or the daily re-probe, clears a health row and leaves the
  interval of older settings: that is the exception `StampedMeansPolled` makes. A command-line
  cycle that began under older settings stamps its generation over the daemon's newer one.
- `TurnedAwayComesNext` (`VendorPacer`): a board the deadline turns away is "picked up next
  cycle" only if the boards before it in the connectors' order leave it time.
- `BudgetIsHard` (`Fetching`): adzuna's calls of a preview, of a fetch that raised or died
  are not booked. `WatermarkLosesNothing`: a sitemap run cut off at its cap, or a job whose
  request fails, is behind the watermark, and entries without a date are never fetched.
  A failed resolution of adzuna's redirect lets a posting through that a board polled
  directly has too.
- `LeftOutIsPolled` (`BoardSweep`), `ActiveArePolled` (`PollSet`): a Workable board the sweep
  finds is left out by the aggregators and polled by nobody. `ThrottledIsNoFailure`: a
  throttled fingerprint counts as a failure. `LiveBoardsStay`: a second run judges by an old
  list and demotes a board found meanwhile. `DueIsSweptAgain`: a company listed as ok that
  keeps being missed is not stamped and takes the sweeps of those after it.
- `FailingIsSettled` (`Discovery`): one failure takes a slug out of polling and out of
  revalidation, so the count to quarantine is seldom finished. `SightingsDemoteNothing`: a
  sighting looks and writes in two statements, and a verdict in between is overwritten.
  `CrashesDropNothing`: "the row is left staged for the next run (the chain is idempotent)",
  but a key that answers in another family is deleted before it is written, and a crash
  between the two loses it.
- `LoginLinksAreAbsorbed` (`Fingerprint`): the login section of a Taleo site makes its
  company unsupported. `BareHostsAreRead`: a pasted host that is itself a board's, without
  a path, is not read as one.

The user's board and pages:

- `PursuedPersists` (`BoardCards`): "Move a match to Interested/Applied/Interviewing — that
  drops the TTL so it persists" (`TROUBLESHOOTING.md`), but if every sink refuses the alert
  of a card, the release deletes the row, whatever the user did with the card meanwhile.
  `NeverSuggestedAgain`, `ReceiptsMoveForward`: a Gmail sweep works on the cards it listed,
  so a badge dismissed, or a card moved, while it runs may get the badge again.
  `OutagesAreCaughtUp`: the sweep after an outage longer than `lookback_max_days` begins at
  that window and stamps its own start, so the mail in between is never searched.
- `RescueWritesFresh` (`AuditTrail`): a rescue looks for the suppressed row once more after the
  model and drops it, "so the claim below writes fresh" (`src/web/audit.py`). A row whose ttl
  has lapsed is hidden from that look and stays in the table until the daily prune: it is not
  dropped, the claim is an INSERT OR IGNORE and no-ops on it, and the page goes back as after
  any rescue. `RescuesTake` names the exception. `RescuedStays`: a posting a cycle has claimed when it is rescued goes with
  that claim if its alert fails. `OnlyLowers` (`Tuning`): judged scores above the threshold
  in effect recommend to raise it.
- `StackIsMentioned` (`Screening`): `stack_any_of` says a posting must mention one of the
  listed technologies (`docs/CONFIG.md`); one that mentions none passes.
- `ScoreNeverRaises` (`ModelCalls`): a score that decodes to infinity raises.
- `PollerIsQuiet` (`OpsAlerts`): two tiers that end together both read the row of
  `llm_degraded` before either marks it, and both alert. `OthersKeptRunning`: the message
  of `tier_stopped` says the other tiers kept running, but when the whole poller dies the
  tier with the shortest interval goes stale first and is reported so.

Settings:

- `SetupWritesOnce`, `ReviewKeepsTheRest` (`SettingsStore`): the setup button and the
  wizard's review save without a base version, so a second visitor writes a second version,
  and a review replaces what was saved since its request began; its handler of a stale write
  is never reached. An import that found no settings has no base version either, which is
  why `ImportsUndoNothing` leaves it out.
- `EverySaveIsExplained`, `OneTopic`, `PreviewEnds` (`SetupWizard`): a provider saved with
  scoring off brings its page back without a word; two pages at once suggest two topics; a
  preview that died with its process is shown as running. `DraftIsOfTheResumeInEffect`: the
  settings page and an import replace the résumé and leave the wizard's draft of the one
  before, and so does a wizard whose process ends between the two writes of its save.
  `DraftsAreInvalidated`: "A new résumé invalidates any draft made from the previous one"
  (`src/web/wizard/routes.py`), and the save deletes the draft, but one that was asked for
  before the save and is answered after it is put all the same, made from the résumé of its
  request's snapshot.
- `RunsKeepTheirRecord` (`DraftRuns`): a save deletes the record of whatever run there is by
  then.
- `RemovalIsTold` (`Companies`): the page that confirms a removal looks in one of the two
  tables, and warns of the starter pack also while it is off.
- `ExportIsOfOneMoment` (`Backups`): settings and documents are read one after the other.
  `TornPacksAreCompleted`: a restore copies template packs with `copytree` and skips a
  directory that exists, so a pack that was being copied when it was cut short is never
  completed.

## 8. What is not modelled

`PROJECT.json` gives a reason for every part. In short: the web login, the template builder,
the gap digest, the coach, logging, SQLite's migrations and the repair of a damaged file
either keep no state or write files once; the validation of settings (`config.py`), the
parsing of one vendor's HTML, prompts and message formats are data; the home, ops and other
pages that only read compute views of the stores.

Inside the modelled parts, these are abstracted: SQLite's locking, except in
`SettingsStore` (elsewhere a store call is atomic; a lock timeout is a failed call), the order
of postings under the cap (any choice), Last-Modified, the wording of a closed-posting probe
(alive, miss or unknown), the matching of a message to a card (every message matches every
card), the secrets and text documents of the settings (they travel in the transactions of
the versions), the regular expressions and currency tables of the filters (which words a
text has is given), and the ops conditions `zero_yield`, `source_zero_yield` and
`config_fallback`, which pass through the same gate on other readings.
