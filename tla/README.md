# A formal model of vpnparser

vpnparser collects proxy configurations from many sources, probes them, keeps
those that work, writes subscription files and publishes them to a GitHub
repository, several times a day, from short-lived processes that share a few
history files. This directory holds TLA+ modules that model the parts of it where
order, failure and concurrency matter, the TLC configurations that check them on
small instances, and theorems about them that TLAPS proves for every instance.

All line numbers refer to the sources under `src/`; the Python package itself is
`src/src/`. `PROJECT.json` maps every definition to the lines it stands for and lists
the runs, the theorems, the hazards and one mutant per property: a plausible bug
in one definition that the property catches under the same configuration.

    tlc -workers 2 -config ListStages.cfg MCListValidation
    tlapm HealthHistoryProofs.tla

Contents: the system (1), the modules (2), the runs (3), fairness (4), the proofs (5),
findings and observations (6), what is not modelled (7), the plan (8).

## 1. The system

One run (`scheduler/runner.py`) is a pipeline in one process and one event loop:

    fetch -> parse -> dedup -> country filter -> liveness -> quality
          -> aggregate -> write -> summary -> publish -> report

`main.py` starts a run once, or in a loop with a growing pause (`--continuous`); a
fast track (`rerun_published`) probes only the configs that are already published.
The update workflow starts one run at a time (`.github/workflows/update.yml:48`), but
nothing in the program relies on it: the history files have a lock, and the
publisher expects other writers.

| Component | State | Operations | What makes it correct |
|---|---|---|---|
| Health history (`scheduler/health_history.py`) | a record per config and per source; the cache of the run, when it was loaded and what it pruned; the file | `load`, `update`, `update_sources`, `is_banned`, `prune`, `save` (lock, merge, write) | bans are earned by failures of different runs; a save loses no newer record and no running ban; an earned ban ends by its term or by a pass |
| File helpers (`utils/paths.py`) | the lock file | `history_file_lock`, `write_text_atomic` | a crash leaves the old file; a lock is always let go |
| Publisher (`publisher/github.py`) | per call: sha, `existed`, attempt; the remote file | `publish_file`: GET, PUT, and their retries on 409, 422, 5xx, rate limits | no blind overwrite, nothing deleted comes back, True only if published, every call ends |
| Runner, write and publish (`runner.py`, `stages/write.py`) | output files, counts, empty and fallback files, summary, publish outcome | write every output, filter by floors, publish in order, rewrite the summary | no working subscription replaced by a broken one; exit code 0 means published; stale locations are retired |
| Command line (`main.py`) | exit code, pause | `single_run`, `main`, report | a report is of this run; the pause is bounded |
| Validators (`validators/{tcp,tls}_check.py`, `{xray,singbox}_probe.py`, `address_guard.py`) | per config: verdict, attempts, process and port; `alive`, `done_event`, deadline | one task per config behind a semaphore; early stop; cancellation | no verdict without its attempts; no process survives; nobody is forgotten |
| Liveness validation (`stages/liveness.py`, `liveness_stages.py`) | the working list, verdicts, the probe log, the keys seen, limits | bans, TCP, TLS, Xray (quick probe, second chance, the others, QUIC), recording | what the history learns was earned at the last stage; limits are shared as promised; only vouched-for configs leave |
| Proxy pool (`stages/liveness_pool.py`, `validators/proxy_pool.py`, `proxy_health.py`) | pool cache, refetch count, history of proxies | search rounds, self-check, recheck, refill, watchdog, ban, rank | rebuilt a bounded number of times; a list is probed through proxies checked for it; the user's own proxy is never lost |
| Sources (`stages/fetch.py`, `sources/*.py`) | semaphores, tree cache, budgets of files | fetch with retries, rate limit waits, shared tree request, recursion | one failing source, file or directory takes no other down; every source is reported once; each request ends |
| Parsing (`stages/parse.py`, `parsers/*.py`, `llm_fallback.py`) | LLM budgets | link formats, LLM calls with retries | the budgets of paid calls are kept |
| Filtering (`stages/filter.py`, `validators/country_filter.py`, `geoip.py`) | lookup rate limiter | garbage, duplicates, sample, country of a config | the living copy of a server stays |
| Quality and aggregation (`stages/quality.py`, `aggregate.py`, `aggregator/merger.py`) | none | drop slow and unstable configs, balance by country, mix | floors never drain a list; limits are met; countries take turns |
| Output formats (`aggregator/output.py`, `clash.py`) | none | render | - |
| Run statistics (`scheduler/stats_history.py`) | the trend history file | append under the lock | no entry lost |
| Reports (`notify/*.py`) | none | one message, with retries | not sent twice |
| Settings, context, environment | none after start | read | - |

How they interact: the runner calls the stages in order and awaits each. Liveness
calls the validators, reads bans from the health history and writes verdicts to
its cache; the cache meets the file only in `load` and `save`. The stages share
`Config` objects: `is_alive` and `xray_was_checked` are written by the validators,
reset by the stages, and read by recording and quality. The runner hands local
files to the publisher one by one. Across processes, the history files and the
publish repository are shared.

The hard behaviours, listed line by line under "hazards" in `PROJECT.json`:
overlapping runs that load, judge and save; a remote file that changes between a look
and a write, with answers lost on the way; failures of single outputs; a kill
anywhere; tasks cancelled in flight, twice; limits shared by successive passes;
verdicts of an earlier stage that survive in a shared object; one tree request shared
by listings that compete for the slots it needs; proxies that die between their check
and their use; and retries of what was paid for or already delivered.

## 2. The modules

| Module | Models |
|---|---|
| `HealthRecords` | records and the operators on them: a verdict, a judgement window, bans, prune, cap, the merge of two copies |
| `HealthHistory` | any number of runs, each a process, on one history file |
| `PublishedFile` | abstract: what `publish_file` promises about the file |
| `GitHubPublisher` | `publish_file` request by request, the Contents API, other writers |
| `PipelineRun` | the end of a run and the loop of `main.py`: write, summary, floors, publication, exit code, report, crash, kill, restart |
| `ProbeOutcome` | abstract: the verdicts and lists a validator may deliver |
| `ProbeStage` | one call of one of the four validators: tasks, semaphore, attempts, processes, early stop, deadline, cancellation |
| `ListValidation` | the liveness stage of one run over all its lists |
| `ProxyPool` | the pool of free proxies over several runs: search, self-check, recheck, refill, watchdog, bans |
| `SourceReports` | abstract: what `fetch_all` promises |
| `SourceFetch` | `fetch_all` with its sources, directories, slots, budgets of files and the shared tree |
| `ApiRequest` | the retry loops of requests to GitHub, raw hosts, direct URLs, the LLM and Telegram, with the LLM budgets |
| `Selection` | preprocessing, quality gate, country-balanced limit, whitelist balance, mix |
| `RunProofs` | theorems about `Selection` and `PipelineRun`: what a run puts into its files, and what becomes of them |
| other `*Proofs` | theorems about `HealthHistory`, `GitHubPublisher`, `ProbeStage`, `ListValidation`, `ProxyPool`, `SourceFetch`, `ApiRequest` |
| `MC*` | instances for TLC |

How they compose, along the order of a run:

- `SourceFetch` implements `SourceReports` (`KeepsReports`), its end included. One
  fetch of `SourceFetch` stands for all the attempts `ApiRequest` describes, so the two
  together are the fetch stage: `ApiRequest` says what is asked again, `SourceFetch` what
  competes for slots and what a failure leaves.
- `Selection!Validate` is what `ListValidation` leaves of a list; `ListValidation` has the detail.
- `ProxyPool` supplies the proxies of the Xray stage: `viaProxies` of `ProbeStage`.
- `ProbeStage` shows that each validator delivers what `ProbeOutcome` allows (`Delivers`).
  `ListValidation` takes exactly that for granted, so every outcome it considers covers
  the real ones.
- What `ListValidation` records, one verdict per key (`OneVerdictPerKey`), is the input
  of `HealthHistory`, where the bans that `ListValidation` takes as arbitrary live.
- `GitHubPublisher` implements `PublishedFile` (`KeepsPromise`). `PipelineRun` uses its
  outcomes: True, False or an error.

Definitions whose comment begins "A mutant" are plausible bugs kept beside the
definition they would replace; nothing uses them.

### Health history

A run is a process: `Load`, then `ValidateList` up to `MaxLists` times, `Prune`, and a
save that takes the lock (`AcquireLock` or, if the lock file cannot be opened,
`ProceedUnlocked`), re-reads the file (`MergeWithDisk`) and replaces it
(`WriteFile`). `Abandon` is a crash or a failed write at any point. `ValidateList` is
`update` and `update_sources` for the configs of one list that are not seen yet. A
list with an Xray stage records in two batches; two `ValidateList` steps stand for it.
Time is a clock of seconds that `Tick` advances, so two events may share a
second. A record keeps what the properties tell apart: when it was last judged, last
passed and failed, the recent verdicts, the failures in a row, the end of the ban. A
full run differs from a fast track in the statistics of sources only
(`FromSource`). `deadRuns`, `sampled` and `alone` (the runs no save overtook) are history
variables.

### Publisher

A call waits for one request at a time (`pc`); the request is sent, served at a
later moment, and answered at a still later one, so that the file may change between
(`ServeGet`, `ServePut`, `Edit`). `at` says why a request was sent again. The sha of
a file is its content, since GitHub's is. A lost answer and an error that hides a
commit are faults of the environment, chosen by the constant `Faults`.

### Run

`WriteOutputs` writes every output, any of which may raise or fall back to the plain
format; `WriteMetadata` writes the summary and the statistics; `Select` applies the
floors; `PublishOne` and `FailOne` publish what is `due` in the code's order (`Rank`);
`AbortBatch` is an error that ends it; `FinishPublish`, `EndRun`, `Crash`, `Die` and
`Relaunch` are the ends. A file is a record of the run that wrote it, the configs in
it and whether it is plain. What a run is set up to do (`setup`) is chosen in
the initial state. The discovery stages before are an outcome: how many configs reach
each file.

### Validators

The four validators have one shape, and `ProbeStage` states it once; a setting says
which one it is, how many attempts, how many must pass, the proxies of the pool, the
limit, the slots. A task waits for the semaphore (`Enter`), starts a process on a port
(`Launch`, Xray and sing-box only), gets an answer (`Answer`, `Connect`), reaps the process (`Close`)
and decides what follows (`Count`). When enough are alive the call cancels
what is left (`Stop`); the caller may cancel it too (`Interrupt`), even while it is being
stopped; a cancelled task with a process goes through `Close`. `Return` clears the verdicts of
cancelled tasks and trims the surplus. `NoLaunch`, `Raise` and an answer "none" are the
faults that say nothing of the server. What a probe does on the wire is one choice:
pass, fail, or no verdict.

### Liveness validation

One action per step of a list: `NextList` (bans), `StartTcp`, `TcpRound`, `EndTcp`,
`SkipTls`, `TlsPass`, `SkipXray`, `StartXray`, `FreshPass`, `RetryPass`, `StalePass`,
`SingboxPass`, `RecordXray`, `Finish`; `Disable` when no stage is enabled. The settings are
chosen in the initial state. Bans are an arbitrary set at each look. A batch or the
head of a limited list is an arbitrary subset of the right size, since the order of
candidates is data; the preselection may keep fewer than its limit, as the whitelist
balance does. `by` and `due` are history variables: the pass that gave a config its
verdict, and the last stage it was a candidate of. A key occurs once in a list, after
deduplication, but may occur in several lists. A cancelled run saves no health history,
hence no interruption here.

### Proxy pool

A list begins with `StartList`, which searches for a pool if the cache has none. A search
is rounds of `BeginRound` (which free lists could be fetched, how many proxies of
each, whom the history rejects), the self-check (`StartCheck`, `EndCheck` per proxy,
several in flight) and `EndRound`, until `EndSearch`; `SearchFails` is an exception
inside it. Before the Xray stage, `StartRecheck` checks the cached pool again and
`EndRecheck` decides on a refill, which is a search of its own; `ListEnds` may find the list
poor, and then `Watchdog` checks the pool a last time. `NextRun` begins another run
with the same history. Pools are sets: the order in a pool is a score, and a slice of
it is any subset of that size. Proxies come up and go down meanwhile (`Change`), bans
expire (`BanExpires`). `proved` and `installed` are history variables: who passed a
check made for this list, and how many pools the run put in its cache.

### Fetching

A source is a tree of nodes: directories of a raw source, the index of a url-list, the
file of the others. `phase` says what the task of a node is at. A listing
(`AskListing`, `Listed`, `ListingFails`) that is too long for the Contents API needs the tree of
its repository: `NeedsTree` gives its slot back and waits, the first that needs the
tree has it asked for (`AskTree`), and `TreeAnswered` or `TreeFails` resume all that wait,
with the whole directory or the prefix they saw. Files are fetched
(`FetchFile`, `FileFetched`, `FileFails`), or expire while they queue for a slot
(`FileExpires`); what is left of the budget is divided over the subdirectories
(`Recurse`), and `Gather` adds up what they returned. `FinishSource` and
`FetchAllReturns` are the reports.

### Requests

A job is one request of a kind, in a retry loop; `log` holds the answers so far.
`Send` and `Connect` are an attempt with any of thirteen answers, `Again` which of them are
asked again, `Meaning` what the last one tells the caller. `EndLoop` leads `fetch_file`
from the API to the raw host. A direct download looks each redirect up
(`Resolve`, `Redirect`) and tries its addresses in turn. The LLM reads one file after
another (`NextFile`, `Charge`), and its budgets are charged after the call with the number
of POSTs it took. A request that got no answer may have been served: `accepted`
counts the copies of a message Telegram took.

### Selection

Four steps: `Preprocess`, `Validate`, `Quality`, `Output`. The rest is pure: `Balanced` is the
country-balanced limit as turns of countries, `WhitelistBalance` the Russian and
European parts, `Mixed` the mix. Lists are sets with a `Place` in the input, which the
stable sorts fall back on; score, country and server of a config are constants. A sort is given by
who goes before each config (`ByLatency`, `ByScore`, `ByPlace`) and written out by `InOrder`; the two
passes that build a list element by element, `Taken` and `UniqueTaken`, are recursive functions over the
position, one value per turn or config, as the loops of the code are.

Its specification is `SelectionSpec`, so that one module can speak of `Selection` and `PipelineRun`.

## 3. The runs

| Run | Question | Instance | Distinct states |
|---|---|---|---|
| `HealthBans` | are bans of configs and sources earned, do saves keep the newest copy and running bans, does a run alone keep them? | two full runs and a fast track that overlap, one config of one source, bans after two failures, clock to 2 | 926,000 |
| `HealthLock` | crashes, failed writes, unusable lock files: does every save end? | two runs, one a fast track, two lists each | 133,000 |
| `HealthEvidence` | does a ban end only by a pass when runs overlap? (violated) | three overlapping fast tracks | - |
| `PublishAll` | one call against every fault: does it end, tell the truth, keep the promise? | all kinds of fault, three commits by hand, two conflict retries as in the code | 146,000 |
| `PublishHealthy` | two racing calls: when may one fail? | no faults, two commits by hand | 167,000 |
| `RunPublish` | what is published, withheld, reported? | one run with combined, Clash, mix, one split file and one location; the same without publishing; two runs of the loop with a slice, crashes, kills, restarts; 0 to 2 configs, floor 2, pause bound 2 | 3,278,000 |
| `ProbeRace` | does each validator keep its promise, leave nothing behind and end? | three configs, six kinds of call: limits met by more than were asked for, 1 to 3 slots, up to three attempts, proxies, a deadline | 144,000 |
| `ListStages` | what is recorded, what is delivered, who shares the limit? | two lists with a shared server, a config without TLS and a QUIC config; ten configurations | 943,000 |
| `FetchAll` | is anything fetched lost, is a prefix used before its time, does it all end? | two directories of one repository too large for one listing, one with two subdirectories, a url-list and a subscription; one API slot, two downloads, two sources at once | 510,000 |
| `Requests` | what is asked again, what is paid, what is never repeated? | every kind of request with the attempts the code gives it; four files of two sources, three calls, two per source, two addresses, two redirects | 8,900 |
| `ProxyPool` | how often is the pool rebuilt, and who is probed through? | the user's own proxy or none, three free ones on two lists, two lists per run, one rebuild, any number of runs, two changes of the world | 2,753,000 |
| `Selection` | what do the gate, the turns and the mix publish? | eight configs of two lists: a server in both, a duplicate, garbage, three countries and an unknown one; four settings; one slow config and one left in without a pass | 402,000 |

Why the bounds are enough. A ban by two failures needs two runs, and a third to hold
a stale copy of it; a fourth repeats one of the three. The clock runs to the longest
term. In `GitHubPublisher` the code looks at most four times; three commits by hand
make every look differ from the one before. In `PipelineRun` the counts 0, 1 and 2
with a floor of 2 are below, at and on every side of the floor's conditions. In
`ProbeStage` a limit of one or two among three configs leaves one to be the surplus, one
to be cancelled and one never to start. In `ListValidation` three configs are the least
for fresh, retried and other candidates to meet a limit of two; two lists are the
least for a server to be met again. In `SourceFetch` two directories are the least to share a
tree, and with one API slot a slot that is not given back stops everything. In
`ProxyPool` a pool of four can be thinned out to one and still have an answering
proxy; one rebuild is enough for refill and watchdog to compete for it. In
`Selection` three known countries, one of them with a single server, make the rounds uneven.

What the properties say, by hazard:

- *One server, several verdicts.* `BanIsEarned`, `SourceBanIsEarned`, `OneVerdictPerKey`: a server in
  two lists, a skipped probe, or a merge never makes up for a missing failure.
- *Stale copies.* `NewestCopyWins`, `LiveBanKept`, `LoneRunKeepsBans`: whatever order runs
  save in, and what still holds of bans when they do not overlap.
- *Races for the file.* `KeepsPromise`, `TruthfulSuccess`, `FailsOnlyWhenBeaten`, `EveryCallReturns`.
- *Partial failure of a run.* `WorkingFileKept`, `GreenMeansPublished`, `LocationsAreCurrent`,
  `ReportIsOfThisRun`.
- *Cancellation.* `Delivers`, `NothingLeftBehind`, `NobodyForgotten`, `CallEnds`.
- *Verdicts that outlive their stage.* `VerdictsAreEarned`, `OutputIsVouchedFor`.
- *Shared limits, 0 as "no limit".* `AliveWithinBudget`.
- *Proxies that die.* `ProbesThroughProved`, `RebuildsWithinLimit`; `TypeOK` of `ProxyPool` also says that
  the user's own proxy is in every pool and that a pool has its size.
- *One tree for many listings, one pool of slots.* `TreeBeforePrefix`, `KeepsReports` (whose liveness
  part fails if a waiter keeps its slot).
- *Partial failure of a source.* `NothingFetchedIsLost`, and `KeepsReports` for `max_files`.
- *Retries.* `AskedAsOftenAsNeeded`, `PaidWithinBudget`, `MessageOnce`.
- *Drained and uneven lists.* `QualityKeepsAList`, `CountriesTakeTurns`, `MixIsFilled`: neither a history of
  failures nor a quota nor a duplicate leaves an output shorter, or more one-sided, than its limits make it.

Deadlock checking is off where the program may end, that is everywhere but in
`ProxyPool`, whose runs follow one another for ever: there it shows that no search, check or
refill gets stuck.

## 4. Fairness

- `HealthHistory!FairSpec`: weak fairness of each run's own steps. A run is a program that
  keeps executing; nothing obliges it to crash, or its lock file to fail. The lock is
  `flock`, which the system releases with its holder; waiting runs need no strong fairness
  since each takes it once.
- `GitHubPublisher!FairSpec`: weak fairness of serving a request and of reading its answer.
  Every request has the client's timeout, so one that is never answered ends as
  "lost". Rate-limit waits are capped. Commits by hand have no fairness.
- `ProbeStage!FairSpec`: weak fairness of the call and its tasks together. The event loop runs
  whatever is ready; each connection, start-up and response has a timeout; a process
  that ignores SIGTERM is killed. Interruption and the deadline have none.
- `SourceFetch!FairSpec`: weak fairness of `Next`. Every step of it is one the event loop runs, and
  every request has a wall-clock limit, so something always happens while a source is
  under way. No state repeats, hence nothing stronger is needed.
- `SourceReports!Spec`: the same of its own steps, which is what `KeepsReports` has to show.

The other modules have no liveness property. `PipelineRun`, `ListValidation` and `Selection` await one
thing after another, and what they await is shown to end in the other modules; the
loops of `ApiRequest` are bounded (`AskedAsOftenAsNeeded`).

## 5. The proofs

All theorems hold for any values of the constants that the named assumptions allow; TLC
evaluates the assumptions in the runs. `ForestAssumption` of `SourceFetch` says that the directories
of a source are a finite tree, of which each has one parent and its depth as level, and that only
a directory on GitHub can be shown in part; `PoolAssumption` of `ProxyPool`, that the proxies a list offers
are finite sequences of free ones. `SelectionAssumption` says that configs are finite in number and
belong to one list each (the lists hold objects of their own, whatever their servers), that no two
have one place in the input, that the country codes are sorted once each, that `RU` is no code
of Europe, and which settings the code accepts.

`HealthHistoryProofs`, for any number of runs, configs, sources and lists:

- `TypeCorrect`: `Spec => []TypeOK`.
- `BansAreEarned`: `Spec => []BanIsEarned`. `BanIsEarned` is not inductive: it speaks of banned
  records, but a ban comes from a count of failures. The invariant `BanInv` adds, for every
  copy of a record (file, cache, merge under way), that its failures in a row are at most the
  number of different runs that recorded one (`CopiesSound`), and that a run has
  recorded a failure of a config only if it has seen that config in one of its lists (`JudgedOnce`),
  so that its next failure is by a new run.
- `SourceBansAreEarned`: `Spec => []SourceBanIsEarned`. `SourcesEarned` says of every copy of a record, the
  one a run is about to write included, that `MinChecked` verdicts for each bad window and those of the open
  sample have been counted for the source (`sampled`), and that a ban stands on enough bad windows.
- `LoneRunsKeepBans`: from `LoneInv`: the cache of a run that no save overtook has the file's own record of a
  config it has not judged yet, and one that honours the ban in the file of every other; so does its merge.
- `SavesKeepNewest`, `LiveBansSurvive`: the two action properties, from `SaveInv`: `BanInv`, the lock has one
  holder and who is past it holds it (`LockInv`), and the merge under way is that of the
  file as it still is with the run's own cache (`MergeInv`).

`GitHubPublisherProofs`, for any number of calls, commits, versions and faults:

- `TypeCorrect` and `SuccessIsTruthful`, from `PublishInv`: `TypeOK` and, for each call, that what its
  looks returned was seen, that a request on the wire carries a sha its call saw, that a first
  PUT without one means no file was found, and that an accepted PUT has landed.
- `PromiseKept`: `Spec => KeepsPromise`, step by step: each action is a step of
  `PublishedFile` or leaves its variables alone.
- `LosesOnlyWhenBeaten`: without faults and with a retry of conflicts, `Spec => []FailsOnlyWhenBeaten`. The
  invariant counts the races a call has lost: one for each PUT that was not taken, and one
  more as soon as the version it goes by is no longer the file's.

`RunProofs`, about `Selection`, for any lists, countries, scores, settings and verdicts of the validation, all
from `SelectionInv`: a list holds configs parsed for it, and after `Preprocess` one of each server.

- `CountriesShare`: `SelectionSpec => []CountriesTakeTurns`. What is hard is not the invariant but the loop. It is
  cut into lemmas that each speak of one thing. `OrderIsListed`: a strict order of a finite set is
  written out completely and without repetition. `BucketIs`: what a country offers, and how much of it.
  `TurnIs` and `TurnsDiffer`: the position in the loop is round and country (quotient and rest), and a later
  round is a later turn of any country. `TakenIs`: the recursive function is its own equation.
  `TakenServes`: after `t` turns the result is `Served(m)`, those whose turn is at most `m`, with `m = t` or the limit
  met. `ServedOf`: of each country these are the first of its bucket. Were a country two behind another with
  more to give, its next turn would come before one that has been served (`ServedShare`); and all the
  turns together serve whom the quotas let in (`AllExhausted`).
- `MixesAreFilled`: `SelectionSpec => []MixIsFilled`. `BalanceIs` says what the whitelist balance returns: as many as
  asked for, or all that are Russian or European, as soon as Europe has a share; `PartsLength` is its
  arithmetic. `TakeUniqueIs` says that a list with one config of each server, none of them used, loses none of
  them. `MixIsMade` puts them together; it needs that used servers are taken out before the balance, not after.
- `QualityLeavesAList`: `SelectionSpec => QualityKeepsAList`, from `GateLeaves`.

Two facts stand in for induction: a set of numbers has a least one (`LeastNumber`), so what holds of 0 and of the next
number holds up to `n` (`UpTo`); and a step can be repeated (`Iterates`), so the recursive functions are defined.

`RunProofs`, about `PipelineRun`, for any outputs, floor and number of runs, all from `RunInv`:

- `TypeCorrect`, `WorkingFilesAreKept`, `GreenIsTruthful`, `ReportsAreCurrent`. `WorkingFileKept` speaks of the moment of
  a publication, but what makes it true was decided when the file was written and when the floor was
  applied. `WrittenInv` says that what the run knows of its files (counts, fallback, empty
  slices) is what is on disk, `DueInv` that what is still to be published may replace a working
  file, `BatchInv` that a batch without a failure has settled everything it has passed, `EndInv` that
  this survives the end of the run, kills and restarts; `VersionInv` tells the files of this run
  from those of earlier ones, `SummaryInv` does so for the summary.
- `LocationsStayCurrent`: `Spec /\ [][NoLocationIsLost]_vars => []LocationsAreCurrent`, for any number of runs and
  restarts. The hypothesis is about the disk: no published location file is gone from it, as a kill
  between its removal and its rewriting makes it (6); without it the conclusion is false. `LocationInv`
  follows a location from the file an earlier run left, over the list of the files to be emptied, to
  the publication or to what held it back.

`ProbeStageProofs`, for any configs and any arguments of a call, from `CallInv`:

- `TypeCorrect`, `PromiseKept` (`Delivers`), `ProcessesEnd` (`NothingLeftBehind`), `EveryConfigJudged`
  (`NobodyForgotten`). `CountInv` ties the counters of a config to where its task is, `ProcInv` its
  process; `OutcomeInv` says that a verdict is what the counters add up to, `ReturnInv` what
  cancellation and trimming leave of it.

`ListValidationProofs`, for any lists, configs and limits:

- `OneVerdictEach`: from `KeyInv`, that a key with a recorded verdict is one the run has seen.
- `LimitIsKept`: from `BudgetInv`, the part of the limit each pass leaves used.
- `TypeCorrect`: from `TypeInv`, `TypeOK` and `PlaceInv`: a working set is part of the list under way and is
  empty where no step uses it.
- `VerdictsEarned`: from `EarnInv`. `AheadInv` says that no config of a later list has been touched; `OriginInv` ties
  which stage judged a config of this list, and which passes it is still due, to the passes that are pending.
- `OutputVouchedFor`: from `VouchInv`. `StandInv` says stage by stage which verdicts a config in the working list may
  have and who gave them; later steps do not touch a finished list, whose configs are objects of
  their own even where they are the same server.

`ProxyPoolProofs`, for any proxies, lists, limits and changes of the world:

- `TypeCorrect`: `Spec => []TypeOK`. That a pool has its size needs that no proxy found by the search is found twice,
  which is an invariant of the function that looks through the lists (`NewIn`, `FirstNew`), and that whatever may yet become
  the pool (survivors, the pool under construction) has it too.
- `RebuildsAreBounded`: `RebuildInv` counts pools against what was paid for them: the watchdog pays when
  it drops the cache, a refill when it installs, so the count has to say where between the two
  a run is.
- `OnlyProvedAreUsed`: `ProvedInv`, that whatever the stage may yet be given passed a check for this list:
  the survivors of the recheck, the pool under construction.

`SourceFetchProofs`, for any sources, trees of directories, repositories and slots:

- `PrefixOnlyWithoutTree`, from `WaitInv`, that who waits for a tree waits for one under way.
- `TypeCorrect`: `Spec => []TypeOK`, from `FetchInv`. `SlotInv` says that the slots taken of a pool are the fetches
  in flight of its nodes plus the trees being asked for, a sum over all nodes; so a slot is given back once,
  and whoever gives one back has one. `ShapeInv` says that a subdirectory begins after the files of its
  directory and ends before it, `WorkInv` that a node fetches only in its phase "files" and within its budget.
- `NothingIsLost`: `Spec => []NothingFetchedIsLost`. A sum that is known only at the end is not inductive, so
  `BalanceInv` holds it at every step: what was fetched for a source is what its nodes still have to
  hand on, a node that is done counting for its whole subtree until its directory has taken
  it over (`absorbed`). When the root is done, `RootHasAll` shows by the least level of a counterexample that
  nothing is left below it.
- `ReportsArePromised`: the initial state and every step of the refinement `KeepsReports`. `BudgetInv` says that while the
  subdirectories are at work their budgets sum up to what their directory left, which `WholeIsShared` proves of the
  shares `_recurse_subdir` gets (quotient and rest, `sources/github.py:997-1000`); hence no source reports more than `max_files`.

The sums are the folds of the community modules. Their laws (`TotalTake`, `TotalUnion`, `TotalChange`,
`TotalAtMost`) are proved from the definition of the fold, each by a smallest set of counterexamples instead
of by induction.

`ApiRequestProofs`, for any attempts, files and sources:

- `MessageTakenOnce` and `LoopsAreBounded`, from `ApiInv`, which says what the log
  of each loop may hold and that a message that may have been taken ends its job.
- `PaymentIsBounded`: `Spec => []PaidWithinBudget`, from `BudgetInv`: the two counters of the code, requests sent and calls
  charged, and the POSTs of each source, whose ceilings are looked at before a file and passed only by its retries.

Lemmas state what the operators do (a merge picks one of two copies, a verdict changes the
failures by at most one, a slice is within its set) and are cited by name.

Only model-checked:

- `LocationsAreCurrent` without the hypothesis of `LocationsStayCurrent`: the run shows it for one run that no
  kill interrupts.
- All liveness (`EveryRunEnds`, `EveryCallReturns`, `CallEnds`, the end of `KeepsReports`).

## 6. Findings and observations

One disagreement between the code and what it says of itself is a run of its own.
`HealthEvidence`: the merge picks one whole record per key (`health_history.py:443`), so the
failures of the losing copy are dropped, although "no run's evidence is lost" (357-362). A
later failure, counted from a cache loaded before the ban, ends the ban.

Met while modelling, with no run of their own:

- `health_history.py:426`: the merge brings back records a run never held, so the file may
  have more records than the hard cap of `README.md:234`.
- `github.py:525` (publisher): a 401 or 403 after a 422 returns False; the docstring (281-283) says it raises.
- `github.py:416` (publisher): a file that only a later look of the call found, and that was
  then removed, is created again; compare the comment at 336-339.
- `runner.py:1494-1495`: an empty slice "must not publish over a previously working published file", but
  with `fail_open_on_low_alive` and no Xray a slice whose configs are all dead is written
  with count 0 and published (1510). `WorkingFileKept` exempts it.
- `runner.py:1580`: the floor withholds a Clash file with too few proxies but not one with none.
- `runner.py:1761`: a `ValueError` in the middle of a batch leaves the local summary at "ok"
  (compare 1274-1276).
- `runner.py:478`: the summary is written before the floor is applied, so
  `publish_floor_applied` is always empty in it (compare `CHANGELOG.md:60-63`).
- `write.py:195`: a kill between removing and writing the location files, or a location
  file that could not be written, leaves later runs without a trace of the published copy of a
  country that is gone (compare 154-157). The run checks `LocationsAreCurrent` for one run, and
  `LocationsStayCurrent` proves it for several in which no such file is lost.
- `liveness_stages.py:1125`: of the fresh configs that passed as surplus, those left out as
  "budget_full" lose their verdict; `xray_probe.py:1746` says it stays truthful.
- `liveness.py`, docstring of `validate_configs`: with Xray enabled "it stays the single source of
  truth", but what never becomes a candidate of Xray (TCP surplus, configs it does not support) is
  recorded on TCP or TLS evidence. `VerdictsAreEarned` therefore speaks of the last stage a
  config was a candidate of.
- With `xray_max_alive: 1`, servers that passed lately get the whole limit; the second part of
  `AliveWithinBudget` holds from two on.
- The first list that judges a server that is in several decides what is recorded.
- `liveness_stages.py:648-651`: a list of QUIC configs only, without sing-box and with
  `xray_drop_unsupported: false`, is returned without the ban filter that follows a probe.
- `liveness_pool.py:208-214`: a pool rebuilt in rounds keeps a proxy of an early round that no longer
  answers by the last one; after a refill there is no second recheck.
- `liveness_pool.py`: with an explicit proxy, a refill whose search raises or finds nothing installs that
  proxy alone and counts as a rebuild; the survivors of the recheck are dropped.
- `sources/github.py:821-823`: the fallback of `fetch_file` keeps "returning an empty string on failure
  instead of propagating" for HTTP statuses; a rate limit or a timeout of the raw host propagates.
- `README.md:239` calls the LLM limits "hard ceilings"; a file's retries may exceed them by one less than
  its attempts, which is what `PaidWithinBudget` states.
- `aggregate.py:63-67`: 0 means unlimited for the country-balanced limit, while `max_configs_in_output: 0` makes
  the whitelist balance and the mix empty (167, 247-248).
- `aggregate.py:191-205`: with `whitelist_ru_ratio: 0.0` a shortage of European servers is made up from Russian
  ones; only the ratio 1.0 is a bound.
- `quality.py`: with a minimum of 0 stable configs and a small share the gate may empty a list; `QualityKeepsAList`
  assumes a minimum of one or more. A server seen for the first time counts as new
  even if it failed.
- `aggregate.py:267-276`: with fail-open, the dead copy of a server in the blacklist may take the place of its
  living copy in the whitelist in the mix; the combined output takes the living one.
- `telegram.py`: an error status is taken to mean that the message was not delivered; `ApiRequest` assumes the same.

## 7. What is not modelled

- Formats: parsing of links, base64, Clash and plain rendering, HTML of reports. String
  conversions with unbounded inputs; `PipelineRun` models what a failed or empty rendering does.
- The wire: TCP, TLS, HTTP and SOCKS inside a probe, configuration files of xray and sing-box.
- Address checks of `address_guard.py` and `utils/net.py` beyond their effect (a refused config,
  a host that does not resolve to public addresses only).
- In the health history: the score and the repair of hand-edited fields. In the history of
  proxies: scores and the retention of old records.
- In the liveness stage: latency baselines, statistics, logging.
- In fetching: parsing of the index of a url-list, names of files, the closing of clients.
- In aggregation: `limit_per_country` and `merge_and_filter`, which no run calls; in the LLM fallback
  `normalize_remark` and `categorize`, for the same reason.
- The country tables and heuristics: which country a config has is an input. The rate limiter of
  GeoIP lookups.
- Run statistics (`stats_history.py`): one read, append and atomic write under the lock that
  `HealthHistory` models with its failures.
- Settings, environment, network helpers, the workflow file.

## 8. The plan

Done: everything a user sees (history, publisher, end of the run), the validators and the
liveness stage, then the proxy pool, fetching with its requests, and selection; each module
that relies on another states what it relies on as a promise.

Next, in this order:

1. `StatsHistory`: append under the lock of `HealthHistory`, with the trend a report reads.
2. The GeoIP rate limiter and its cache.
