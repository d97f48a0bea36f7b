# A TLA+ model of the FPL backend

The backend mirrors the Fantasy Premier League (FPL) upstream into Postgres, forecasts points from
the mirror, plans squads and transfers from the forecasts, and measures the forecasts over an archive
of past seasons. The code keeps its promises in comments: a skipped pass would have been a no-op, a
snapshot describes what was known before a deadline, a reconstructed price is right or says that it
is unknown, a feature knows nothing of its own round, a fold nothing of the season it is scored on.
This directory states those promises in TLA+, checks them with TLC on small instances against models
translated from the code, and proves some of them for every instance with TLAPS. Paths in this file
are relative to the repository root; `svc` is `src/modules/fpl-sync/sync.service.ts`, `rep` is
`sync.repository.ts` beside it.

```
tlc -workers 2 -config MCFplSync.cfg MCFplSync    # one run; PROJECT.json lists all of them
tlapm FplSync_proofs.tla                          # one module of proofs
```

## 1. Inventory

| Component | State it keeps | Operations | What is hard about it | What makes it correct |
|---|---|---|---|---|
| Incremental sync (`fpl-sync/sync.service.ts`, `sync.repository.ts`) | the mirrored tables, `sync_runs`, two append-only histories, `player_deadline_snapshot`, `gameweek_live_snapshot` | `runIncremental` = `syncBootstrap` then `syncFixtures`; snapshot and live capture inside the first | about thirty awaits without a transaction around them, each of which may throw or be the last; a skip decided by a hash recorded earlier; the clock is read once | a skip is a no-op; histories hold changes only; a due snapshot is taken and never goes back; no orphan fixture |
| Full backfill (`svc` `runFull`) | `player_gameweek_stats`, `player_season_history`, its `sync_runs` rows | one request per player, in batches of as many as run at once | a player whose request fails is passed over, a run dies between batches; the rows are read later by scoring | a run recorded as `success` brought every player it knew up to date, and no later run undoes it |
| Hourly scheduler (`sync.scheduler.ts`) | the flag `running`, in memory | the hourly job: sync, deadline test, projection run | overlap with the next tick and with runs by hand, an exit that leaves the flag up | at most one job at a time; the flag always comes down |
| Projection run (`projections/projections.service.ts`, `forecast.service.ts`, `projections.repository.ts`) | `projections` | horizon, forecasts, batched upserts, served version and then candidates | a long run beside a moving clock and a moving database; errors in one version | nothing older over something newer; nothing after a deadline; served rows first and whole |
| Squad import and entry state (`squad/`) | `squads`, `squad_picks` | `importSquad`, `getSquad`, validation, the reconstructions of `entry-state.ts` | two imports at once, beside the sync; an upstream that names a gameweek before it publishes it; private facts derived from a public record | no squad short of a pick, the error that was the cause, the store only for the current squad; what is derived is what FPL holds, or is marked unknown |
| Upstream client (`infra/fpl/fpl-api.client.ts`) | none | `get` with retries and backoff | attempts and options through a recursion | bounded, once on a user's request |
| Transfer planner (`transfers/`) | none | `plan`, `planBuilt`, chips | the store moves between the awaits of one request; hits and free transfers; sell values that are unknown | the moves shown lead to a legal fifteen, cost no more than there is, and are worth no less than holding |
| Optimizer (`optimizer/`) | `optimizer_runs` | prune, build an integer program, arrange the lineup | pruning before the program; ties | the fifteen and its eleven are legal |
| Served scoring (`calibration/served-scoring.service.ts`) | the report `reports/served-projections.md`, written whole each time | score each served gameweek whose data are checked | the flag comes from the incremental sync, the statistics from a backfill that may be older | only settled gameweeks are scored, on the rows upstream ended with |
| Forecast model (`projections/features.ts`, `strength.ts`, `model-v2.ts`, `forecast.service.ts`, `forecast.repository.ts`) | accumulators of one walk | rounds in order: yield features, then fold | what is reset at a season's turn, what decays and when, double gameweeks, clubs promoted or changed, columns a season lacks, rows of matches not yet played | nothing rests on its own round or a later one; every number rests on all it should |
| Backtest and export (`calibration/harness.ts`, `feature-export.ts`) | the rows emitted and skipped | score or refuse each row; blend; sort | two consumers of one walk, with filters of their own | no row lost in silence, one order, one population |
| Season simulator (`calibration/season-sim.ts`, `xi-decision.ts`, `squad-scoring.ts`, `xi-replay.ts`, `fixed-squads.ts`, `decision.service.ts`) | squad, bank, prices paid, free transfers, chips | a deadline: transfers, lineup, score, chip | players without a row, club and price of whom are carried; money over forty deadlines; substitutions in sequence | the squad keeps its shape, money is conserved, hits are paid, substitutions are complete and legal |
| Referee (`calibration/rolling-origin.ts`, `rolling-origin.service.ts`, `fit.ts`) | plans, folds, results, a report | read, plan, split, fit, choose, score, pair, write | a dozen switches, each of which refits or sets something beside the fit, and arms paired with each other | a fold knows nothing of what it is scored on; arms differ in what the comparison names |
| Archive (`archive/`) | archive tables, two caches on disk | import of a season, two ingests of captures, the join | one file of two re-read, two importers at once, deadlines that moved after a capture | a season's table is one import's, whole; what is joined was knowable |
| Sync mappers, read API (`insights/`, `players/`) | none | renaming, queries | none for a model checker | not modelled |

How they interact: the scheduler calls the sync and then the projection run in one process, under
its flag; `pnpm sync:fpl` and `pnpm project` (`src/scripts/`) call the same services from processes
of their own, which the flag does not know of. Users' requests (import, plan, recommendation) run in
the application beside them, and several at once. Everything else meets in Postgres: the forecast
reads what the sync wrote, the planner what the projection run wrote, the import what the sync
wrote; the planner also calls upstream for the transfer log and the history. The measurements are run
by hand: all of them stand on one walk over the archive, which the served forecast uses as well.
`PROJECT.json` lists the hazards, each at its line, with the property that covers it or the reason
none does.

## 2. The modules

### FplSync — the incremental sync

A process is anything that calls `runIncremental`. Every await is a step boundary, so that
processes interleave between any two repository calls and fail or die at any of them.

| Code | Model |
|---|---|
| the payload and its hash | a revision number; hashes are equal iff revisions are |
| tables written by the upserts, `inTransaction` in chunks of 200 | `stored[part]`: the revision a transaction's rows were last written from |
| `sync_runs` | `runs`, a sequence in `startedAt` order |
| `player_price_history`, `player_ownership_history` | `history`, for one tracked player |
| `player_deadline_snapshot`, upserted player by player | `snapshot[g][chunk]`, with the run (`capturedAt` is its start) and its payload |
| `gameweek_live_snapshot` | `live` |
| the locals of a pass, where it awaits | `job[p]`, `pc[p]` |
| `startRun`, `getBootstrap`/`getFixtures`, `lastGoodHash`, upserts, histories, snapshot, live captures, `finishRun` | `StartRun`, `Fetch`, `Skip`/`NotSkipped`, `ResolveTeams`, `WritePart`, `ReadLatest`, `AppendChanged`, `DecideSnapshot`, `CaptureSnapshot`, `FindDueLive`, `CaptureLive`, `Succeed` |
| the catch block; a throw inside it, or the process's death | `Fail`; `Abandon`, which leaves the row `running` |

Decisions a reader should know: `recordedAt` and `capturedAt` are the run's start, so they are its
number; two starts never fall in one instant of the clock's resolution. Two chunks stand for a loop
over players and two transactions for those of a table with more than 200 rows; that suffices for
"between" and for "some written, some not". Ownership is compared as the code compares it (`Unchanged`):
a stored percentage has lost its trailing zero, so a whole-number one never equals what upstream
sends. The upsert of fixtures passes over a fixture whose teams
are unknown, and throws when the gameweek row it refers to is missing.

### Projections — who writes the projections table and when

The hourly job and `pnpm project`. A change of the database is one committed transaction of a sync
(`FplSync` is the detailed model; `SyncByHand` is one from another process), and a projection row is the
pair of the oldest and the newest state that the queries behind it saw.

| Code | Model |
|---|---|
| the cron's guard, the sync it awaits, its deadline test, its `finally` | `HourlyIncremental`, `RunIncremental`, `ProjectIfDeadlineNear`, `End` |
| `horizonGameweeks` | `ReadHorizon` |
| `forecastMany` before its loop: scoring and history, the ids of the players | `ReadHistory`, `ReadIds` |
| one turn of the loop: the fixtures, and with them who gets an entry; flags and `ep_next` | `ReadFixtures`, `ReadFlags` |
| `writeProjections`: upserts of the rows there are, none deleted | `WriteRow`, `Written`; `rows[v]` keeps what a run has nothing for |
| an error at any await, caught for a candidate and not for the served version | `Throw` |
| the application's death | `Restart` |

Each query and each upsert is a step. A player stands for a batch of 200 rows as well. Which players have a
fixture in a gameweek, and which have an id, depends on the state of the database (`Playing`, `Listed`), so
a fixture may move between two runs or between two queries of one. `beside` marks a run that another
overlapped; it is there for the properties. Every candidate is forecast for the whole
horizon; the composite one goes on where a gameweek has no fixtures.

### SyncMirror — what the sync promises, and the refinement

`SyncMirror` is the abstract specification: upstream serves a payload (`Publish`), a table is brought
up to a payload that was served and is newer (`Refresh`), and a payload may be recorded once every
table holds it (`Record`). Its promise is `SkipIsSound`: while upstream serves the payload recorded
last, every table holds it. `FplSync` implements it for the bootstrap endpoint:
`Mirror == INSTANCE SyncMirror WITH served <- upstream, mirror <- the tables, recorded <- the payload
of the last good hash`, and `ImplementsMirror` is the abstract specification as a property. Starts,
failures, deaths, the whole fixtures half, snapshots and live captures are stutters; a failed pass
refreshes some tables and records nothing; a skip stutters *because* it changes nothing.

### ManagerSeason — what is derived about a manager

FPL's season (external: price moves, transfers, chips, deadlines, with the private purchase
prices and free-transfer count) runs next to the code that reconstructs those facts from the public
record: `BoughtAt`/`PurchasePrice` (`reconstructPurchasePrices`), `SellValueOf` (`sellValueOf`) and
`Replay` (`reconstructEntryState`), a recursive function and not a recursive operator, so that the
module can be proved about. FPL's rules are taken from what `entry-state.ts` and `chips.ts` say of
them. Three assumptions are in the model: the log lists the newest transfer first, as the upstream
does; prices do not move before the manager's first deadline; and the record shows nothing of the
gameweek whose deadline is ahead, which is why properties look at a gameweek before its first transfer
(`Opening`). A player who has no row in the first gameweek's statistics starts as unknown.

### SquadImport — the path on which a user waits for FPL

Any number of requests for one manager, beside the sync, each await a step. FPL is external: a clock and
the deadlines, which it may put off (and, if `Forward`, bring forward); `current_event` of the manager (`entered`); the
picks it serves (`public`); the elements it lists (`listed`). Each lags the one before it. The store has deadlines of
its own (`weeks`), those of the last sync.

| Code | Model |
|---|---|
| `FplApiClient.get`: attempts, what is retried, the error thrown | `call[c]`, `MaxAttempts`, `Retry`, `Retryable`, `Gives` |
| `latestReadableGameweek`, by the stored deadlines; `findSquad` for it, in another query | `Begin` with `LatestReadable`; `FindSquad` |
| `fetchEntry`; `fetchPicks`, which may fail in every way a request can | `EntryAnswers`/`EntryFails`; `PicksAnswer`/`PicksFail` |
| `gameweekExists`, `resolvePlayers`, `upsertSquad` in one transaction, an error of any of them | `GameweekExists`, `ResolvePlayers`, `Store`, `StoreFails` |
| the exceptions a user sees | `result`, by `MapUpstream` and `PicksError` |
| the sync, as far as an import sees it | `StartSync`, `EndSync` |

`entry/{id}/` answers 404 for an id nobody has and for no other; that is what the code takes a 404 for.

### Squad and Planner — a request against a store that moves

`Squad` holds the rules and the pure decisions: a formation, the eleven and its captain, automatic
substitutions, the ceiling, the two integer programs (as the *set* of their optima, since HiGHS may
return any of them), pruning's order and the bench. `Planner` runs one request at a time —
`plan`, `planBuilt`, the recommendation — each await that reads being a step, and lets the jobs
reprice, reproject, add and remove players between any two. `StartBuilt`, `BuiltDto`, `Universe`,
`LoadProjections`, `Gap` are the places where `planBuilt` looks at the store (the two queries of
`buildUniverse` whose answers matter here are the players and, after them, the projections); the squad it validated, the bank it computed
and the universe it plans in may be of different moments. The bank is the stated one if the request
states one (`BankOf`). `Priced` is `sellPrices` with
`marketFor`, `PairMoves` `pairMoves`, `AdviseChips` `adviseChips`. What FPL, the import and the price
history bring is named in `StoreAssumption` and `ImportedAssumption`: finitely many players, each of one
position and at prices that are numbers, and imported squads with as many of each position as the rules say.

### Backfill — the statistics and the scoring that reads them

`pnpm sync:fpl -- --full` beside `pnpm score:gameweek`. The statistics of one player in one fixture are
the number of times upstream has settled them: 0 before the match, `Final` once the gameweek is
`data_checked`, after which upstream edits them no more (`Settle`, `DataChecked`; this is the
meaning `served-scoring.service.ts` gives the flag).

| Code | Model |
|---|---|
| `players`, `fixtures`, the flag `dataChecked` in `gameweeks` | `players`, `fixtures`, `checked`, which `RunIncremental` brings in one step (`FplSync` is the detailed model; the fixtures may fail alone) |
| `player_gameweek_stats`, `player_season_history` | `stats`, `past` |
| `sync_runs` of the backfill | `runs`; `known` and `since` of a row are there for the properties |
| the locals of `runFull` | `pc`, `run` |
| `startRun`, `playerIdByFplId`, `fixtureIdByFplId` and the test for an empty database, the slice of the next players, each answer of `Promise.all`, `upsertGameweekStats`, `upsertSeasonHistory`, `finishRun` | `StartRun`, `ReadPlayers`, `ReadFixtures`, `TakeBatch`, `Answer`, `WriteStats`, `WriteSeasons`, `Finish` |
| the catch block; a throw inside it, or the process's death | `Fail`; `Abandon` |
| `score`: the gameweeks and flags, read once; one turn of its loop | `ReadGameweeks`; `ScoreOne` |

A batch holds at most `backfillConcurrency` players, whose rows fit one chunk of the repository and
therefore one transaction. One backfill runs at a time. Of the report the model keeps which
gameweeks are in it; the errors it prints are arithmetic.

### SeasonSim — a season under the rules

`PlayRound` is one turn of the loop of `simulateSeason`: decide, pay, buy, line up, score, chip, grant.
`GreedyOneFt`, `PlannerPolicy` and the empty set are its three policies; `HoldRound` is a round of
`decideOverSeason`, `ReplayRound` of `replaySeason`, over squads nobody trades. `ByRound` is the map
`decision.service.ts` builds: a row per player, the last of his matches, of the rows every predictor
has a number for. `known` carries the price of a player without a row, `seen` his last forecast. What a
round brings is the environment's choice among the `Markets` of the configuration.

### WalkForward and Forecast — the walk

A number is abstracted to *the rows it was taken over*, a decayed one to the rows with how often each
was decayed; counts of starts keep their values, because they are subtracted from one another. The
actions are the phases of `walkForward`: `BeginRound` (with the season's turn), `Yield`, the consumers'
`Project` (`runBacktest`) and `Export` (`exportFeatures`), `FoldRound`, `FinishBacktest`. `Forecast` extends it
with the served use: the fixtures of a gameweek become rows with every stat at zero
(`SyntheticRowsFor`), appended to the history, and are scored when the walk reaches them (`Serve`), with
the flags and `ep_next` the database gives (`AvailabilityByCode`, `EpNextByCode`). The properties compare
each number with its definition from the history alone (section *What the features should be*).

### RollingOrigin — the referee

A season is three blocks of rounds. A window is searched among one, two and three seasons and all, each with every half-life (`FitFold`). `History` reads and refuses an archive of the wrong shape,
`PlanFolds` and `SplitOf` are `planFolds` and `splitForFold`, `NoLeak` `assertNoLeak`; `FitFold` fits,
`ChooseKnob` makes the choices of `runFold` in its order, `Arm` assembles the other arm of each
comparison, `Write` the report. A fit is what it was given (`FitOf`), and `RestsOn` the blocks whose
outcomes it has seen: measured totals, the searches on the validation rows, the dispersion.
`ParamsOf` keeps apart the fit the minutes curves are of and the fit the rest is of, because
`restOfMinutes` mixes two.

### Archive — imports and captures

Two importers: read two files, each through the cache (`ReadFile`), check (`RowsToWrite`: duplicates, rows of
no player, starts that cannot be true, points the engine does not reproduce), then delete and insert in
one transaction (`Delete`, `Commit`; what other connections see is in `WhileReplaced`), dying anywhere.
Captures: the index lists some, an ingest fetches the last one and then those it needs; `CapturesOf` takes
for each round the last capture before its deadline, `Fresh` and `JoinedEpNext` are the reader's join.

### MC modules and proofs

Each `MC<Module>` gives the constants of its module values for TLC (`MCWalkForward` those of `Forecast`).
`FplSync_proofs` (with the refinement of `SyncMirror`), `Projections_proofs`, `Manager_proofs` (`ManagerSeason`,
`SquadImport`), `History_proofs` (`Backfill`, `Archive`, `WalkForward`, `Forecast`), `Planner_proofs`,
`SeasonSim_proofs` and `RollingOrigin_proofs` hold the theorems; `Counting` the lemmas on numbers, sums and
rankings that several of them rest on.
Definitions marked `MUTANT of X` or introduced as a slip are the bugs each property is tested with: with
`X` replaced by one of them TLC reports the property violated.

## 3. The runs

Runs that must pass:

| Run | Configuration | What it shows |
|---|---|---|
| `sync_serial` | `MCFplSync.cfg` | Passes that take turns, payloads that only move forward, failures and deaths at every await: the bootstrap implements `SyncMirror` (`ImplementsMirror`), a skip is a no-op (`BootstrapSkipIsNoOp`, with its inductive invariant `SerialInv`), a history never repeats a value, a run that succeeded inside the window has left its snapshot, a snapshot is replaced only by a later run that began before the deadline, and there is no fixture without its parents. 3.2 million states. |
| `hourly_projections` | `MCProjections.cfg` | Two invocations of the hourly job and a `pnpm project`, each query and each upsert a step, beside syncs by hand, errors and restarts: the flag is up exactly while one job runs (`LockIsHeld`) and always comes down (`LockIsReleased`); runs that do not overlap replace no row by one that rests on anything older (`NoOlderOverwrite`); a candidate's row has a served one beside it, unless a sync brought the player in between (`CandidatesFollow`); a run that reaches the candidates has left a served row of its own for whoever plays in the horizon (`ServedTableIsWhole`). 1.1 million states. |
| `backfill` | `MCBackfill.cfg` | Two backfills one after the other, failing and dying anywhere, beside incremental syncs, upstream's corrections and the scorer: a run recorded as `success` brought every row as far as upstream was when it began, and later failed or partial runs do not undo it; a scored gameweek is one that upstream edits no more, and is scored on final rows if a successful backfill began after that. 3.5 million states. |
| `manager_record` | `MCManagerSeason.cfg` | Every season of four gameweeks, two players, two prices: the replayed count is FPL's count, a reconstructed price is what was paid or unknown, selling keeps half of a rise. 373 thousand states. |
| `squad_import` | `MCSquadImport.cfg` | Two imports at once, two gameweeks whose deadlines pass and are put off at any moment, a player listed late, calls that fail in every way: whole squads only, the right error, always an answer and after two calls to FPL at most (`ImportIsAnswered`), from the store no gameweek before the one FPL named when the user asked (`CachedIsCurrent`). 570 thousand states. |
| `planner` | `MCPlanner.cfg` | Eleven players, squads of seven, two forecasts, prices that move, a player added and one removed: whatever the store does between the awaits, the plan leads to a legal fifteen, is paid for at sell value, and is worth no less to the solver than holding. 6 200 states, each a solve by enumeration. |
| `season_sim` | `MCSeasonSim.cfg` | Five arms over every sequence of four gameweeks out of four markets: shape, money, hits, substitutions, ceiling. 1 100 states. |
| `walk_forward` | `MCWalkForward.cfg` | Twenty-four histories of three seasons under two parameter sets, walked as a backtest, as an export and as a served forecast: the features and the strength of a round rest on exactly what came before, every row is scored or refused, both consumers see one population, and a served forecast rests on real rows and on the flags of its gameweek. 20 thousand states. |
| `rolling_origin` | `MCRollingOrigin.cfg` | Whole and faulty archives of two to four seasons under the corners of the options: nothing of a fold rests on what it is scored on, comparisons differ in what they name, no arm is fitted on nothing. 712 thousand states. |
| `archive` | `MCArchive.cfg` | Two importers of three publications, and the ingests over every set of captures the index may list: the table is one import's rows or the previous one's, and what is joined was captured before the true deadline. 1.6 million states. |

Runs that must end in a violation, each of one sentence of the code:

| Run | Sentence | What happens |
|---|---|---|
| `skip_fixtures` (`MCSkipFixtures.cfg`) | "the upserts would be no-ops anyway" (`svc`:33) | Fixtures that were passed over because their teams were unknown are not retried: the pass recorded its hash as good, and when the teams have been stored by a later bootstrap the same payload is still skipped. |
| `moved_fixture` (`MCMoved.cfg`) | "Absent (a player with no row for the next gameweek — a blank)" (`optimizer.service.ts`:323) | A fixture moves from one gameweek to another between two runs. The second has no row for the player in the first, and the row of the first run stays: the optimizer reads points for a gameweek in which he blanks. |

Neither needs fairness; both are finite traces of a safety property.

### Divergences met

Modelling the code turned up further places where it does not do what a comment beside it says. For
those in this table the module states the sentence as a property, under *what is said and does not hold*, and
TLC finds its violation with the configuration given (`tlc -config MCBank.cfg MCPlanner`); they are
not among the runs of `PROJECT.json`.

| Configuration, property | Sentence | What happens |
|---|---|---|
| `MCWholePercent.cfg` of `MCFplSync`, `OwnershipRecordsChanges` | "Append an ownership row per player only where any tracked value changed" (`rep`:336) | `Decimal.toString()` gives "12" where upstream sends "12.0" (`rep`:366): a whole-number percentage gets a row on every pass that is not skipped, and replaying a pass over its own payload would append it again. `HistoryRecordsChanges` therefore excepts it by name, and the word no-op in `BootstrapSkipIsNoOp` is of values. |
| `MCFreshest.cfg` of `MCProjections`, `FinalWriteIsFreshest` | "the final pre-deadline write is the freshest availability" (`sync.scheduler.ts`:16) | `pnpm project` does not see the lock: a run by hand that read before a sync may write after the hourly run that read it. |
| `MCOpen.cfg` of `MCProjections`, `WrittenWhileOpen` | "the record of what the model said while the decision was still open" (`projections.repository.ts`:43) | The horizon is read once (`projections.service.ts`:110); its rows may be written after the deadline. |
| `MCStaleScore.cfg` of `MCBackfill`, `GradedOnFinalRows` | "scoring on it would grade the model against numbers FPL is still editing" (`served-scoring.service.ts`:236) | The gate looks at the gameweek's flag (:127) and not at the rows, which may be those of a backfill from before the corrections; hence the condition in `ScoredWhenSettled`. |
| `MCAnyOrder.cfg` of `MCManagerSeason`, `AnyOrderWillDo` | "in any order — this function sorts" (`entry-state.ts`:56) | It sorts by gameweek alone: of a player bought twice in one, the order FPL lists them in decides which price is taken for the current one. |
| `MCForward.cfg` of `MCSquadImport`, `CachedIsCurrent` | "the check never produces a wrong squad, only sometimes no answer" (`squad.repository.ts`:107) | When FPL has brought a deadline forward since the last sync, the store still takes the gameweek before for the latest readable. `CachedIsCurrent` is checked and proved for deadlines that are only put off. |
| `MCBank.cfg` of `MCPlanner`, `BankIsNeverNegative` | "so the default is never negative" (`transfers.service.ts`:236–238) | A built squad is validated at one await and priced at another; a rise between them leaves a bank below zero. `NeverWorseThanHolding` supposes a bank of at least nothing. |
| `MCRemoved.cfg` of `MCPlanner`, `RemovedKeepsHisPlace` | "carried at zero EP and their own market price rather than dropped" (`transfers.service.ts`:294–296) | The next statement is `continue`: he is dropped, the program buys for his place, and the purchase has nobody to be paired with, so that the moves shown do not lead to the squad that is promised. `Whole` in the properties. |
| `MCBlanks.cfg` of `MCSeasonSim`, `WhoBlanksDidNotPlay` | "A player whose club DID play and who has no row was dropped or unused" (`season-sim.ts`:470) | `commonRows` (`decision.service.ts`:143) drops a match for which one predictor has no number; a player who played ninety minutes is scored with none. |
| `MCYearOut.cfg` of `MCWalkForward`, `YearOutIsVisible` | "Null when the player has no previous season in the walked rows"; the gap is there "so a year out of the league is visible" (`features.ts`:155, :162) | `lastSeason.clear()` (:383) keeps the season just ended only: a player who missed it has a null prior though he has earlier rows, and no gap but 1 is seen unless the archive lacks a season. `FeaturesAreOfThePast` follows the code here (`PriorIs`). |

Others have no property; the models follow the code.

- Sync. A forced snapshot over an unchanged payload captures nothing, because the skip returns first
  (`svc`:85, :361 against :64). A live payload is never captured again, although a later run is said to
  overwrite it (`rep`:283 against :278). A run by hand and the hourly one may leave older rows under the
  newer payload's hash (`rep`:533): hence `~Overlap` in the theorems. A backfilled row of a fixture or player that is
  not stored is passed over while the run is a `success` (`rep`:399): `SuccessIsComplete` is of the rows whose
  fixture was stored.
- Projections. The schema calls the table append-only and says "NEVER overwrite a projection"
  (`prisma/schema.prisma`:280); `writeProjections` upserts, so every later run before the deadline overwrites
  (`projections.repository.ts`:77), which is what `sync.scheduler.ts`:16 counts on. The model and its properties
  follow the code: `NoOlderOverwrite` says which overwriting may happen, not that there is none.
- Scoring. The misses are described against the alphabetically last version (`served-scoring.service.ts`:197).
- Planner. A plan starts from the squad imported last, which may be another gameweek's or a finished free
  hit's (`transfers.service.ts`:159). "Negative is impossible" (:112) is true of the solver's objective and not of `netGainEp`.
  "Never in an optimal squad" (`optimizer.service.ts`:27) is not so of the pruned players when club
  limits and the budget bind. "unknown must never be read as available" (`model-v2.ts`:503) is how a player without a
  flag is read in the backtest (`harness.ts`:264), and the two readings of availability disagree on an injured
  player with a chance (`model-v2.ts`:534–541, :559).
- Simulator. Of a double gameweek `byRound` keeps the last row, so a player who played the first match only has no
  minutes (`decision.service.ts`:155–160). A triple captain is "priced against what the model SAID before the round" (`season-sim.ts`:482),
  but on the projection of the player who turned out to wear the armband (:493), which is the vice-captain
  when the captain stayed at home.
- Walk and export. A fixture one side of which has rows counts as a match of strength without goals
  (`strength.ts`:185 against :159–161). Expected goals that were not recorded enter as zero (`feature-export.ts`:330
  against :279–281). A later round is discounted by its place among the rounds that have rows, not by how far
  off it is (`harness.ts`:372 against :134). `priorSeasonStartRate` divides by all matches, not by those with a
  label (`features.ts`:745 against :188–196).
- Referee. Imputed starts are calibrated on every labelled season, the evaluated one included
  (`calibration.repository.ts`:59): hence `~run.imputed` in `NothingOfTheFold`. The pairing of `rates` is with the
  first fit and differs in every choice made since; only the labels of `Controlled` are held to differ in what
  they name. The unflagged-base arm may have no row to fit on (`fit.ts`:698). A selected tau of none leaves the
  given one in force (`rolling-origin.service.ts`:284–295). The report's name does not tell its window (:913). Two runs
  of the replay report may lose one another's half (`xi-replay.service.ts`:220), and the projection-count guards
  (`decision.service.ts`:329, `calibration.service.ts`:228) look before the run that follows.
- Archive. The row count is compared after the commit (`archive.repository.ts`:114) while the message says it rolled
  back. A cached file is served for ever (`archive.service.ts`:419–428), so a season may be of two publications.
  A manager's row is known by "AM" in one place and "MNG" in another (`archive.service.ts`:171,
  `archive.mappers.ts`:150, :175). When the index fails, the market's ingest takes what the cache holds for all there is
  (`wayback-availability.service.ts`:257–261).

### Bounds

- `MaxRev = 2`: the skip compares a payload with the last good one, so "same" and "another" is all it
  can tell. The theorems cover any number. `MaxRuns = 4` rows make two complete passes, the first of
  which may fail at any point; a third pass adds nothing that the second cannot do, and the proofs
  again cover every number.
- `Deadline = <<1, 3>>`, `Window = 1`, `MaxTime = 2` for the sync: before the window, inside it, at and
  after the first deadline, inside the second's window. For projections `Window = 1`, `MaxTime = 1`:
  inside the first deadline's window and past it, with the second gameweek open throughout, so that a run may
  begin with a horizon whose first gameweek closes under it.
- `ExternalMovesAtReads` (in `MCFplSync`, an action constraint of `sync_serial`): the clock moves only
  where a pass is about to start or to fetch, an endpoint's payload only where it is about to be
  fetched, and the live payloads only at the bootstrap fetch. With one pass at a time, a move
  elsewhere commutes with the steps of the pass up to the next such point, because they do not read
  what it changes; of the properties only `SerialInv` and `ImplementsMirror` look at upstream's value, and
  only as a bound on the payloads stored, which is weaker later. The violation run and the proofs do not
  use it.
- `MaxInputs = 2`, two gameweeks, two players, two versions (served and candidate): the second state of the
  database brings a player and moves the fixture of the other, so that a row is older, newer or a mixture, and
  stays or comes; an error falls before, within and after a version. `ClockMovesWhereRead` lets the clock move only
  where a run reads it, and `FirstFreeTakesTheTick` gives the cron's tick to the first invocation that is
  free, in the place of a symmetry, which liveness would not admit; the proofs use neither.
- The manager's season: `MaxPrice = 2` gives a rise of one tenth, the one where rounding shows;
  `SellsAtHalfTheRise` covers all others. `Cap = 2` is reached and passed in four gameweeks;
  `MaxMoves = 2` allows selling and buying back inside one gameweek. One player is held and one is
  not; fifteen players differ only in how many of these histories run beside each other.
- Backfill: three players at two at a time are a full batch and a part of one; the two fixtures are a
  double gameweek; `Final = 2` distinguishes no statistics, provisional and final ones; `MaxRuns = 2`
  lets a failed or partial run follow a successful one, and the reverse. Players are symmetric, and
  only safety is checked.
- Import: two requests are what can race over one row; two gameweeks are one that is cached and one that
  is not; one late player is one the sync has to bring; `MaxTime = 3` passes both deadlines and leaves one that
  can be put off. The proofs cover any number of each, and any number of attempts.
- Planner and season: squads of seven and elevens of five and four keep all that the rules distinguish —
  one keeper of two, a line with a minimum and a maximum, a bench in order, a club limit and a budget that
  bind — at a size where the optima can be enumerated. `MCPlanner` says what each row is there for: a price
  that rises, one that was never known, a player below the appearance floor, one unsynced, one leaving. In
  `MCSeasonSim` four markets in any order are a captain who stays at home, a player without a row, a
  club without a fixture and a round in which the forecasts are wrong; `FreeTransferCap = 2` is reached.
- Walk: two clubs and three players, one of whom changes club, comes late and is unnamed once; three
  seasons, since a prior is of the season before and a fault there needs one before that, and one player
  misses the second; double and blank
  gameweeks, seasons read out of order; windows of two to four rounds that the seasons overrun. Two parameter
  sets switch every option at least once each way. Both calls, with and without a snapshot, ask about a
  double gameweek and the one after it.
- Referee: four seasons whose columns start in different ones are the smallest archive in which each kind of
  defensive source occurs (absent, within the season, from prior ones). The options are taken at their
  corners, all comparisons on.
- Archive: three publications, of which the second takes a match away and the third fails a check; five captures
  around two deadlines, one of which is brought forward; at most three ingests, so that one may fail and leave
  its cache to another.
- `CHECK_DEADLOCK FALSE` stands where a bound or the input ends the behaviour: no rows left for another run
  (`MCFplSync`, `MCSkipFixtures`), the last gameweek (`MCManagerSeason`, `MCSeasonSim`, `MCBlanks`), the end of the
  history (`MCWalkForward`), the report written or the archive refused (`MCRollingOrigin`), the last ingest
  (`MCArchive`). The projection runs, the backfill, the import and the planner are checked for deadlock.

### Fairness

`Projections` and `SquadImport` have liveness. `Fairness` of the first is weak fairness of `Proceed(p)` for the hourly
invocations: whatever such a job awaits is answered or throws, because the upstream client gives up after its timeout and
last attempt and a transaction after 120 s. Nothing is assumed of the clock, of the cron firing, of
runs by hand, or of an await succeeding: `Throw` is one of the ways to proceed. `Fairness` of the second
is weak fairness of a request's own steps, for the same reason: one attempt, which answers or fails.
That FPL ever publishes the picks is not assumed; the request is answered without.

## 4. What is proved

Every invariant and action property of a passing run is a theorem; what is left to TLC alone is at the end of
this section. All proofs are for any constants that satisfy the modules' named assumptions, which TLC
evaluates on every run. What a theorem assumes besides is in its `ASSUME`. The assumptions say what the code
takes for granted:

| Assumption | What it says | Why |
|---|---|---|
| `SyncAssumption`, `ProjectionsAssumption`, `BackfillAssumption`, `ImportAssumption`, `ManagerAssumption`, `PlannerAssumption` | Bounds are numbers, sets of players and gameweeks are finite | types of the code and of the store |
| `StoreAssumption`, `ImportedAssumption` | finitely many players, each of one position and at prices that are numbers; imported squads of the rules' shape | columns of the store; FPL enforces the shape |
| `RulesAssumption` | the rules' minima are no larger than their maxima, there is one keeper, an eleven has more than one player, and the quotas leave one | the code throws where no formation exists, and names a captain and a vice-captain |
| `SeasonAssumption`, `RowsAssumption` | rows are typed; a player with no minutes scored no points or fewer | who does not come on cannot earn; he can be booked. `WithinCeiling` needs it: the ceiling's armband is only given to a player who played |
| `ArchiveAssumption`, `PublicationsOverlap` | any two publications of a season that can be imported have a player's match in common | a season's files are corrected or added to. It is the unique index on that key which refuses the second of two importers; two publications without a common row could end up mixed |
| `RecordsStand` | once every event of a capture is finished, later captures list the same deadlines | the reader's comment: by June they are history, not plan |
| `WalkAssumption`, `HistoriesAssumption` | a row per player and fixture (`WellFormed`), no more matches in a form window than it has room for, no opponent twice in a gameweek at the same ground (`FacedOnce`) | the archive's unique key; `features.ts` and `harness.ts` say the other two |
| `CallsAssumption` | a forecast is of a gameweek the database knows; archive fixtures are numbered below the synthetic ones; with the synthetic rows a history is still well formed | how `syntheticRowsFor` numbers them |
| `ValuesAssumption`, `ArchivesAssumption`, `RunsAssumption` | an archive holds some counted seasons; options come from the candidates | types of the code |

### The sync (`FplSync_proofs`)

- `TypeCorrect`: `TypeOK` and `ControlOK` together. Types alone are not inductive: that
  `runs[job[p].run]` exists, belongs to the pass and is `running`, and that cursors stay in their lists, is
  `ControlOK`, and each active process must own another row than its neighbours for `finishRun` of one to
  leave it true of the others.
- `ParentsFirst`: no fixture row without teams and gameweek, in every interleaving. It needs that a
  process past `ResolveTeams` with `known` set has found teams, which are never deleted.
- `HistoryRecordsChangesOnly`, `DueSnapshotAlwaysKept`, `SnapshotMovesForwardAlways`, for passes that take turns
  (`~Overlap`), with payloads that may come back. Their invariant is `Solo` (one process is active, on the newest
  row), `HistoryInv` and `SnapshotInv`. A history stays append-on-change, whole-number percentages of ownership excepted, because no row is of a run newer than the
  pass and none is yet of this one where it has still to append, so that what `ReadLatest` saw is still the
  latest when it appends. A due snapshot is kept because a pass past `DecideSnapshot` has stamped the chunks
  behind its cursor with its own run (`SnapshotProgress`), and a pass that succeeds has none left before it.
- `SerialInvariant` and `BootstrapSkip`, for passes that take turns and payloads that do not come back
  (`~MayRevert`). With two passes at once, an older one may write its rows after a newer one was recorded as
  good; with payloads that come back, a pass that fails half way leaves rows of a payload between two good hashes
  of an older one. `SerialInv` says: one pass at a time, its row the newest; nothing stored or recorded is
  newer than the upstream; how far the pass has come determines which parts and histories hold its payload
  (`BootstrapProgress`); and the last good hash's payload is still what is stored unless a newer one has begun to
  replace it (`CleanOrSuperseded`), in which case the upstream cannot serve the old one again. At the
  skip, `NothingNewerThan` excludes the second case, so every upsert would be a no-op.
- `MirrorImplemented`: every step of `FplSync` is a step of `SyncMirror` or a stutter, from `SerialInv`. The argument
  is about the last good row of `sync_runs`: appending a `running` row, or finishing one as `failed`, leaves it what
  it was (`GoodAfterStart`, `GoodAfterFail`); finishing a pass moves it to the new payload, and
  `BootstrapProgress` gives that every table holds it. A skip is the case that needs the skip theorem.
- `SkipIsSoundAlways`: so the sync keeps the mirror's promise. On the side of `SyncMirror` this needs `Between`, that
  no table is ahead of upstream or behind what was recorded of it.

### The projections (`Projections_proofs`)

The invariant is `TypeOK`, `LockIsHeld`, `NoneAhead` (no row and no read is ahead of the database), `Apart` (of two runs
that compute at once, each is marked as overlapped) and `Good(p)` of every run: how
far it has come determines what it has read, in which order, what it has still to write and what of its own
is in the table.

- `ProjectionsTyped`, `HourlyLock`: types, and mutual exclusion of the hourly job beside any runs by hand.
- `ServedComesFirst`: a run past the served version has left a served row for every player and gameweek it read as
  playing, so a candidate's row without one is of a player who came in between the run's start and its read.
- `NoOlderOverwriteEver`, `ServedTableIsWholeAlways`: action properties, of runs that nobody overlapped. All of the
  rows such a run meets were written by runs that had ended before it read its horizon, from states no newer than
  that; and its own rows stay until it goes on. The second theorem says exactly which rows may be another run's
  or missing: those of a player who, in a state the run saw, had no fixture in the gameweek or no id. It does
  not say that a stale row is gone, because it is not (`moved_fixture`).

### What is known of a manager (`Manager_proofs`)

- `SellsAtHalfTheRise` (a fact of `sellValueOf` over all prices) and `SellKeepsHalfAlways`: the latter needs that every
  player held has a purchase price, in the present squad and in the one a free hit gives back.
- `SeasonTyped` and `PricesNeverWrongAlways`: over any order of buying, selling, buying back and chips. `PriceInv` says
  that the log is in the order of its gameweeks, newest first (`LogInv`); that for each player held, the newest
  purchase in the log, or what he cost at the start when there is none, is what was paid, unless he was
  bought during a free hit (`Known`, `Tainted`); and the same of the squad an active free hit gives back, which
  is what makes `PassDeadline` go through.
- `FreeTransfersAlwaysExact`: over a season of any length. `CountInv` names the whole sequence of counts that the
  replay runs through (`Counts`), of which FPL's count is the last, less this gameweek's transfers; a
  longer record replays to a longer sequence with the same beginning.
- `ImportTyped`, `StoredSquadsAreWholeAlways`, `ErrorsNameTheirCauseAlways`, `CachedIsCurrentAlways`, `UserAsksTwiceAlways`: for any number of
  requests, gameweeks and attempts. The invariant has what a request in flight knows (`Known`: one past the entry
  knows that the manager exists and asks for a gameweek he has entered), and what was named when it came in. The
  fourth is for deadlines that are only put off (`ASSUME ~Forward`): then a stored deadline is never later than the true
  one, so the latest readable gameweek by the store is no earlier than the last that has truly passed, and two queries
  with anything between them give no older a squad. The fifth assumes the one attempt of `onDemand` and counts the calls.

### The backfill (`History_proofs`)

- `BackfillTyped`, `SuccessIsCompleteAlways`, `ScoredWhenSettledAlways`. The second needs `CompleteInv`: no row and no
  answer is ahead of upstream (`NotAhead`), the answers of a batch are at least as new as the run
  (`AnswersFit`), the players neither left, in the batch nor missed are already written (`Progress`), and an
  active run has the newest row (`HasRow`). The third needs besides it `FlagsInv`: a flag that is stored or
  was read is one that upstream has set.

### The archive (`History_proofs`)

- `JoinedWasKnowableAlways`: for any calendar of captures, deadlines and ingests. `CapturesInv` says that what an
  ingest has written was captured before the true deadline of its round: an ingest goes by the deadlines of the last
  capture it knows, which is a record, and a record stands (`RecordsStand`).
- `SeasonIsReplacedWholeAlways`: for any number of importers that overlap, die and read whatever is published.
  `ImportsInv` says that an importer holds the rows of the two files it read and nothing else, and that the table,
  and what an open transaction has deleted of it, are one such set or empty. An importer that deleted a table
  which another has since replaced meets the other's rows at the unique index and fails.

### The walk, and what is served from it (`History_proofs`)

For histories of any length, any number of seasons and players, and any parameters. The code keeps running
accumulators; the invariant gives each its definition from the history.

- `WalkKeepsThePast` is the invariant of both consumers, `WalkInv`. The accumulators of the career and of the season list
  the rows folded, each once (`AccInv`), the season's in the order of the rounds, so that the last entries of a player
  are his window; last season's accumulator and the priors are of the last season that was walked
  (`LastInv`); a decayed number counts each row by the rounds since (`AgeInv`); and what was yielded is of the
  clock's round (`ContextInv`). A season's turn is the delicate step: it moves an accumulator and empties another.
- `FeaturesAreOfThePastAlways` and `StrengthIsOfThisSeasonAlways` follow from it. The first has a lemma
  for each kind of number (`FormFollows`, `RatesFollow`, `StartFollows`, `PriorFollows`; of substitutions, behaviour and appearances `RecordsFollow`); for starts, which are
  *subtracted* (career less season), it needs that the season's rows are among the career's and counted once
  (`CountOfTheRest`).
- `EveryRowIsAccountedForAlways`: `EmittedInv` says that what was emitted lists exactly the rows gone through that can be
  scored, that as many were refused as could not be, and that the rows written at the end are sorted.
- `ExportFollowsTheWalkAlways`: `ExportInv` ties the export's own memory of clubs' matches (`Windows`) to the walk's:
  no fixture twice although every player's row brings it again, as many as the cap allows, empty again when a
  season turns.
- `ServesThePast` (`ServingInv`), `ServedOnRealHistoryAlways`, `ServedFlagsAreOfTheGameweekAlways`: a served forecast has one
  part for each of the player's fixtures in the gameweek (`PartsInv`), of rates that rest on rows of the archive,
  never on a synthetic one; players whom the flags of the gameweek rule out have none; and the blend's market is
  of players with an `ep_next` of that gameweek. That the synthetic rows are folded by the walk after they are
  served, and still reach no number, is what makes the walk's invariant necessary here.

### The planner (`Planner_proofs`)

`PlanInvariant`: whatever the jobs do to the store between two reads, a request that has a plan holds one of the
solver's optima *for the candidates it read* (`SolvedInv`), which agree with the facts and give what selling
each returns (`Known`), over a squad of the rules' shape (`HeldInv`). The store's present prices do not
occur in it, which is why no job can disturb it. Three theorems follow by lemmas about the program alone:

- `PlanIsLegalAlways`: `FifteenHasItsShape`, `FifteenKeepsTheClubs` and `ElevenIsLegal` say what the rows of the
  program mean, `CountedByPosition` adds the positions up to the size of a squad, and `PairedMoves` that
  `pairMoves` leaves nobody out: within a position as many leave as arrive, and the ranks of a finite set are a
  numbering of it (`RanksAreAll`).
- `PlanIsAlwaysAffordable`: the budget row counts those kept at what selling them would return, on both sides; what
  is left is the moves. A departure without an arrival can only make a plan cheaper, so a squad that lost a
  player from the universe is covered.
- `NeverWorseThanHoldingEver`: a legal squad held is in reach of its own program at no hits (`HoldingIsInReach`), and
  the solver's value is at least that of everything in reach (`OptimumOf`).

### The simulated season (`SeasonSim_proofs`)

`SquadKeepsItsShapeAlways`, `TransfersMakeNoMoneyEver`, `ExtraTransfersAlwaysPaid`, for every market, policy and length of
season. `SeasonInv` is inductive over a round: the squad has the rules' shape and is of players with a position,
every one of them has a price paid and a price last seen, the bank is a natural number, and transfers
made, paid for and granted balance. The step is in three parts: what a policy decides is lawful — pairs of one
position, out of the squad and into it, within the bank (`PoliciesAreLawful`, from `GreedyIsLawful` and from
`PlannerIsLawful`, where the program's budget row and the pairing of sales with purchases come in); lawful moves keep shape
and money (`MovesMade`); and the rest of a round touches neither (`RoundPlayed`).

`SubstitutionsAreCompleteAlways` and `WithinCeilingAlways` are about the round last recorded, which is of a lineup of the
squad held (`RecordInv`): for the policies because each formation's eleven is of the best of each position and the
bench is the rest (`ChosenLineup`), for the held squad because the solver's rows say so (`SolverLineup`).

- Substitutions. `PlayedInv` goes over the starters in order: after i of them the eleven is legal, those who left
  had no minutes and those who came on had some, and none of the first i who stayed without minutes can be
  replaced by anybody left on the bench. The last is the point, because the code looks at each starter once:
  it holds because a later swap never opens an earlier one (`StaysIllegal`), whatever it does to the formation.
- The ceiling. What ends on the pitch has the shape of some formation (`LegalHasAFormation`), the ceiling's eleven of
  that shape takes the first of each position in the order of the points, and the first n of a ranking outweigh any n
  (`TheFirstOutweigh`). The armband is matched too: whoever played and was doubled has no more points than
  someone in that eleven who played (`BestOfItsShape`). Here the assumption on players without minutes is needed.

### The referee (`RollingOrigin_proofs`)

`NothingOfTheFoldEver`, `PairingsAlwaysControlled`, `EveryArmAlwaysFitted`, for every archive, every run's options and every
outcome of the choices. `RefereeInv`: the fold in progress was planned, not refused, and passed `assertNoLeak`
(`FoldIsSplit`); what it has looked at is of its training seasons or of the part of the season the
defensive category is fitted on (`SeenIsTraining`); its window keeps the last training season, and the arm being scored
differs from the first fit by the start rate of its minutes and what was chosen beside the fit, and in
nothing else (`FoldIsFitted`). The last two are what the comparisons rest on: every other arm is the first
fit, a refit, or the arm scored with one thing put back. The window matters to `EveryArmAlwaysFitted`: the
refusal is decided over all training seasons, while a narrower window keeps the last ones only.

### Lemmas about data

The library's induction theorems take an operator as a parameter and cannot be used. The proofs argue by a
least counterexample instead (`LeastNat`, from the well-foundedness of the naturals), which gives induction over
naturals and over finite sets for one *set* of counterexamples at a time (`NatInd`, `FinInd`). From these come
that the recursion of the community modules' folds has a solution (`SumsExist`) and only one (`SumsAgree`), hence what a
sum over a finite set is (`SumStep`, `SumTake`, `SumAdd`, `SumSplit`); that ranks number a finite set (`RankIsTaken`,
`RanksOfAnOrder`, `RanksAreAll`); and that the first of a ranking outweigh others (`Outweighs`, `TheFirstOutweigh`). They
are in `Counting`. What the replay of a record computes, and what lists keep of what is picked from them, is
proved where it is used.

### Only model-checked

`LockIsReleased` and `ImportIsAnswered`: liveness under fairness, and the enabledness it rests on, are out of the
prover's reach; of `ImportIsAnswered` the half that is safety is proved. So are the sentences that do not
hold, which are about single behaviours.

## 5. Not modelled

- The mappers: two payloads differ iff their hashes do, which is all the control depends on.
- The arithmetic of the forecast (distributions, points, bonus ranks, the search inside a fit, metrics and
  intervals): floating point. The models keep which rows each number rests on.
- HiGHS: the programs are the sets of their optima. That its optimum is one is assumed.
- The read API, logging, DTOs and the text of reports and caveats: queries and wording without state.
- `runLive`, which only rejects; the spacing of requests and the length of a backoff, which are time
  without effect on the result.
- Two full backfills at once (`rep`:427): with two, `SuccessIsComplete` needs the order of their requests in
  the rows, which keep none.
- Stored optimizer runs, and the wording of chip advice beyond the wildcard's comparison.
