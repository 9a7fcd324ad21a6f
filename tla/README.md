# Specifications of Deuce Point (tennis-wiki)

TLA+ modules that model the stateful parts of the repository, TLC runs that check them on
small instances, and TLAPS proofs for instances of any size. Paths are relative to the
repository root. Every definition that stands for code is listed, with the lines it stands
for, in `PROJECT.json` under `map`.

1. [The system](#1-the-system)
2. [What is hard about it](#2-what-is-hard-about-it)
3. [The modules](#3-the-modules)
4. [The ingest pipeline](#4-the-ingest-pipeline)
5. [The read cache](#5-the-read-cache)
6. [The rate limiter](#6-the-rate-limiter)
7. [Identity](#7-identity)
8. [A load](#8-a-load)
9. [The read API](#9-the-read-api)
10. [Proofs](#10-proofs)
11. [Where code and documentation disagree](#11-where-code-and-documentation-disagree)
12. [Not modelled](#12-not-modelled)
13. [Plan](#13-plan)

## 1. The system

Deuce Point ingests tennis results published as CSV files, keeps them in Postgres, computes
ratings and aggregates from them, and serves them through a JSON API with a Redis read cache
and a React client.

| Part | Code | State it keeps | Operations | Talks to |
|---|---|---|---|---|
| Match ingest pipeline | `internal/ingest/{pipeline,ledger,reader,source}.go` | one channel of chunks, one ledger (`ingest_files`), tallies of a run | `Run`: plan, feed, read, batch, write, record | mirrors over HTTP or a local clone; match store |
| Match store | `internal/ingest/{store,row,classify,slug}.go` | `players`, `tournaments`, `matches`, `match_players`, `ingest_runs` | `WriteBatch`, `StartRun`, `FinishRun` | Postgres, one transaction a batch |
| Derived tables | `internal/ingest/store_{clutch,serve,totals,reference}.go` | clutch and serve baselines, player totals, prominence | `Refresh*`, after the stages | Postgres |
| Prune | `internal/ingest/prune.go` | - | repairs rows, deletes fused matches, makes the ledger forget their files | Postgres |
| Reference loader | `internal/ingest/reference*.go` | rankings, bios, unresolved references | player tables, then rankings | mirrors, Postgres |
| Charting loader | `internal/charting` | charted statistics | two files read together, resolved, written a year at a time | mirrors, Postgres |
| Identity | `internal/identity`, `configs/player_overrides.json` | aliases, reviews, slugs | score pairs, `Merge`, `Queue`, `ReclaimFreedSlugs` | Postgres |
| Events | `internal/events` | events and their slugs | resolve, write | Postgres |
| Ratings | `internal/rating`, `cmd/rate` | `ratings` | replay all matches in order, replace the table | Postgres, cache |
| Commands | `cmd/ingest`, `cmd/rate`, `cmd/ongoing` | - | stages in order, refresh, flush | all of the above |
| Read cache | `internal/cache`, `internal/httpapi/cache.go` | Redis entries with a TTL | `Get`, `Set`, `Flush`, `FlushFromEnv`, `Cached` | API handlers, jobs |
| Rate limiter | `internal/httpapi/ratelimit.go` | a token bucket per client | `Allow`, `sweep`, `Middleware` | every API request |
| HTTP server | `internal/httpapi/{server,router,middleware,etag,cursor}.go` | connections | serve, drain, page | - |
| Read handlers | rest of `internal/httpapi` | none | queries | Postgres |
| This week | `internal/ongoing` | `ongoing_matches` | fetch, replace | mirror, Postgres |
| Simulation | `internal/simulate` | none | brackets, Monte Carlo, closed forms | - |
| Score parser | `internal/score` | none | parse, classify | match store |
| Reports | `internal/validate`, `internal/dataqual` | none | read and report | Postgres |
| Web client | `web/src` | React state, URL, localStorage | fetch, search, remember | API |

The parts meet in four places. The ledger and the match tables are shared by successive
*runs* of the ingest, which may die anywhere. The database and the cache are shared by *jobs*
and *requests* that know nothing of each other. The limiter's map is shared by concurrent
requests. The tables are shared by pages of several statements and the jobs that commit between them.

What makes each part correct, in a sentence:

- *pipeline*: a file the ledger names is in the database whole, a run that reports success
  has left nothing out, its counts add up, and it ends;
- *match store*: ingesting a file again changes nothing; two sources of one match agree on
  one row, whose columns agree with each other;
- *derived tables, ratings*: they are what the matches imply, and never half replaced;
- *reference, charting*: what could not be resolved is retried when it can be;
- *identity, events*: merges lose no match, slugs are unique and do not move;
- *cache*: an answer out of date has a known cause and an end;
- *limiter*: no client gets more than the limit, none gets less;
- *simulation, score*: each entrant once, each run counted once, each score one meaning;
- *web client*: what is shown answers what was asked last.

## 2. What is hard about it

`PROJECT.json` lists the hazards at their lines. By kind:

- **Interleaving.** Readers share one channel (`pipeline.go:131`); a handler's answer and a
  load's flush race (`httpapi/cache.go:46`); the limiter reads the clock outside its lock
  (`ratelimit.go:47`).
- **Failure in the middle.** A failed write keeps the pipeline draining (`pipeline.go:197`); a
  failed page leaves the rest of the cache in place (`cache/cache.go:158`); a failed stage
  skips every refresh after it (`cmd/ingest/main.go:150`).
- **Decisions that grow old.** All merges of a tour are decided from one reading of the players
  and applied one transaction at a time (`identity/runner.go:77`).
- **Crashes and restarts.** A load is killed between a batch and its record, or between a
  commit and its acknowledgement, and applied again a week later.
- **Change underneath.** A mirror publishes while its file is read (`pipeline.go:363`).
- **Progress.** Readers wait for the writer, the closer for the readers, the writer for the
  closer; a body that fails answers errors for ever (`pipeline.go:338`).
- **Reads of several statements.** A page is up to seven queries with no transaction around them
  (`httpapi/highlights.go:138`), a walk as many pages under a cursor (`httpapi/cursor.go:23`), and
  figures that must agree are counted by different queries.
- **Two sources of one row.** What each overwrites depends on the column (`ingest/store.go:340`),
  and columns derived from others are recomputed elsewhere (`ingest/store_clutch.go:41`).
- **Boundaries.** Whole seconds in `Retry-After`, capped refills, full channels, the last week of a
  replay, a bracket with a bye.

## 3. The modules

| Module | What it is |
|---|---|
| `SourceFiles` | constants: files, versions, rows and keys |
| `ResumableIngest` | abstract: what an ingest that can be resumed promises |
| `IngestPipeline` | `Pipeline.Run` in detail, and the world it runs in; implements `ResumableIngest` |
| `IngestPipelineProofs` | theorems about it |
| `ReadCache` | `Cached`, `Cache.Flush` and the jobs |
| `ReadCacheProofs` | theorems about it |
| `RateLimiter` | `RateLimiter.Allow` under concurrent calls |
| `RateLimiterProofs` | theorems about it |
| `Reconcile` | who is taken for whom: `internal/identity/identity.go`, `overrides.go` |
| `People` | abstract: a partition of source ids that only gets coarser |
| `Identity` | ingest upserts of players, and `Runner.Run`; implements `People` |
| `IdentityProofs` | theorems about it |
| `ScoreLine` | the score parser over tokens: `internal/score` |
| `MatchStore` | `WriteBatch` row by row, the `Refresh*` of derived tables, `Prune` |
| `ReferenceLoad` | the player table and the rankings: `reference_load.go` |
| `Charting` | the charting loader: `internal/charting` |
| `Events` | tournaments grouped into events, and their slugs: `internal/events` |
| `LoadJob` | `cmd/ingest`: composes the five above under stages, run records and restarts |
| `LoadJobProofs` | theorems about the job, its run records, the match tables and what the refresh derives of them |
| `LoaderProofs` | theorems about the stages beside the matches: rankings and merges, charted matches, events |
| `SiteData` | the tables the read API and the rating run read |
| `Rankings` | ranking tables, series and their queries: `rankings.go`, `ratings.go` |
| `Draws` | the order of a draw; `BuildBracket`, `playOnce`, `RunDraw` |
| `RatingRun` | `cmd/rate`: the weekly replay and the replacement of `ratings` |
| `Career` | a player's page: profile, splits, highlights |
| `HeadToHead` | a pair's page, and common opponents |
| `Ongoing` | `cmd/ongoing` under overlapping refreshes, and the page of this week |
| `Site` | the handlers statement by statement and the walks, beside loads, ratings and refreshes; composes the seven above |
| `SiteProofs` | theorems about `Site`: this week, walks, ratings |
| `SetLemmas` | lemmas about finite sets and sums over them |
| `MC...` | model values for TLC |

`SourceFiles` and `IngestPipeline` say how a file gets into the database whole; `MatchStore` what
a row then does; `LoadJob` takes a file at a time, because the pipeline's interleavings are shown
elsewhere to do nothing to the durable state (`ImplementsResumableIngest`).

Definitions commented `Mutant:`, or as a plausible slip, are plausible mistakes. They are used by no specification;
each property of a passing run is violated when one of them takes the place of the definition
it varies, as listed under `mutants` in `PROJECT.json`.

To check: `tlc -config IngestPipeline.cfg MCIngestPipeline.tla`, and so on for the
runs of `PROJECT.json`; to prove: `tlapm IngestPipelineProofs.tla`.

## 4. The ingest pipeline

### State and actions

A *version* of a file stands for its content and for the validator (ETag, or size and mtime)
that names it; `Content[f][v]` is its rows, each a natural key or `Malformed`. The durable
state is `upstream` (what the mirror serves), `db` (the version each row was last written
from) and `ledger`. The rest lives in a process and is reset by `Fresh` when it ends.

| Code | Actions |
|---|---|
| `Run` reading the ledger; the weekly job | `StartRun` |
| feeder (`pipeline.go:144-153`) | `Feed`, `FeederStops` |
| `open`, `LocalFetcher`, `HTTPFetcher` | `Look` (conditional), `Open`, `OpenFails` |
| `readFile` | `ReadRow`, `SendBatch`, `SendEnd`, `SendMarker`, `AbandonSend`, `BodyBreaks`, `RetryBrokenBody` |
| closer (`155-159`) | `ReadersGone`, a condition of `Finish` |
| writer loop (`161-205`) | `ReceiveMarker`, `WriteBatch`, `WriteFails`, `DrainBatch`, `EndFile` |
| return (`207-231`) | `Finish` |
| world | `Publish`, `Cancel`, `Kill` |

Readers are interchangeable, so none has a name: a busy reader is the file it reads, and one
that exited with an error is the file it failed on. That removes a symmetry from the state
space without removing an interleaving. `LocalFetcher` stats a file and opens it afterwards, so
a mirror may publish in between (`OpensAtomically = FALSE`); `HTTPFetcher` gets both in one
response (`TRUE`). A transaction may commit without the writer hearing of it
(`WriteFails`).

### Runs

| Run | Question | Instance |
|---|---|---|
| `pipeline` | Does a recorded file hold, is a good run complete, do its counts add up, is `ResumableIngest` implemented; does every run whose bodies do not break end, does the ledger catch up? | 2 files, 2 readers, batches of 2, 1 fault, any number of runs; 296,858 states |
| `pipeline_broken_body` | ... and if a body breaks? | expected violation, see section 11 |

*Bounds.* Two readers and two files give every interleaving of chunks of different files and a
full channel (capacity 2); versions of three, two, one and no rows with batches of two give full,
short and closing chunks; the contents have a malformed row, two rows of one key and a row
that disappears. `MaxVersion = 2` lets a file change while it is read. `MaxFaults = 1` is a
fault of any kind at any point - a kill, a cancel, a failed open, body, write or record, a lost
acknowledgement - after which everything goes on without; `faults` counts over the whole
behaviour, runs included. The inductive invariant and the refinement were also checked with
`MayRevert = TRUE` once (6.2 million states); the proofs cover any bound. In the runs mirrors do
not take a version back (`MayRevert = FALSE`): nothing un-records a file when a newer version of
it is begun, so a version that is withdrawn after a run died in the middle of it leaves its rows
behind a ledger that agrees with the mirror again.

*Fairness* (`Fairness`). Weak fairness of each goroutine's next step, as the Go scheduler and
channels give it; of `StartRun`, because the CronJob applies the load again every week
(`concurrencyPolicy: Forbid`, so no two overlap) and a Job restarts on failure. Nothing is
assumed of mirrors, faults or signals. `CatchesUp` speaks of files whose mirror sends a
validator (`Tagged`): the ledger has no entry for the others.

### Properties

`RecordedFileIsHeld` is the sentence of `docs/performance.md` ("a recorded file is one the
database genuinely holds"), made precise for a mirror that moves meanwhile: the rows are those
of the recorded version or of one published since. `LedgerIsCurrent` is what makes a skip
right. `CleanRunIsComplete`, `SummaryBalances`, `RunEndsUnlessBodyBreaks` and `CatchesUp` are about
the run. A body that fails for good keeps its run from ending (`RunEnds`, section 11), so the run
that passes says of the others that they end.
`SummaryBalances` holds of every run that ends well, also of one that a signal cut short: such a run
has drained its channel, so that each row of the files it had opened was counted.
`ImplementsResumableIngest` says that readers, channel and failures do nothing to the durable
state that a simple resumable ingest would not.

## 5. The read cache

A response is the *version* of the data it was computed from; `answer[k]` is the one the
database gives now, `entry[k]` the one Redis holds. A request is a `Miss`, an `Answer` (the
handler has read) and a `Store` (`Set`), in separate steps because nothing joins them; `Hit`
changes nothing. A job starts, commits some transactions, and either clears the cache
(`Finish`, `FlushPage`s, `Flushed`) or ends without doing so (`FinishUnflushed`: prune, an
error, a kill, a Redis that fails half way). `FlushPage` joins SCAN and UNLINK: a request that
stores between the two has its entry removed by the second, which is a later page of the same
flush as far as staleness goes. SCAN is taken at its word that it returns every key present
throughout; keys stored after their page may stay.

The variables `late` and `missed` are history: they record *why* an entry is stale and are
read by no action.

| Run | Question | Instance |
|---|---|---|
| `read_cache` | Has every stale entry one of the known causes, and does it go once the data stops changing? | 2 keys, 2 requests, a load and a prune, 1 fault |
| `read_cache_race` | Is the cache right when no job runs? | expected violation, see section 11 |

*Bounds.* Two keys are enough for a flush in several pages with a store between them; two
requests for one key race each other as well as the flush; two jobs overlap. *Fairness.* Only
that Redis expires keys (`Expire`). Requests and jobs may stop anywhere, so `StalenessEnds`
holds of a dead job as well. It fails if entries carry no TTL, which is what
`CACHE_TTL=0` asks of the Redis client.

## 6. The rate limiter

`ReadClock` and the locked part (`Admit` or `Reject`) are separate steps, as `now := l.now()`
comes before `l.mu.Lock()`: readings reach a bucket out of order, and a bucket's `last` may
move back. Both branches sweep, find or make the bucket, and refill it first. Tokens are
counted in shares of which a tick refills `PerMinute`, so that a token is `TicksPerMinute`
shares and the arithmetic is exact; the code's is floating point, and its rounding is not
modelled. `spent` and `promised` are history: admissions by stretch of time, and the end of the last
`Retry-After`.

`WindowBound` is the claim of the comment on `bucket`, for every window; `RetryAfterSuffices`
that of the comment in `Allow`; `RejectsOnlyOverLimit` is the other direction, that a client is
not cheated, up to `MaxLag` of refill that a late reading may cost.

The run `rate_limiter` has two racing calls of one client, two requests a minute, a minute of two
ticks, `MaxLag` 1 and time up to 8: enough for a bucket to be emptied and refilled several times
and swept by the client's own call with an older reading pending. The limit is 2 so that
`RejectsOnlyOverLimit` says something: what a late reading may cost, `MaxLag * PerMinute`, has to
be less than the burst beyond the first token. Clients meet only in `sweep`; that the calls of one
do nothing to another's allowance is left to the theorems, which hold for any clients. Assumed,
and named in `LimiterAssumption`: a call is not held up for more than `MaxLag` between reading
the clock and taking the lock, and a bucket is idle for a minute and two lags before it is
swept (`idleEviction` is ten minutes). The router makes two limiters, one for the cached
routes and one for `/this-week`; they share nothing, so the model is of either.

## 7. Identity

### State and actions

`Reconcile` holds the decisions, as operators on a set of players that was read: `Score`,
`Best` and `StubLink` for a row known from matches alone, `Keeper` and `FoldLinks` for one
person under two ids of one source, `Applied` for the overrides file. `Proposals` is the *set*
of what a pass may set out to do, because `Reconcile` iterates over maps and takes whichever of
two equal candidates the database returned first.

`Identity` has the tables: `players` (by their id), `matches` (a draw and a pair), `aliases`,
`reviews`; and `run`, the tours and links a running `Runner.Run` still has before it. Ingest
(`WriteMatch`, `WriteBio`) looks an id up among aliases, then among players, and otherwise
makes a row with a free slug. A draw stands for tournament, number and `is_qualifying`. A side
keeps the source id it was last written under; the code keeps the age that came with it, from
which `DerivedYear` is computed.

| Code | Actions |
|---|---|
| `WriteBatch`, `upsertPlayer`; `WritePlayers` | `WriteMatch`, `WriteBio` (a batch of one row) |
| `Runner.Run`, its loop over tours | `Start`, `Load`, `FinishTour` (with `ReclaimFreedSlugs`) |
| `Store.Merge` | `Merge`, or `Fail` when a constraint refuses it (`Refused`) |
| `Store.Queue` | `Queue`, `Fail` |
| the process dies between two transactions | `Kill` |

Everything between `Load` and the last link acts on what `Load` read. Links go stubs first, folds
after them and overrides last; the code interleaves the groups of different namesakes, which
share no row. Ingest does not run beside a reconcile (`Idle`): the stages are sequential and the
CronJob forbids two loads. A load started by hand beside one is not modelled.

`People` is the abstract specification: a partition of the ids seen, which grows by singletons
and changes only by two classes joining. `PeopleKnown` maps the tables to it: the id of a
row and the ids of its aliases. `ImplementsPeople` therefore says at once that no merge drops an
alias, that an alias never points at two players, that a re-ingest makes no second row for an
id that was merged away, and that a run cut short leaves the partition whole.
`People!Unite` says what two classes become, not that one shrinks: both are gone and their union is there.

### Runs

| Run | Question | Instance |
|---|---|---|
| `identity` | Do ids only join, do careers and slugs follow, is no stub merged past a rival, is there again and again nothing left to merge? | a man with two ids in one source and one in another, an opponent, a match both sources describe, a woman with the same numbers; 4 match rows, 3 bios, a merge by hand into the row that a fold takes away, 1 kill |
| `identity_refused` | ... also where two rows of a pair hold one match? | expected violation, see section 11 |
| `identity_spellings` | Does a slug move only to one that a merge freed? | expected violation, see section 11 |
| `identity_unknown` | Does an id that was merged away keep standing for somebody? | expected violation, see section 11 |

*Bounds.* Rows may be written in any order, again and again, before and between runs, so both
orders of a chain (stub into a row that is itself folded), the chain a human makes onto a row that
an automatic merge has deleted, and both outcomes of a slug collision come up. Two ids in one source,
one in the other and one shared by the tours are the fewest with which a fold, a stub, a chain,
a tie, a review, a merge that the natural key of matches refuses and a collision across tours all occur.
`MaxPlayer` is the number of ids, and no id is given a second row there, so it cuts nothing off.
*Fairness.* Of `Start`, as the CronJob runs the stage weekly, and of `RunStep`, a sequential
loop.

### Properties

What the code ensures whatever the rows, spellings and overrides, each proved of any instance:

- `IdsFollowTheirRow`: an id stands for the row it stood for, or for the one that row is folded into.
  The one id excepted is the number of the row that is folded away, when an alias of that number is
  there already, or the row is gone.
- `NothingIsStranded`: matches and reviews are of players who are there, and a match that was moved is
  never a second of its draw and pair - also where two who met are merged, or a chain names a row that
  is gone.
- `OnlyMergedSlugsMove`: the slug of a player whom no merge has touched never moves; one that moves is
  the plain slug of its player's name, and nobody else has it then.
- `PlainSlugsDieByRespelling`: a plain slug goes dead only as its player, or the one he is folded into,
  is by now called something else.
- `OnlyFoldsHideARival`: a stub that no human has decided on is merged although another backed row fits
  it as well only if that row was dropped from the candidates for one of its birthday that fits the stub
  less well, or that a human has told from it.
- `SettlesUnlessBothHold` (checked, not proved): again and again nothing is left to merge, unless runs
  end again and again at a pair of rows that both hold one match.

`ImplementsPeople`, `CareersFollowIds` and `PlainSlugsAreLive` say more, of an instance with one spelling
of each name and no alias of a number that another row has. In that instance a human merges the stub into
a row that a fold takes away, and the natural key refuses a merge; nobody is merged with one he has met.

### What the model shows of the code

Besides what section 11 lists, the comments of the package promise more than the properties above:

- *Namesakes.* The comments of `reconcileGroup` want two equally good candidates left alone
  (`identity.go:243`, `:261`). But `foldSameSource` runs first (`identity.go:246`) and drops a row as soon as
  it pairs with the row kept of its birthday at `ReviewFloor` (`identity.go:317`), where the two are left to a
  human. A stub that fits the dropped row as well as a third namesake is then merged into the third
  unasked. This is the exception in `OnlyFoldsHideARival`: take it out, and three namesakes of which two
  have one birthday and two countries are a counterexample.
- *A match under both ids, an alias of a number in use, a chain onto a deleted row.* Nothing in `Merge`
  rules these out. The first ends the stage on every run (`identity_refused`); the second leaves a number
  with the alias it had (`identity_unknown`). In the third a duplicate that is gone moves nothing, and its
  number becomes an alias of the canonical row; a canonical row that is gone ends the stage.

## 8. A load

### State and actions

`LoadJob` composes `MatchStore`, `ReferenceLoad`, `Charting` and `Events` under `cmd/ingest`. The
process is `job`: the steps it has left (`StepsOf`), the run it has open, the file it reads. The
durable state is the tables, the three ledgers and `runs`, the newest record of each stage. A stage only
logs an error of `FinishRun` and goes on with its own result (`main.go:315`, `:348`, `:379`): `Closed`
may leave the record `lost`, open for good under a load that goes on or fails, at the cost of a fault.

| Code | Actions |
|---|---|
| the CronJob; `-stage` by hand | `Weekly`, `ByHand` |
| `runMatches`, `runReference`, `runCharting` around a stage: `Store.StartRun`, `FinishRun` (`cmd/ingest/main.go`) | `StartRun`, `FinishRun`, `SkipStage` (no sources configured), `StageFails` |
| `Pipeline.Run`, `WriteBatch`, `RecordFile` | `SkipMatchFile`, `OpenMatchFile`, `WriteMatchRow`, `EndMatchFile` |
| `ReferenceLoader.Run` | `ReferenceStage`: the steps of `RefStep`; `PlayersCutShort` |
| `Runner.Run` of identity, on players without matches | `Merge`, `Reconciled` |
| `events.Run` | `EventsStage` |
| `charting.Loader.Run` | `ChartingStage`: the steps of `ChartStep` |
| `run`, after the stages: prominence, derived columns by pages, baselines, totals | `RefreshStage` |
| `runPrune` | `PruneStage` |
| SIGTERM, a killed pod; mirrors | `Interrupted`; `Publish` |

`MatchStore.WriteRow` is one row of `WriteBatch`: what each column does on conflict
(`UpsertedMatch`, `UpsertedSides`, `UpsertedDraw`). Scores are token sequences which `ScoreLine`
parses as `score.Parse` does, and the derived columns are computed from the parse, so that a
disagreement between a stored score and its columns is one the code would have. Serve figures
are one value a side (good, none, impossible). The baselines and totals are operators
on the rows, as the SQL is; `DerivePage` goes by pages of `ClutchBatch` under its cursor.

`Events` keeps an event's identity as its key and gives each draw the event it belongs to, in the
order the code sorts them. Slugs go to who comes first: `Mint` says at once what minting them in turn
leaves, a new event with as many new ones of its name and tour before it as free serials below its own.
`Charting` reads two files, either
unconditionally when the other has changed, resolves within the window of days, and writes a
year a transaction: `Attached` says at once what upserting the rows of the batch in their order
leaves, a later row in the place of an earlier one. What did not resolve is listed by id and
reason, since the reason is in the key of `unresolved_references`.

### The run `load_job`

A *deployment* is a registry of sources with its bounds; seven small ones rather than one with
everything, since stages meet only in the tables:

| Deployment | What it is for |
|---|---|
| two sources of one season, a publish, a fault, a load by hand | one key two sources describe, a score that is blanked, two levels, a season boundary in a file |
| two sources and a fused row, a fault, a load by hand | prune, and what comes back |
| a fused row and charting, a load by hand | prune beneath attached figures |
| reference, 2 publishes | rankings before players, unresolved rows, a mirror without files |
| reference, a fault, a load by hand | the same with a stage that dies in the player table |
| one source and charting, a publish and a fault | matches that arrive, move and vanish under charted ids |
| two files of draws, 2 publishes, a load by hand | numbers, codes, names, overrides, a name twice in a season |

Manual loads may be of any stage, with and without `-force`. `ClutchBatch` and `RankBatch` are 1,
which makes every row a page boundary. Two versions of each file are enough for a row to appear,
change and disappear.

*Fairness.* `Weekly`, as for the pipeline, and that a load which runs goes on. The second is stated
without `ENABLED`: infinitely often the load is over or one of `progress` changes. Nothing is
assumed of mirrors or faults, so `LoadsSucceed` asks that the reference mirror has a player table
in the end.

### Properties

`FreshAfterSuccess` is the promise of the refresh: whatever stage a load was for, what it derives is
what the rows say. One thing is left behind: a player whose last match was moved or pruned keeps the
prominence he had, which search still reads, since `RefreshProminence` updates only players with matches
(`store_reference.go:184`). The repository says that these columns are stale between runs, by design
(`docs/performance.md:412`), and nothing of players without matches, so the property is of players with
matches. `TotalsBalance` checks those tables against each other rather
than against their own SQL: each win is a loss, each set of one side was played by both.
`DerivedDescribeScore` and `SidesAgreeWithTheMatch` are about two sources of a match;
`PrunedMatchesComeBack` about the ledger; `RecordedRankingsAreHeld` and `RankingsArrive` about
the same ledger from its two sides, safety and progress. `EventsAreSettled` is idempotence,
`SlugsAreKept` the URLs, `OneEditionASeason` the grouping, `ChartedAreAccountedFor` and
`SkippedChartingIsCurrent` the charting ledger; `RunRecordsFollowTheJob` the records: a run left open
tells of a load that was killed or cancelled in that stage, or of a record that could not be written, and
an error stands only at the stage where a load failed.

### What the model shows of the code

These are consequences of the code that no property forbids, because nothing in the repository
says otherwise or because it is a choice; a reader should know of them.

- A row published again with a blank score keeps the stored score, but is marked incomplete and
  loses its derived columns (`UpsertedMatch`), and no refresh fills them in again.
- `Prune` makes the ledger forget (source, season of the draw). A match that another source also
  has, or that stands in the file of another season, does not come back until that file changes;
  `PrunedMatchesComeBack` is stated with that exception (`prunedFrom`).
- Prune is followed by no refresh: the tables are those of before until the next load.
- A player whose last match went keeps the prominence it had (`RefreshProminence` updates only
  players with matches).
- A registry whose reference mirror has no file at all fails every load before its refresh.
- A cancelled load leaves its run open and exits with 0; `main.go` closes it with the cancelled
  context.
- `PlayerIDsBySource` does not look at `player_aliases`: a ranking of an id that was merged away
  is unresolved for good, and its file is read again by every load. `unresolved_references` of
  rankings are never cleared.
- `WriteRankings` keeps the best rank of a player and date within a batch, and the last batch's
  across batches.
- A charted id listed as unresolved for one reason and then lost for another is listed for both
  (`Explain`), until it resolves.
- Of two charted ids on one match the later silently replaces the earlier. Charting files that
  have not changed are skipped whole, so a row stays unresolved though its match has arrived
  since. A charted row that disappears upstream stays attached.

## 9. The read API

### State and actions

`Site` is the API beside the jobs that change what it reads. Requests keep no state, but a request
is several statements on a pool and nothing makes them one transaction: `Ask`, a `Statement` at
a time, `Respond`. A client following `next_cursor` is a *walk*: `WalkStarts`, `WalkTakes`.
Around them, loads commit and refresh prominence (`LoadCommits`, `LoadRefreshes`), the rating run
truncates, reads, replays row by row and commits or dies (`RatingRun`), and refreshes of this week
overlap (`Ongoing`). TRUNCATE's lock keeps every reader of `ratings` waiting: `Readable`.

| Module | Code |
|---|---|
| `SiteData` | `matches` joined with its tournament and both `match_players` rows, as the queries join them |
| `Rankings` | `ListEloRankings`, `ListOfficialRankings`, the effective dates, series and histories, movement |
| `Career` | the six statements of a profile and the six of its highlights, with `buildCareer`, `buildServe`, `buildReturn`, `buildPoints`, `buildSplits`, `orderRounds` |
| `HeadToHead` | `Meetings`, `buildHeadToHead` with every filter, `CommonOpponents` |
| `Draws` | `FindEdition`, `FindTournament`, `ListDrawMatches`, `BuildBracket`, ratings as of a day and their blend, `newPairOdds`, `playOnce`, `RunDraw` |
| `RatingRun` | `Engine.Add`, `flush`, `Close`, the batches of `COPY`, `Run` |
| `Ongoing` | `Refresh` of the files in turn: validator, conditional fetch, delete, insert, commit; `buildThisWeek` |

`ORDER BY`s that leave ties open are modelled by sets, or by a fixed choice among the equals.
Ratings are whole tenths of a point; `K`, the expectation and the coins of a simulation are constants.
A match is of two different players, as `row.go:213` and the primary key of `match_players` have it. A
sorted page is stated by what it is (`PageInOrder`): the rows past the cursor, each at the place that
the number of rows before it gives.
A delete blocks on rows another transaction has deleted (`Locked`), then passes over them, as
READ COMMITTED does. It deletes the tuples its snapshot saw (`doomed`): a row that another job has
put in since is another tuple, though it may have the same values. An empty ETag is stored as NULL beside
the rows of its version (`TagOf`), and the file is read again by the next refresh. An insert that the key
refuses rolls the transaction back (`Refused`); any other rollback is a fault.

### Runs

| Run | Question | Instance |
|---|---|---|
| `read_api` | Do pages of one moment agree, do walks keep their place, are ratings the replay, this week's rows those of their validator, brackets the draws they came from? | five players, seven draws, two loads, the plans below |
| `read_api_lookahead` | Does a rated sample know its own result? | expected violation, see section 11 |

*Bounds.* A *plan* says what may happen in a behaviour: two loads, a rating run and one page of
each of 33 questions; two loads, two rating runs, a fault; two loads, a rating run and
one walk of each of 18 kinds, with pages of one or two rows; three refreshes by two jobs,
three publishes, a fault and a page. The questions never change what a job does, so one at a time
is enough. The second load corrects a match of the first, so rows move across
cursors; draws are whole, with a bye, torn, by groups, of teams, and one a year on; days cover five
weeks and a year's end. `Batch` of 3 makes full and short batches,
five simulation runs on two workers uneven shares. The system may stop when a plan is spent
(`CHECK_DEADLOCK FALSE`).

### Properties

`PagesOfOneMomentAgree` compares figures that different queries count: career totals with the sum
over surfaces and tiers, bands with ranked and unranked, peaks with current ratings, titles with
finals won, streaks with a direct definition of runs of results, a pair's page with
the same page asked for the other way round, common opponents with the meetings of each side, a
player's series with the strip on the profile. A page during which something committed (`still =
FALSE`) is exempt, which is the price of having no transaction. `WalksKeepTheirPlace` is
the claim of `cursor.go`. `RatingsFollowReplay` compares the engine, which opens and closes weeks
and copies batches, with a definition that has neither (`TableOf`): what each series was worth after the
last match of each week it moved in, where worth is a recursion over the matches (`Replayed`). `BracketsReplayTheDraw` says that a draw is simulated if and only
if its matches link up, that its bracket played with the real results gives those matches back,
and that shares of the workers add up. `OngoingIsOfItsValidator` is what makes a 304 right; of a file without
a validator it says only that keys are its rows' own.

### What the model shows of the code

- A page whose statements straddle a commit may contradict itself; an Elo walk resolves its date
  anew on each page, so one that straddles a rating run continues in another week's table.
- Two overlapping refreshes of a file (the CronJob forbids it, the `ongoing-now` Job of
  `docs/deployment.md` does not) may leave rows of two versions when the versions share no
  key: the second deletes what it saw, waits, and inserts beside what the first has committed. The
  rows of the version the validator names are always there. When they share a key the second fails
  and the first stands. `OngoingIsOfItsValidator` says exactly this.
- `RunDraw` gives the same shares only for the same number of workers: a seed does not fix an
  answer across machines.
- `BuildBracket` accepts a draw in which somebody is entered twice if its rounds link up.
- `CommonOpponents.Total` counts the rows it got, at most the limit. `buildPoints` takes its
  matches from the returns and divides service points by their own.
- Serve figures of a head to head include incomplete meetings, which its own comment excludes
  "from every rate".
- `ListPlayerStreaks` orders by tournament start and id, not by round.


## 10. Proofs

Eight modules, checked by TLAPS with no unproved step:

**`IngestPipelineProofs`.** `IInv` conjoins `TypeOK` with: a file is opened once a run
(`ReaderInv`); the chunk that closes a file is its last (`ChannelInv`); until a write fails
every row sent is in the channel or in the database (`FlowInv`); versions are ordered recorded
<= opened <= served unless mirrors revert (`OrderInv`); and `HeldInv`, which is
`RecordedFileIsHeld` with the bound that survives the next run's batches. `RecordedFileIsHeld`
alone is not inductive: that `EndFile` records only a whole file needs `FlowInv`, which needs the
order of chunks. Each conjunct is preserved by each action, relative to those before it.
`CleanRunIsComplete` speaks of the step that ends a run; `PlanInv` carries what it needs there: a run
hands out its plan in order and stops only at its end or at a signal, no file goes back to
`planned`, and a file that was opened and closed was sent to its last row. `SummaryBalances` compares
counters with a sum over files. `BalanceInv` says what is conserved on the way: what the writer has seen
and what waits in the channel is what the readers have sent, summed over the chunks of the one and the
opened files of the other; and until a write fails, what was seen was counted. A chunk sent or received
moves its rows from one sum to the other (`SentIsInFlight`, `ReceivedIsOut`); when a run ends the channel
is empty and, by `PlanInv`, every file that was opened was sent to its end.

| Theorem | States |
|---|---|
| `TypeCorrect` | `Spec => []TypeOK` |
| `PipelineInvariant` | `Spec => []IInv` |
| `PipelineImplements` | `Spec => ImplementsResumableIngest` |
| `RecordedIsHeld` | `~MayRevert` implies `Spec => []RecordedFileIsHeld` |
| `SkippingIsSound` | `~MayRevert` implies `Spec => []LedgerIsCurrent` |
| `GoodRunsAreComplete` | `Spec => CleanRunIsComplete` |
| `CountsBalance` | `Spec => SummaryBalances` |

**`RateLimiterProofs`.** The argument is one number: a bucket's tokens brought back to time
zero (`Level`). A refill leaves it alone, whatever the reading, unless it is capped; an
admission takes a token off it. `CreditSpent` bounds admissions by it, `DebtBounded` bounds how
far late readings take it down, `SweptWhenFull` makes forgetting a bucket no gift, `NothingLost`
accounts for what the cap threw away and `PromiseKept` for `Retry-After`. Theorems
`LimiterInvariant`, `TypeCorrect`, `LimitHoldsInEveryWindow`, `WaitingPays`,
`RejectionIsDeserved`.

**`ReadCacheProofs`.** `TypeOK`, which includes that nothing cached or on its way to the cache
is ahead of the database, is inductive, and so is `StalenessIsExplained` given it. Theorems
`TypeCorrect`, `StaleAnswersAreExplained`.

**`LoadJobProofs`.** The invariant `LoadInv` of the whole of `LoadJob` is about the process and
the match tables. `Control` says where a load can be: unless it is a prune, the steps it has left
end with the refresh in its order (`InPlan`); a run is open only on a step that has one; a file is
open only in the match stage, at a row of the version that was opened; the cursor of the
derivation is off zero only while it pages. `RunsInv` adds that a stage which was started has
closed its run. On this stand four invariants, each inductive relative to it:

- `ScoreInv`: a row that is finished has a score that parses as finished, and the columns derived
  are of that score. `DerivedDescribeScore` alone is not inductive: it says nothing of the rows
  whose columns a later page will derive.
- `SidesAgreeWithTheMatch`, with the shape of the rows (`TableType`): a match that is not there
  has no sides, and one written again keeps its pair, because a key names two players.
- `FileInv`: the rows of the open file that were passed are held; so when the file is recorded they
  all are. That pruned rows come back (`PrunedMatchesComeBack`) needs it, since recording a file
  promises all of them at once.
- `RunRecordsFollowTheJob`, a part of `RunsInv`.

`FreshAfterSuccess` speaks of the end of a load, so `FreshInv` says what
each step of the refresh has settled by the number of steps left: prominence first, then the
columns of the rows up to the cursor, then all columns, baselines, serve figures, totals; and no later
step disturbs an earlier one. That a page leaves nothing behind it (`PagesLeaveNothing`) is a fact
about finite sets of ids.

`TotalsBalance` then is about the SQL, not about steps: where it speaks, the totals are those of the rows
(`FreshAfterSuccess`), and the totals of rows whose sides agree balance. `RefreshPlayerTotals` groups the
pairs of a match and one of its sides, and each group is a cell of a partition, so a column summed over the
table is summed over those pairs (`SumOfCells`, `CountOfTotals`). Turning a pair to the other side
(`Turned`) is one to one and makes a win a loss and one side's sets the other's, so what is counted for
both sides is twice what is counted for one (`FiguresBalance`, `TableBalances`). That exactly one side won
is `SidesAgreeWithTheMatch`.

| Theorem | States |
|---|---|
| `LoadInvariant` | `Spec => []LoadInv` |
| `RunsFollowTheJob` | `Spec => []RunRecordsFollowTheJob` |
| `FiguresAreOfTheScore` | `Spec => []DerivedDescribeScore` |
| `SidesAgree` | `Spec => []SidesAgreeWithTheMatch` |
| `PrunedComeBack` | `Spec => []PrunedMatchesComeBack` |
| `FreshAfterALoad` | `Spec => []FreshAfterSuccess` |
| `TotalsAreBalanced` | `Spec => []TotalsBalance` |

**`LoaderProofs`, rankings.** `RefInv` adds to `LoadInv`: nobody that was merged away is a player, and an
alias leads to one in a single step (`AliasInv`); the ids the reader looks rows up among are their
own players, because nobody is merged while it runs (`StageInv`); of a file in which no row was
missed, each row passed is held or in the batch (`ReaderInv`); and each row of a recorded version
is held by whoever its id is now (`RecordedInv`). `ReaderInv` is what makes recording a file
right; `AliasInv` what lets a merge move rankings without losing one.

*Charted matches.* `ChartInv` adds to `LoadInv` where the loader is (`PlaceInv`); that a version
is served before it is read and read before it is recorded (`OrderOfVersions`); that both players
of a match are its sides (`PairInv`), so that figures hang on those who played; that what is
attached hangs on a match and is listed nowhere, not even among what is about to be listed
(`AttachedInv`); that each row of a year which was written is attached, lost, listed, or gave its
place to a row that took it (`AccountedInv`, `LostInv`); and that figures of such a row are of the version
that was read (`CurrentInv`). The last makes `SkippedChartingIsCurrent` inductive: what the ledger
says changes one file at a time, after every row was written. Years are not in the order of the file, so
the invariant speaks of the rows whose year is no longer to come (`Passed`), not of a prefix of the
file.

*Events.* `OneEditionASeason` follows from `NamesInv`: a link is of its row, and two
rows of one event that a name keys are of two seasons, because ordinals of one name and season differ
(`OrdinalsDiffer`: the earlier row's predecessors are a proper subset of the later row's) and the key has
the ordinal in it (`NamedPlace`). `SlugsAreKept` needs that two events of the table have two slugs
(`SlugsInv`) and that what `Write` mints is new to the table and to the rest of the batch (`FreshSlugs`):
there are more free serials than new events, since each taken one is some event's, so every new event
finds its place among them (`NumberAtPlace`), and two of one name and tour find two places because the
order of new events is total (`MintOrder`, `RowsRanked`). That it is total rests on the keys being of
three shapes over tiers and numbers (`KeysTyped`), hence on the rows of draws having a tier and a
name (`DrawsInv`). `EventsAreSettled` holds where the stage has just ended; that the load is there only
after it is `PlanInv`, that what is left of a load is the end of its plan, and that a second `Write`
makes nothing of it is `WrittenTwice`: every event is known then and keeps its slug.

| Theorem | States |
|---|---|
| `ReferenceInvariant` | `Spec => []RefInv` |
| `RankingsAreHeld` | `Spec => []RecordedRankingsAreHeld` |
| `ChartingInvariant` | `Spec => []ChartInv` |
| `ChartedMatchesAreAccountedFor` | `Spec => []ChartedAreAccountedFor` |
| `ChartingIsCurrent` | `Spec => []SkippedChartingIsCurrent` |
| `OneEdition` | `Spec => []OneEditionASeason` |
| `SlugsStay` | `Spec => SlugsAreKept` |
| `EventsSettle` | `Spec => []EventsAreSettled` |

**`IdentityProofs`.** What the code ensures whatever the rows, the spellings, the overrides file and the
runs that die; no theorem has a hypothesis. `BaseInv` is inductive: types, the keys of the tables, aliases
of players who are there, and links whose rows, if they are there still, are of the link's tour and ids.
That a new row finds a free slug at all is a count of players against attempts (`FreeSlugFacts`). On it
stand:

- Ids: ingest leaves every id with the row it had (`GrownFollows`), since what it adds is of ids that stood
  for nobody; slugs are no part of it (`SluggedFollows`); a merge sends an id where it sends its row, or is of
  the duplicate's own number (`MergeFollows`).
- Matches: a batch upserts by draw and pair (`MatchStrands`), and a merge that would make two matches of one
  draw and pair is refused (`MergeStrands`).
- Slugs: what `ReclaimFreedSlugs` does is a chain of updates in the order of ids; `ReclaimedUpTo` is the
  table after the first so many of them, and the induction over it takes a least counterexample
  (`ReclaimedUpToStep`). What a week's repair and a merge do to slugs is `FinishMoves` and `MergeMoves`.
- Decisions: among the candidates that remain a stub that is merged has one best (`StubsHaveOneBest`), and a
  candidate that was dropped has a row kept of its birthday that remains (`KeeperStays`).

| Theorem | States |
|---|---|
| `SpecBase` | `Spec => []BaseInv` |
| `SpecIdsFollowTheirRow` | `Spec => IdsFollowTheirRow` |
| `SpecNothingIsStranded` | `Spec => []NothingIsStranded` |
| `SpecOnlyMergedSlugsMove` | `Spec => OnlyMergedSlugsMove` |
| `SpecPlainSlugsDieByRespelling` | `Spec => PlainSlugsDieByRespelling` |
| `SpecOnlyFoldsHideARival` | `Spec => OnlyFoldsHideARival` |

**`SiteProofs`.** Three results about the whole of `Site`: any matches, loads, files, refreshers, pages
and walks.

*This week.* The property alone is not inductive. `OngoingInv` adds what
a job in flight knows: the version it holds is one its mirror has published (`JobInv`), and, while
it is `alone`, the rows it is about to delete are all there are. Nothing but a commit of the same
file disturbs the second, and `Commit` marks every other job of the file; that a commit keeps
the rows of the version it names is then the key check (`Taken`) that Postgres makes.

*Walks.* A list is *paged* (`Paged`, `PageIs`) if there is a set of keys of which every page past a
cursor is the first few in order: all of them up to its last, all there are when it is not full. That
each of the four lists is paged rests on one fact about orders, that the elements of a finite set stand
at the places their numbers of predecessors give (`InOrderFacts`, a least counterexample), and on keys
that differ: ids of matches (`MatchesInv`: what is in the table came with a load and no later one took
it), one row a series and week (`TableInv`, and `EngineInv` of the run that writes it: a week that
is flushed is over), one rank a player and date. `WalkIs` then says that what was shown is in order and
every row that held still was shown or is past the cursor; `TakingFacts` is one page more.

*Ratings.* `Follows(e, order, n)`: after n of the matches, every series of the engine is worth what the
replay says, what it `touched` are the series that moved in its week, and what it emitted are the rows
of the weeks before. A match of the same week extends the second, one of a later week flushes it into the
third (`FlushFollows`), an excluded one is passed over (`SkipFollows`); the end flushes what is left
(`CommitFollows`). It needs that the replay goes by weeks (`Mondays`), so that a week which is over is
over for good (`WeekEnds`). Both this and the walk of the leaderboard take as hypothesis that a rating
is made of numbers (`RatingsAreNumbers`): the first rating, K of every number of matches, and the
expectation of every difference are integers, as the functions of the instance are.

| Theorem | States |
|---|---|
| `OngoingStep` | `OngoingInv /\ [Next]_siteVars => OngoingInv'` |
| `OngoingIsWhole` | `Spec => []OngoingIsOfItsValidator` |
| `SpecWalksKeepTheirPlace` | `RatingsAreNumbers` implies `Spec => []WalksKeepTheirPlace` |
| `CommittedRatingsAreTheReplay` | `RatingsAreNumbers` implies `Spec => RatingsFollowReplay` |

**`SetLemmas`.** What the others share: that a set of numbers has a least and a finite order a first
element, that a property of the parts of a finite set holds of the whole if it survives one element
more (`SumOfParts`), and sums. `SumFunctionOnSet` of the community modules is a fold, whose recursion the
lemmas unfold once, at the element it chooses (`SumOfChosen`); that the choice does not matter
(`SumWithout`) and all that is said of sums over unions, images and cells follows.

The assumptions are the named `ASSUME`s of the models, which TLC evaluates in every run: types of
the constants, a plan without duplicates, the limiter's lag, the keys of a published file
(`SourceFiles`, `RateLimiter`, `ReadCache`, `Ongoing`). The others:

| Assumption | Says | Because |
|---|---|---|
| `MatchStoreAssumption` | finitely many players and keys; a key names two different players and a draw; ids are positive and a page has at least a row | the natural key of `matches`; `clutchBatch` |
| `ScoreAssumption` | what is read off a score are two counts, the winner's and the loser's | `internal/score` counts sets, games and tiebreaks of each side |
| `IdentityAssumption` | rows, biographies and merges by hand are of the tours and the ids there are; a match row names two different ids; the bounds are numbers | `row.go:213`; the overrides file names a tour and two ids |
| `SiteAssumption` | matches have numbers for ids and days, two different players, and an id again only when the row before is gone; a player has one rank a date; walks are of lists with cursors | the keys of `matches`, `match_players`, `rankings`; `cursor.go` |
| `NullAssumption` | `Null` is no value of a column | SQL's NULL |
| `LoadJobAssumption` | a database written under the old key has every key of its files' first versions among its fused rows, each with a third man who is not of the key; nobody is merged into himself | what the older releases left, which `prune` is for; `Merge` is of two players |
| `EventsAssumption` | finitely many draws with unique ids; seasons, days, numbers and the words of names are counted; a source has a tier | the rows of `tournaments`; the registry |
| `ReferenceAssumption` | ranking rows name players by id; versions are numbers, the first of them least; the player table is not a ranking file | `RelPaths` |
| `ChartingAssumption` | an id occurs once in a version of the charted matches | `ReadMatches` rejects the second (`charting/reader.go:77`) |

*Only model-checked*, and why:

- Liveness (`RunEndsUnlessBodyBreaks`, `CatchesUp`, `StalenessEnds`, `SettlesUnlessBothHold`, `LoadsSucceed`,
  `RankingsArrive`):
  the prover has no rules for fairness or `ENABLED`.
- `PagesOfOneMomentAgree`, `BracketsReplayTheDraw`: they compare dozens of aggregates and folds of one
  table, or of one bracket. Each is a pure fact about data of the kind `TotalsBalance` is, and would take
  as long; nothing that moves is in them.
- `ImplementsPeople`, `CareersFollowIds`, `PlainSlugsAreLive`: they fail of rows and overrides that the code
  does not rule out (section 7), so they are of the instance. What holds of all is proved.

Induction over data needs care here. The library's induction theorems have an operator as parameter, which
no prover instantiates; the proofs take a least counterexample instead, or the smallest part of a finite
set (`LeastNumber`, `SmallestPart`). Recursive *operators* are out of the prover's reach altogether: no
module that is proved about declares one, `Replayed` is a recursive function, and `Attached`, `Mint`, `Min`
and the like are stated by what they choose.

## 11. Where code and documentation disagree

- `pipeline_broken_body`: `readFile` skips every error of `reader.Next` but EOF as a malformed
  row, and a body that fails repeats its error, so `Run` never returns - not even when it is
  cancelled, which `TestPipelineCancellation` asks for.
- `read_cache_race`: an answer computed before a load and stored after its flush is stale until
  its TTL, though nothing failed.
- `identity_refused`: two rows of a pair that both have one match, which `store.go:96` and the test at
  `store_integration_test.go:238` call redundant rather than a conflict, make a merge violate
  `matches_draw_key` (`migrations/00011`, line 26); the stage ends with the error on every run, and nothing
  after the pair is merged.
- `identity_spellings`: after a merge, a row that spells the player's name the other way renames him, and
  `ReclaimFreedSlugs` (`store.go:216`) moves him to the plain slug of that spelling, which no folded row had:
  "only a slug the merge itself freed may be taken" (`store_integration_test.go:349`).
- `identity_unknown`: an alias of a player without matches is recorded under the source
  "unknown", where the other tour's alias of that number replaces it.
- `read_api_lookahead`: a snapshot is dated to the Monday of its week and holds what the week's
  matches did, and a match is dated to its tournament's first day, so the rating a match is read
  with "as of" its day knows the match itself. The comment above the query calls that "the one
  mistake this whole check exists to avoid".

## 12. Not modelled

Limits of what is modelled:

- *Plan.* Files are distinct; `--seasons 2020,2020` would plan a file twice.
- *Rows.* In `IngestPipeline` a row is its key; what an upsert does to columns is in `MatchStore`.
  Rows that disappear upstream are never deleted by the code, and properties speak of the keys a
  version has.
- *Failure to read the ledger* when a run starts ends the run before it did anything and is left
  out.
- *Floating point* in tokens; the wording of logs and problems; `clientIP`.
- *Statistics* of the cache.
- *Identity.* Rankings and charted figures, which a merge moves as it does the sides of a match;
  the dry run; how names are folded (`KeyOf` is a constant); the limit of 50 slugs; names that
  fold to nothing; an ingest or a second reconcile beside a reconcile.

- *The load.* Identity merges players without matches there, and figures and rankings move with
  `MergeRankings`; the rest of identity is in `Identity`. A batch is one row. Two loads do not overlap
  (`concurrencyPolicy: Forbid`); one started by hand beside the weekly one is not modelled. Names are
  model values: how two spellings fold, and how a charted name matches a player, are constants. The words of
  an event's name and a tour's numbers are numbers in the order of the strings they stand for, none of which
  is a prefix of another.
- *The read API.* The floating point of K, the expectation, blends and closed forms (`match.go`,
  `anchor.go`, predictions); similarity of names; parsing of parameters and cursors, ETags, drains,
  problem documents. Handlers: tournaments and editions, seasons, leaders, percentiles, clutch,
  charted figures, trajectories, recent, coverage, the list of draws, the simulation of one
  match - each reads what the modelled ones read, without state of its own.
- *The web client.* Hooks keep one answer each. `useResource` stores the answer of an aborted request if
  it was already resolved when its effect was cleaned up (`useSearch` guards against it); showing
  that needs a model of when React runs effects, which is not in the repository.
- *Reports*, beyond the sample `SampleRatedMatches` they are computed from; test support; rendering.

`PROJECT.json` gives the status of each component and the reason.

## 13. Plan

Done: the pipeline, cache and limiter; identity; the load with all its stages; the read API with
ratings, draws and this week; and proofs of every safety property that the runs check but five (section 10).
What is left, in order of what it would add:

| What | Argument |
|---|---|
| the remaining read handlers: editions, seasons, leaders, percentiles | more questions of `PagesOfOneMomentAgree` |
| `BracketsReplayTheDraw` | rounds of a bracket as a recursive function; each is half of the one before |
| `PagesOfOneMomentAgree` | page by page, with the sums of `SetLemmas` |

Runs stay within two or three of everything and one or two faults.
