# Verification of fantasy-edge-health

TLA+ specifications of the program in `src/`, TLC configurations that check them
on small instances, and theorems about them that TLAPS checks for every value of
the constants. The program follows a live fantasy-football draft at a provider
that offers no push, keeps a ranked board of the players left, and streams changes
to browsers; it also runs mock drafts, and feeds its database from public and
licensed sources. Python paths below are relative to `src/src/fhe`, web paths to
`src/apps/web/src`; the lines of every definition are in `PROJECT.json` ("map").

## 1. Inventory

| Component | State it keeps | Operations | What is hard | What makes it correct |
|---|---|---|---|---|
| League geometry `core/league.py`, `core/types.py` | none | `pick_number`, `next_pick_for_slot`, `picks_until_next_turn`; slots, flex allocation | round boundary of a snake; a flex slot is a fraction of a position | each pick has one owner; all ways to ask "whose turn" agree |
| Draft state `core/draft/state.py` | `picks_by_no`, `player_to_pick`, rosters | `apply_pick`, `apply_picks` | repeats, any order, corrections, an exception half-way through a batch | indexes and rosters agree; history is kept; arrival order does not matter |
| Live poller `worker/draft_poller.py` | poll count, failures, last metadata, status, stop event | `run`, `_poll_once`, `request_stop` | an await between reading, applying, recording and telling; cancellation at each | each pick is told once, after it is written; none is missed; stop is obeyed |
| Pick recorder `api/services/pick_recorder.py` | rows of `draft_picks`, cached row ids | `record` | best effort: failures are logged and never retried | a row never contradicts the board |
| Poller manager `api/services/poller_manager.py` | `_running`, one asyncio task per draft | `start`, done-callback, `stop` (10 s, then cancel), `stop_all` | callbacks and timeouts that act on a draft id after the entry changed hands | one poller per draft, all tracked, at most 12, none wedged for ever |
| Sessions `api/services/draft_session.py` | `_sessions` (200), each with its draft state, seat, provider status | `register_live`, `get`, eviction, mock operations | eviction of something in use; merging a stale read | the board that is read is the board that is fed; it never goes back |
| Connect and recover `league_connect.py`, `session_recovery.py`, `routers/leagues.py`, `routers/drafts.py` | per-draft recovery lock | `connect_sleeper_draft`, `recover_session`, `disconnect` | five awaits per request, several requests at once, restarts | as for sessions; the seat survives |
| Event stream `api/events.py`, `lib/useDraftStream.ts`, `WarRoom.tsx` | queues of 100, a counter per draft; in the browser the last number, socket state, the board query | `publish`, `subscribe`, `stream_events`; frames, timers, reconnection, re-reads | overflow, silent sockets, reads in flight, restart of the counter | a quiet live screen is current; silence is reported |
| Mock draft `core/simulation/simulator.py`, `routers/simulations.py` | draft state, seeded generator | `advance`, `draft_player`, `reset` | an empty pool, the user's turn | never picks for the user; a pick made is a pick told |
| Recommendation engine `core/draft/*.py`, `core/{usage,depth,rookies,schedule}.py`, `board_builder.py` | none: a function of draft, pool and seat | scoring, ranking, labels, headlines, alerts, what is sent | negative values, unknown data, greedy slot filling, cuts by rank, order of set iteration between processes | a better projection ranks higher; missing data invents nothing; a need is one the roster cannot cover |
| Provider client `data/providers/{base,sleeper,nflverse}.py` | token bucket, attempt count; cache files | `acquire`, `with_retries`, `get_all_players`, `fetch_asset` | concurrent callers, back-off; several processes and a crash on one file | the rate holds; every call ends; a torn file is never good |
| FantasyPros budget `data/providers/fantasypros.py` | a file with the day and its count, a lock, a response cache | `_DailyBudget`, `_get` | check before the lock, charge after the answer, midnight, restart, failing write | the calls of a day stay within the licence |
| Access gate `api/services/access.py`, `routers/auth.py`, `middleware.py`, `AccessGate.tsx` | attempts per address; the browser's cookie and page | sign in, sign out, status, the gate | windows that open and close, changed passwords, answers in flight | guesses are bounded; the cookie outlives what it should and no more |
| Identity `data/identity.py`, `ingest/{crosswalk,lookup}.py` | crosswalk, name index | `resolve`, claims | two sources of one id, namesakes, an id that becomes known later | one owner per external id, whatever the order |
| Ingestion `data/ingest/*.py`, `routers/imports.py` | `ingestion_runs`, the datasets' tables | the jobs of `fhe ingest`, the uploads | a job that fails or dies between two tables, two jobs at once | no half sync is seen; no run is left open by an error |
| Player pool `api/services/player_pool.py` | none | twelve queries for one pool | imports commit between two queries; nulls in orders; a coach's broken spells | the pool says of itself what holds of it |
| Database schema `db/`, `alembic/` | tables, the stamped revision | upgrade, downgrade, `create_all` (`fhe seed`, every `fhe ingest` and `fhe quality`), release, roll-back | models and migrations written apart, two dialects, a migration killed, an older image on a newer schema | the head revision is what the models and upserts need |
| Health models, machine learning | none / model files | heuristics, training | statistics | outside a model checker's reach |
| HTTP surface, command line, war room | none | wiring, serialisation, rendering | - | - |

Components interact in five ways. The poller calls the provider and the recorder
(awaits); it shares one `DraftState` *object* with the session, so identity of
objects matters; it tells rooms through the event bus (a call without suspension on
the in-process bus); browsers answer events by reading the board over another
connection, and that board is computed from the draft state and the pool the
session was loaded with; and ingestion, in other processes, changes the tables a
pool is loaded from and the id map the poller looks players up in. Everything on
the server is asyncio: interleaving happens at awaits and nowhere else, so one
action is one stretch of code between two awaits. Between processes it happens
at every file operation or committed statement.

## 2. Modules

| Module | Models | Extends |
|---|---|---|
| `League` | pick order as pure operators | - |
| `MockDraft` | simulator and operations of a mock session | `League` |
| `DraftRecord` | `DraftState` as a value; a batch said in closed form (`AppliedOf`) | `League` |
| `DraftState` | the loop of `apply_picks`, one pick a step | `DraftRecord` |
| `BatchArrival` | the loop with the draft its batch arrived at | `DraftState` |
| `FollowedDraft` | abstract: what following a draft promises the room | - |
| `LivePoller` | one poller task, its provider, its recorder, its events; `KeepsItsPromise` is the refinement of `FollowedDraft` | `DraftRecord` |
| `PollerManager`, `PollerOverlap` | the manager, its tasks, callbacks, callers and shutdown; the same with a history of overlapping connects | - |
| `LiveSession` | connect, recovery, eviction and restart beside one poller | - |
| `EventStream` | bus, counter, browser hook and board query, for one draft and one browser | - |
| `ProviderCalls` | token bucket, retries, back-off, error classes | - |
| `AssetCache` | a cached download, read and refreshed by processes that die | - |
| `LicensedCalls` | FantasyPros: budget, lock, spacing, response cache | - |
| `AccessGate` | limiter, cookie, middleware and the browser's page | - |
| `Identity` | names, tokens, crosswalk, resolution, claims: pure operators | - |
| `DatasetRows` | what each dataset job keeps, rejects and cannot place: pure operators | `Identity` |
| `Ingestion` | runs, transactions, failures and kills of the jobs | `DatasetRows` |
| `SchemaTables` | the schema as migrations build it, as models declare it, as upserts need it | - |
| `Schema` | a database upgraded, lowered, seeded, ingested into, killed and served from | `SchemaTables` |
| `PoolQueries` | the questions of `load_pool_players`: pure operators | - |
| `PlayerPool` | one question after another between imports | `PoolQueries` |
| `Lineup` | slots, replacement ranks, roster need | - |
| `DraftValue` | value, tiers, scarcity, survival, usage, depth, rookies, schedule | `Lineup` |
| `DraftEngine` | the components of a score, the two ranking passes, labels | `DraftValue` |
| `DraftBoard` | context, headlines, alerts, payload | `DraftEngine`, `DraftRecord` |
| `LiveBoard` | the board of a followed draft, across reconnections and restarts | `DraftBoard` |
| `MC*` | instances for TLC: small sets, symmetry, several machines in one run | |
| `*_proofs` | theorems: `League`, `LivePoller`, `PollerManager`, `LiveSession`; `Draft_proofs` has the record, its batches and the mock draft, `Network_proofs` has the provider calls, the gate and the stream, `Data_proofs` the cached file, the licensed calls and the ingestion jobs, `Board_proofs` the pool and the board | the module, `TLAPS` |

How state corresponds to code:

* **League, DraftRecord.** A league is a record of what the pick order depends on.
  A draft is a record of the three dictionaries of `DraftState`. `AppliedOf` says
  what a whole batch comes to without a loop; the poller's model uses it, and
  `ArrivalOrderIrrelevant`, checked by `sessions` and proved, says the loop comes to it.
* **MockDraft.** Picks are made in order, so `made` is a sequence of who picked for
  which seat; `draws` is how far the seeded generator has gone; a pool is its size,
  because every pick takes one player. A request runs without a suspension on the
  in-process bus and is one action: `StopsAt` is where the loop of `advance` ends -
  the picks asked for, the end of the draft, the user's turn, an empty pool - and
  `Raises` is the last of these, which skips the announcements.
* **LivePoller.** `pc` is the point of `_poll_once` the task is at: `picks`,
  `metadata`, `record`, `sleep` are awaits, and there the room, a stop request, a
  `ProviderError` or a cancellation may act; `check`, `reconcile`, `publish` are
  not. The provider resends everything, changes a pick, adds one outside the league,
  or answers with something that is not a list. The interval is an arbitrary wait.
  `FollowedDraft` sees of it the players known, the players shown, how often each
  pick and the end were told, and whether the poller runs.
* **PollerManager.** A task is `unborn`, `polling`, `cancelled`, done (`returned` or
  `raised`: its callback has not run) or `over`. `stop` is two steps: what it does
  before it waits, and what it does after the task or the ten seconds are over.
* **LiveSession.** A draft state is an object from `Objects` with the number of
  picks it holds. A request is at `draft`, `persist`, `picks`, `record` or
  `register`, its awaits; `register` is the one stretch to its end,
  `PollerManager.start` included. An object neither held nor fed is garbage. A connect
  names somebody of the order or nobody: the seat it reads is any of `DraftSlots` or
  none, and replaces the one of the row and of the session. Two histories say what the
  seat should be: `wrote`, what the last connect to write the row gave it, and `due`,
  what the held session is to say: its connect's seat, or `wrote` if it was rebuilt.
* **EventStream.** A board is the number of changes it contains. An event has a type
  and a number and no board. Subscription queue and socket buffer are one queue.
* **ProviderCalls.** Tokens are counted in units (a tick adds `Rate`, a token is
  `Unit`), times are ages and waits, so no clock grows. The body of `acquire` holds
  no await under its lock and is one step; sleeping, back-off and the request are
  where callers meet. `Retry-After` is not honoured by `with_retries`, so it is not
  an input.
* **AssetCache.** A body is good, bad (breaks its contract) or torn. The temporary
  name is shared; two refreshes share one file body under it. sleeper checks before it replaces,
  nflverse when it reads.
* **LicensedCalls.** `budget` is the process's copy, `disk` the file's; `counted` is
  the provider's. A task is idle, queued for the lock and its spacing, or calling; the
  check of the budget precedes the lock, its charge follows the answer.
* **AccessGate.** One browser per address. A signature is a record of key and time
  left. The limiter lives in the process, the cookie in the browser.
* **Identity, DatasetRows, Ingestion.** A name is a sequence of words, an id a number
  or a token that means "none". A job is idle or at `fetch`, `map`, `write`, `close`; its transaction
  `txn` is a copy of the tables that others do not see until `Commit`. Upserts are
  by the keys the statements name, and fail on the other unique keys.
* **SchemaTables, Schema.** A table is its unique keys, its nullable key columns, its
  references, later columns and the SQL function of its dates. A command is a sequence of
  statements, one step each; on PostgreSQL a command is one transaction, on SQLite each
  statement is final. `StartCreateAll` is the `create_all` of any released image;
  what an older image's models describe is what its migrations build.
* **PoolQueries, PlayerPool.** A table is a set of rows, a mean a sum with its count.
  Where the database may return equal rows in any order, a question has several
  answers and the load takes each of them.
* **Lineup to LiveBoard.** Points and picks are in hundredths, fractions in
  ten-thousandths; divisions round down where Python's floats do not round. The
  normal tail (`math.erfc`) is a parameter. `hash` is the order a process iterates a
  set of positions in. A board is recomputed whole after each batch.
  `Reasons` is a set: it leaves components of no points out, and where the fourth
  largest ties with others it keeps them all.

## 3. Runs

Machines that share nothing are checked in one run, a variable `which` saying whose
behaviour it is; fairness there is of the machine the behaviour is of.

| Run | Instance | Shows |
|---|---|---|
| `sessions` | mock drafts: leagues of 2-5 teams and 1-4 rounds, snake and linear, any seat, pools of 5 and 20, advances of 1 to 7, 2 resets; a followed draft: 3 seats, 1 round, 4 players, batches of up to 2 with clashes; a live session: 2 requests, one seat or none, 2 objects, 1 pick, 1 eviction, 1 restart | the computer never picks for the user, "your turn" means on the clock, a pick made is told unless the pool ran dry; completion is exact; a finished batch is a function of its set; the board read is fed (unless evicted while polled), written, says the seat it should and never goes back |
| `live_poller` | 2 picks, 3 players, one correction, one stray pick, garbage answers, give-up at 3 failures, metadata every 2nd poll | what is told was written; stop is obeyed; every pick of the room arrives; the loop implements `FollowedDraft` |
| `poller_manager` | 3 drafts, 3 tasks, limit 2, one disconnecting request and shutdown | one tracked poller per draft unless a connect overlapped the end of an earlier poller; asked pollers end, wedged ones too; shutdown does not hang |
| `network` | provider: 2 callers, a burst of 1, half a token a tick, 2 attempts; gate: 2 passwords, 2 failures, lockout and session of 3 ticks; stream: queue of 2, 2 changes, 4 events, 2 lost or silent connections or restarts | never more requests than the provider counts as allowed, and every call ends; guesses bounded in every stretch of time; the cookie is the session; a quiet screen is current unless blinded, announced changes appear, silence is reported |
| `data` | a cache file and 2 processes; 2 licensed tasks, limit 2, days of 4 ticks; a command-line job and an upload over a payload of two players, a namesake and a contested id, every dataset; both databases, all three revisions | a torn file only where two refreshes met; the licence exceeded only by tasks already past the check; no half sync seen, no run left open, owners independent of order; head revision = models = upsert keys, every serving image finds its schema, only tables of a `create_all` get in a migration's way |
| `board` | board: 2 teams, 2 rounds, 7 players (two alike below replacement, a rookie, an unprojected tight end, an unmapped defence), two pools, two lineups with nested flexes, with a seat and (one lineup) without, 2 hash orders; pool: 3 players, limit 2, imports in three scoring families, coaches with broken spells | a projection better by more than rounding hides ranks higher, a market price adds nothing to the score of a player without a projection, no position looks empty, need is exact where flexes nest and the lineup shown has the same holes, a pick changes nobody's value; one family of projections and one of draft positions, and exactly which of them is told, the market survives the cut, landing spots speak of one unbroken spell |

Six runs expect a violation: each checks one sentence of the code or its docs, and
TLC finds the behaviour that contradicts it.

| Run | Sentence | What happens |
|---|---|---|
| `two_pollers` | "a draft can never end up with two pollers" | the done-callback of an ended task, or `stop` after its wait, removes the entry of a *newer* task of the same draft; the next connect starts a second poller |
| `frozen_board` | "without replacing the session identity that ... the poller [is] attached to" | at 200 sessions one is evicted though its poller runs; the next read rebuilds it with a new state, the old poller goes on writing the old one, and the board stands still |
| `never_complete` | "pick arithmetic alone would keep reporting it as live forever" | the status of a session is set at connect only: a draft that ends while followed stays "drafting" |
| `stuck_sync` | "the collision is resolved deterministically and the loser is reported as a rejection instead of crashing the sync" | a player stored before his GSIS id was known gets a second uuid once it is; his id rows break the unique key the first one still holds, in this sync and every later one |
| `drafted_stays` | "the pick still consumes its slot and still removes a player from the board" | a picked player whose provider id the id map lacks is recorded under an invented uuid; the player of the pool is still recommended |
| `sqlite_dates` | "SQLite is supported so the demo runs with no infrastructure" | the second migration dates `scheduled_games` with `now()`, which SQLite lacks: no game can be inserted on a migrated SQLite database |

Some definitions say more than the code keeps and are in the modules for whoever
changes it; no run checks them. Three of them are sentences of the code that the code
contradicts, as TLC finds on the instances above:

* `UnprojectedByMarketAlone` (`LiveBoard`): "Players without a projection are ranked by
  market signal alone" (`core/draft/engine.py:119`), "by ADP alone" (`core/draft/models.py:111-112`).
  Scarcity and roster need (`engine.py:260-291`) count for them as for anybody; the ADP
  term needs a projection (`:308`), so ADP only decides between equal scores (`:640-641`). Of an
  unprojected tight end with ADP 46 and an unprojected back with ADP 30 the tight end
  leads, when his slot is open or his position scarce. What the code does keep is
  `MissingDataInventsNothing`: the market price leaves the *score* of such a player alone.
* `WholePoolReadsOneFamily` (`PlayerPool`): "The whole pool reads one family"
  (`player_pool.py:461`). Projections and draft positions resolve their scoring family each
  for itself; with projections stored as standard and positions as ppr a half-ppr pool
  has both, and `projection_swap or adp_swap` (`:343`) tells only the first. What it does keep is
  `FamiliesAreToldApart`: each of the two is of one family, and a pool that tells nothing has
  the league's own.
* `DeploymentUsesAlembic` (`Schema`, under `DeploymentSpec`, where nobody seeds): `_create_schema`
  is "used by `seed` for a throwaway local database. A real deployment uses Alembic"
  (`cli.py:60-61`). Every `fhe ingest` and `fhe quality` begins with it (`:85`, `:120`, `:148`,
  `:169`, `:190`, `:218`): the ingest of an image that is not migrated yet creates
  `scheduled_games` without a stamp, beneath the image that serves, and the upgrade that
  follows fails on that table.

The others are `OrderSurvivesBelowReplacement` (the normalised value stops at -1, so far
below replacement two players tie and the market decides; so they do where rounding
hides the advantage), `NeedIsExact` (two flexes that overlap without nesting, REC_FLEX
and WRRB_FLEX, leave a need the roster could cover) and `UnknownNeverTops` (a player without
a projection may lead a board whose others are below replacement) in `LiveBoard`, and
`GoodStateIsKept` in `AssetCache` (an nflverse asset replaces the one before it and is
parsed afterwards).

Behaviours no property forbids, because the code chose them or because they are
known and small:

* draft: a pool that runs dry inside an advance leaves picks on the board nobody was
  told of (`draft_session.py:345`); a pick whose write failed is never written later
  (`pick_recorder.py:75`); a pick the provider changes is a conflict on every later poll; a
  status may be newer than the picks read before it (`draft_poller.py:296`); an exception other than
  `ProviderError` leaves the loop with status LIVE (`draft_poller.py:258`); one exception ends `stop_all`
  early (`poller_manager.py:151`); a connect during a disconnect is answered with the
  poller about to end (`:103`); two overlapping requests can write a row without the
  seat the other found (`league_connect.py:365`); a connect that names nobody, or somebody
  not in the order, takes the seat from row and session, overlapping or not (`:292`, `:315`,
  `schemas.py:464` makes the user optional); the poller's id map is the one of its connect.
* stream: the first number is taken on trust (`useDraftStream.ts:166`); the
  `RESYNC_REQUIRED` of a full queue finds it full too; numbers start over with the process.
* board: the lineup shown to a user seats the best projected player who fits where the engine
  takes the position with the most left (`mappers.py:321`, `roster.py:111`), so where flexes overlap they
  may leave different slots open; a
  position's weeks covered are those measured, not those with a known opponent
  (`schedule.py:44`).
* ingestion: `ingest_injury_history` stops at its first failing season; stale depth-chart rows
  and a stale current health row persist; a killed run stays RUNNING for ever, and so
  would one whose closing write fails (`run.py:163`, `:181`; not modelled: `close` succeeds
  or the process is killed); a
  projection for a week outside the season becomes season-long; a CSV row matched by
  name and position alone ignores its team; `convert_adp` without a position column
  skips every row.
* schema: a migration killed on SQLite leaves unstamped tables and the next one
  fails; `fhe seed`, `fhe ingest` or `fhe quality` before the `alembic upgrade` that makes
  the tables leaves an upgrade that fails on them. Two commands at once are not modelled.

**Bounds.** Each is a constant or stated above. Two picks are the least for which a
response can hold one known and one new pick and a correction can free a player for
a later pick; one round of three seats has gaps, a full draft and a number past the
end; leagues of two to five teams have both parities and up to four rounds two
reversals, and a pool of five runs dry in the larger ones; three tasks let a draft be
followed, stopped and followed again while another runs; three drafts with a limit of
two make a refusal; one pick per board is enough in `LiveSession`, where properties compare
sets of picks, one seat and none are two answers connects can differ in, and two requests are the least that overlap (the theorems remove
these bounds); a queue of two overflows with one announcement of a live pick and one
remark. Two callers with one token make one wait for what the other takes; `Window`
(5 ticks) is longer than any wait of a caller. Two failures, a lockout and a session
of three ticks let windows open, close and straddle each other. Two licensed tasks
are the least of which one waits in the lock with a budget already spent; six ticks
hold a midnight. Two jobs and three runs let one job fail, be killed, and repeat
beside another. Four picks of six players (the lesser of two alike is never picked) exhaust positions and lineups; the
transmitted board is cut at two with one per position, so the floor matters. Symmetry
is used only in `sessions`, which has no liveness property. Deadlock is not checked: each
system may stop for good (a draft ends, a process shuts down, a browser has nothing to do).

**Fairness.** `LivePoller`: weak fairness of the task's own steps - each await ends,
because the HTTP client, the database driver and `asyncio.wait_for` time out. The
room owes no pick, the provider may fail; `PicksReachTheBoard` therefore excepts a
poller that gave up, a corrected draft and garbage for ever. `PollerManager`: the
event loop runs callbacks and timers, a cancelled task winds down; a polling task
never has to end. `network`: time passes and each caller of the provider takes its
next step (sleepers wake, the HTTP client times out); requests are served and the
browser's timers fire, while the network may fail or stay silent for ever. `data` and
`board` state no fairness: a job, a migration or a load may be killed or never run.

**Refinement.** `FollowedDraft` has no provider, no errors and no database: picks are
found in batches, a batch is announced before the next is looked for, each pick is
told once, the end is told at most once and by a poller that polls no more, and a batch
found is announced unless following ends. `LivePoller` implements it under its
mapping (`KeepsItsPromise == Following!Spec`), the liveness part included.

## 4. Theorems

All hold for every value of the constants that satisfies the named assumptions (the
limit and the bounds are naturals, sentinels are not members of the sets they sit
beside, the league is one `LeagueSettings` accepts). Sets of requests, tasks,
players and drafts are arbitrary, infinite ones included where nothing is counted.

* `League_proofs`: `PickNumberIsInjective`, `PickNumberIsInRange`, `EveryPickIsOwned`
  and, from these, `ClockFindsTheOwner`: the search for the seat on the clock gives
  exactly the owner. Argument: round and seat are quotient and remainder.
* `Draft_proofs`, mock drafts: type correctness, `OnlyTheUserPicksForTheUser` and
  `TurnMeansOnTheClock` (checked by `sessions`), `WaitIsBounded`, `SameSeedSameDraft`
  and `EveryPickIsToldUnlessDry` (checked by `sessions`), for leagues of any size. One lemma carries them, `TurnIsOwned`: a seat's wait is
  zero exactly when the pick is its own; a seat's picks rise with the round
  (`LaterRoundLaterPick`), so the first one found is the least. With
  `ClockFindsTheOwner` the two ways to ask whose turn it is agree. `StopsThere` says
  that nothing stopped an advance before its end, hence no computer picked at the
  user's turn. The generator's position is a count of picks, by cardinalities of
  disjoint sets.
* `Draft_proofs`, the record: type correctness, `IndexesAgree`, `RostersMatchPicks`,
  `HistoryKept`, `CompleteMeansEveryPickMade` (checked by `sessions`),
  `ClockMovesForward`, `ArrivalOrderIrrelevant` (checked by `sessions`). Only `ApplyPick` changes the draft, so each invariant is a
  lemma about `WithPick` under the outcome APPLIED. Completion needs a counting
  argument: a subset of `1..n` with at least n members is `1..n`. Rosters need the
  indexes (a player not in the index is on no roster). The order of arrival needs an
  invariant about a batch half-way through (`OrderInv`): since the least number left is
  always next, what is applied so far is what the closed form makes of the picks below
  every number left, and a batch cut short stopped at the least pick that raises; no pick is
  decided by one above it.
* `PollerManager_proofs`: type correctness and `EntriesAreLive`; then, with the history
  `overlapped`, `OnePoller`, `EveryPollerIsTracked` (both checked by `poller_manager`),
  `TheLimitHolds`. The inductive invariant `Exclusive` says, while no connect
  overlapped an ending, that every polling task is the entry of its draft and that
  whoever is about to remove a draft's entry (a done task, a waiting or resuming
  caller) can only remove that task's own. The limit then follows by counting:
  polling tasks inject into entries. `HistoriesChangeNothing` shows that the history
  only observes.
* `LiveSession_proofs`: type correctness - no row, board or request holds a pick the
  provider does not list - then one invariant per property, all checked by `sessions`. *Fed*:
  `feeds` is nothing or the held object. *Written*: besides the property, what a
  request at `register` is about to merge is in `rows` or `unwritten`; both only grow
  together. *Never back*: merging takes the larger of two prefixes. *Seat*: without
  overlap there is one request at most; the row has the seat the last connect to write it
  read, a recovery and a connect past its write carry the row's, and the session says what
  it is due.

* `LivePoller_proofs`: type correctness, `TellingMeansWritten` (checked by
  `live_poller`), that every pick shown was told exactly once (`EveryPickIsToldOnce`),
  and the safety part of the refinement, `FollowsTheDraft`: each step of the poller is a
  step of `FollowedDraft` or leaves its state alone. The invariant follows the cycle:
  from `record` to `publish` the draft is the board shown and the picks applied, which are
  new to it (`GrownByApplied`); elsewhere the two are equal; a pick is told once exactly
  when it is shown; and what is shown, or about to be, is in the rows or its write failed.
  It rests on `AppliedAreNew`: the picks a batch applies are legal, new, and share neither
  number nor player. An answer names each number once among its legal picks
  (`NumbersAreUnique`), because the provider lists a board.
* `Network_proofs`, all checked by `network`. `NeverAboveTheRate`: for every remembered
  request, what was sent since, *plus what the bucket would hold now*, is within the burst
  and the rate (`RateInv`); the property alone is not inductive, since a full bucket after a
  full stretch would break it at the next request. `GuessesAreBounded`: the
  window a failure opens is exactly as old as the last wrong guess and counts at least the
  guesses remembered (`GuessInv`). `TheCookieIsTheSession`: a cookie signed with the
  password in force has as much left as its sign-in is old, and one signed with a password never
  in use has nothing left (`SessionInv`). `QuietBoardIsCurrentUnlessBlind`: the browser is
  blind, or will end with what was announced, or *something still to come shows it the
  gap* (`Cued`): a number past the last one seen that no remark in the queue will carry
  it over - the next frame of an open stream, or the number the next one opens at. A
  live room's announcements take two numbers, which is why one remark cannot hide both.
* `Data_proofs`, all checked by `data`. `TornOnlyWhereTwoMet`: while no two refreshes
  met, there is one at most, and what it has written is what stands under the temporary name.
  `LicenceKeptButForWaiters`, by counting tasks: the provider's count is at most the budget's
  and the call under way, and count and *queue* together stay below the limit and the
  number of tasks, since a task enters the queue only while the budget is not spent
  (the tasks are assumed finite). `RunningMeansAtWork`: a job at work holds a run of its own,
  and every step that lets go of it closes it. `HalfASyncIsNeverSeen`: rows wait in a
  transaction, of the job's tables only (`RowsAreOfTheKind`, for every dataset), so a commit
  changes nothing another job reads. This one needs `SlotsAssumption`: no two slots load the
  same table, as it is for the command line, which loads what public providers publish,
  and the uploads, which load files; two uploads of one kind at once are outside it.
  `OwnersIgnoreOrder`, for every order of a payload: the job writes what one pass over the
  payload made of it (`ScanInv`); a payload in another order makes the same claims at
  other places (`OrderMovesClaims`: an order is a surjection of a finite set on itself,
  so no entry is doubled), and places decide nothing (`PlaceDecidesNothing`): the
  winner exists, by the least natural number taken twice, for the confidence and for
  the provider's id, and is one player because ids are. `PayloadAssumption`: entries
  have provider ids of their own, as the provider keys its payload by them. Of two
  entries of one internal player the first is kept, so there order does decide, and the
  property says nothing.

* `Board_proofs`, the pool, all checked by `board`. `FamiliesAreToldApart`: each answer is of one
  family and names it (`OfFamily`) whatever the tables are when it is asked for, and
  survives the imports after it because it is held. So a pool that tells nothing has the
  league's own family throughout; a second foreign family is not told (`WholePoolReadsOneFamily`). `TheMarketSurvivesTheCut`: imports add
  and replace rows of a key, so a player with a market keeps one (`StoreInv`), and by
  cardinality a selection that leaves one of them out would hold one without a market.
  The proof showed that the property must speak of positions a pool has
  (`POOL_POSITIONS`) only. `LandingSpotsFollowTheCoach`: the seasons of `Tenure` are an
  interval that ends at the last season, so their number says which they are
  (`TenureIsUnbroken`); a workhorse shows in the average because a sum of counts is
  no less than any of them (`SumBounds`). Sums are folds over finite sets, and what is
  proved of them is proved by induction on cardinality: `AllOfNat` states induction
  for a *set* of numbers, which the provers can instantiate where they cannot
  a predicate. Assumed: tables are finite, `Null` is no row, no format and no
  number, what the statistics count is not negative (`_number` drops such cells), and no import
  writes players or games while a pool is loaded.
* `Board_proofs`, the board, whatever the room picks and however often the session
  reconnects or restarts: `BoardIsOfThePool`, the invariant the others rest on - the
  baseline is that of the pool, and the board is one that draft, pool and baseline
  evaluate to in some iteration order of the positions. `ValuesHold` (`ValueIsSteady`): a
  baseline depends on pool and lineup only, and an id names one player of the pool. The
  others must know what a ranked list is. Every number a score is made of is one:
  the replacement level is a projection or nothing, a tier has a size, the shares of the
  flexible slots are counts, a survival is a fraction (`BaselineIsInt`,
  `TierHasASize`, `ScoreIsInt`). Hence the order is a strict total one, and by induction on the
  number of players each place is taken by exactly one (`PlacesAreTaken`,
  `BoardIsRanked`). `NothingIsInvented` (`MissingDataInventsNothing`): a missing
  projection is normalised to 0, has no market term and no urgency; of his score only, since
  ADP still orders equal ones. `PositionsAreShown`
  (`NoPositionLooksEmpty`): what is sent is kept in its order (`SentInOrder`), and the first few
  of a position are among the kept ones (`FirstFew`). Lists taken from a list are
  written as the places kept, so that no proof needs induction over sequences.
  `BetterRanksHigher` (`BetterProjectionRanksHigher`): an advantage of more than 3
  ten-thousandths of the scale survives the division and the limits of the normalised
  value (`AdvantageShows`) and is worth a hundredth of a point (`GrainPays`), and no other
  component takes it back (`BetterScoresMore`): those that depend on the value grow with
  it, and the market's grows with an earlier rank. It is used twice, as the code scores
  twice: without the market it gives the earlier rank of pass one, with it the higher
  place of pass two. Attempting the proof for every advantage showed that the code
  does not keep that (components are rounded before they are added, the normalised
  value stops at -1), and what it does keep.
* `Board_proofs`, the lineup. The engine fills slots with positions, the client's view with
  players, each greedily and with its own preference. Both are runs of one scheme - slot
  after slot takes somebody who is left and fits, if anybody does (`FillIsRun`,
  `ArrangedIsRun`). `NestedFillIsLargest`: where of two overlapping slots one holds the
  other and the inner comes first in the order (`NestedIsInnermost`: the engine's
  order by the number of positions does that), a run leaves no more slots open than any
  assignment of players to slots would. It rests on a count: a slot is filled exactly
  when fewer slots inside it were filled before it than there are players who fit it
  (`WhenASlotIsFilled`). So the players who fit a slot left open have all gone to slots
  inside it, and these and the open one are more than the players they could have
  (`NoFillIsLarger` is the bound for any fill); and which slots are filled does not
  depend on whom a run takes (`ChoiceDoesNotMatter`), so neither on a process's
  iteration order nor on projections, and both fills leave the same ones open. Together `NeedIsExactWhenNestedHolds` (`NeedIsExactWhenNested`). The proof made
  the model say what the payload does where the lineup has no hole: it shows the
  engine's list (`RosterOut`).

  Assumed of the board and the lineup: a pool names each player once, known data are
  numbers, and the normal tail lies between 0 and 1 (`PoolsAssumption`); the lineup and
  the user's seat are ones of the league, and an iteration order gives each position a
  number (`SessionAssumption`).

Only model-checked:

* everything temporal (`StopIsObeyed`, `PicksReachTheBoard`, the liveness part of
  `KeepsItsPromise`, `AskedPollersEnd`, `ShutdownEnds`, `CallsEnd`, `AnnouncedIsShown`,
  `SilenceIsReported`): liveness under fairness is out of the proof system's reach;
* the properties of `Schema`, which speak of two fixed lists of statements and of a
  finite set of versions, and have no parameter a proof would add to.

## 5. Plan

1. Done: drafts, polling, sessions, streaming (`League` to `EventStream`) with the
   theorems of section 4.
2. Done: the edges (`ProviderCalls`, `AssetCache`, `LicensedCalls`, `AccessGate`), the
   data (`Identity` to `Schema`), the pool and the board (`PoolQueries` to `LiveBoard`),
   and the abstract promise `FollowedDraft`.
3. Done, proofs: the poller and the safety part of its refinement, the limiter, the
   gate, the stream, the cached file, the licence, the ingestion jobs and the owners of
   contested ids, the order of a batch, the player pool, the board, the lineup.
4. Open: the Redis bus (its generator-backed subscription and its reconnection), the
   data quality report.

## 6. Not modelled

* Health, injury and rookie *scores*: weights and classification tables applied once
  per player to values already loaded, without state; a model would restate the
  weights. The board takes the risk of a player as given.
* Machine learning: statistical training, offline.
* HTTP surface, configuration, serialisation, rendering, command-line output, the load
  test and screenshot tools: wiring without a state of its own. What of them matters
  elsewhere - the middleware, the payload's cut, the lifespan's shutdown, the order of
  ingestion jobs, their `create_all` - is in the module it matters to.
* Of modelled components: the polling interval's length, the row-id cache of the
  recorder, parsing of provider payloads and of the PDF export, plain columns and types
  of tables, log lines and metrics, wording of reasons and alerts, the Redis bus.
