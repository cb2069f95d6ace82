# A TLA+ model of the poker server

The repository is a NestJS server on which bots play no-limit Texas hold'em, at
single tables and in tournaments of many tables. This directory holds TLA+
modules translated from its TypeScript source, TLC configurations that check
them on small instances, and TLAPS proofs of what matters most for every
instance. Paths are relative to the repository (`src/src/...` is the code,
`src/docs/...` the documentation).

- [1. The system](#1-the-system)
- [2. The modules](#2-the-modules)
- [3. The runs](#3-the-runs)
- [4. The proofs](#4-the-proofs)
- [5. Where code and documentation disagree](#5-where-code-and-documentation-disagree)
- [6. What is not modelled](#6-what-is-not-modelled)
- [7. What could come next](#7-what-could-come-next)

## 1. The system

The server is a Node process, of which several may run: one thread runs every
handler, timer and promise continuation, and a handler is interrupted only at an
`await`. Tournament simulations run in worker threads. State is in memory, with
PostgreSQL, Redis (for locks and snapshots) and an object store behind it.

| Component | State it keeps | Operations | Correct when |
|---|---|---|---|
| Betting round (`domain/betting.ts`) | bets of the street, the bet to match, smallest raise, who has answered | fold, check, call, raise; is the street over | a bot is asked only for what it owes |
| Pots (`domain/betting.ts`) | what each bot put in | add a bet, compute main and side pots | pots pay out exactly what was bet, nobody wins above its cap |
| Table, `GameInstance` (`services/game/live-game-manager.service.ts`) | seats, stacks, button, hand, deferred joins and leaves | join, leave, reactivate, the game loop, stop | chips are conserved, seats are frozen while a hand is played, hands end |
| Live games, `LiveGameManagerService` (same file) | the games by table | create, remove, heartbeat check, recover | one running game per table; what is recovered is what was saved |
| Director, `ActiveTournament` (`modules/tournaments/tournament-director.service.ts`) | tables, bots still in, bust order, hand-for-hand mode | handle a completed hand, busts, balancing, breaking tables, finish | a bot is at one table, leaves without chips only, the winner is first, the tournament ends |
| Barrier, `BarrierCoordinator` (same file) | tables checked in, waiters, a timeout | check in, release, timeout | tables on the bubble play in step, and none waits for ever |
| Director service (same file) | the running tournaments | scheduler, start, recovery after a restart | a due tournament starts or is cancelled, a running one is played |
| Tournament registration (`modules/tournaments/tournaments.service.ts`, `services/bot/bot-auto-registration.service.ts`) | entries, status | register, unregister, inject, cancel | no more entries than seats, whoever overlaps |
| Daily matchmaking and prizes (`modules/matchmaking`) | the day's master, its pods | create, lock and split, execute, pay | one master a day, its pool given out once |
| Distributed lock (`common/redis/lock.service.ts`) | keys with an owner and a time to live | acquire, release, withLock | two holders only when one outlives its lock |
| Worker pool (`workers/worker-pool.ts`, `pool-tournament-worker.ts`) | slots, queue, promises in flight | dispatch, heartbeat check, replace, shutdown | each task settles once, no idle slot beside a queue |
| Recovery and snapshots (`services/game/game-hot-state.service.ts`, `game-recovery.service.ts`) | snapshots in Redis | save, delete, rebuild a stuck game or after a restart | chips survive, a finished game stays finished |
| Records of hands (`services/game/game-data-persistence.service.ts`, `hand-stats-processor.service.ts`) | rows of hands, players and statistics, caches | event handlers, flush | a hand counts once; handlers do not deadlock |
| Archive (`modules/archive`) | objects of old tournaments | archive, prune, read an archived hand | nothing is deleted that is not stored; every hand can be read |
| Wallets (`modules/finance`) | balances, transactions | deposit, withdraw | a balance is the sum of its transactions |
| Provably fair (`services/provably-fair.service.ts`), hand evaluation, strategy engine | none, or caches of a hand | computations of one call | see section 6 |
| Gateways, bots, auth, leaderboard, analytics, validators, frontend | rows, sockets | endpoints and broadcasts | see section 6 |

How they interact:

- The **director service** starts a director when its scheduler or an endpoint
  finds a tournament due, and again after a restart.
- The **director** creates a `GameInstance` per table, adds and removes bots by
  direct calls, and hears of hands and ends of games by events
  (`game.handComplete`, `game.finished`, `game.stuck`). Its handlers await the
  database and Redis, so they overlap each other.
- A **table** runs its loop by itself. Joins and leaves that arrive in a hand are
  pushed on `pendingMutations` and applied after it.
- Between hands the loop awaits the table's `interHandHook`, which on the bubble
  is the **barrier**.
- Tournament tables run in *simulation mode*: every sleep is a resolved promise,
  so between two hands only microtasks run. Timers, database replies and
  `setImmediate` callbacks, in short everything the director does, wait until all
  loops are suspended at the barrier or over.
- A table's events also feed the **records** (rows of the hand, counters,
  statistics) and the **hot snapshots** in Redis. The table waits for neither.
- The **watchdog** of the live games takes silent and failed games out of the
  registry and emits `game.stuck`; **recovery** reads the snapshot and hands it
  back to the registry.
- The cron jobs of **matchmaking** and **archive** fire on every server and
  exclude each other by the **distributed lock**.
- The tournaments' **simulation service** dispatches tasks to the **worker pool**
  and awaits their promises; a thread answers by messages and dies by events.

What is hard about it: calls that arrive inside a hand; a hand that throws half
way; a loop that can only be ended by a cap; odd chips and side pots at the
boundary of a stack; a barrier whose parties fail, break or never come; handlers
that read, await and write what they concluded, while others do the same; locks
that expire; crashes between two writes; commands nobody waits for; one failure
that is reported twice; shutdown with work in flight. The list with its lines is
`hazards` in `PROJECT.json`.

## 2. The modules

| Module | Models | Kind |
|---|---|---|
| `BettingRound` | class `BettingRound` and `normalizeRaiseAction` | operators on a round |
| `PokerTable` | class `GameInstance` with the pots | state machine |
| `ChipLedger` | what a table promises about chips | abstract specification |
| `TournamentDirector` | class `ActiveTournament`, tables reduced to stacks | state machine |
| `HandForHand` | class `BarrierCoordinator`, the hook, the director's use of it | state machine |
| `TournamentLifecycle` | registration and class `TournamentDirectorService` | state machine |
| `DailyMaster` | matchmaking, prizes, the lock service | state machine |
| `GameRecovery` | registry, watchdog, hot snapshots, recovery of one table | state machine |
| `HandRecords` | the event handlers that store a game's hands, the statistics | state machine |
| `Archive` | the archive job and its reader | state machine |
| `WorkerPool` | class `WorkerPool` and its threads | state machine |
| `MC...` | instances for TLC | |
| `PokerTableProofs`, `TournamentDirectorProofs`, `TournamentProofs` (of `HandForHand` and `TournamentLifecycle`), `DailyMasterProofs`, `GameRecoveryProofs`, `RecordsProofs` (of `HandRecords` and `Archive`), `WorkerPoolProofs` | theorems | proofs |
| `SumLemmas` | sums over finite sets | lemmas |

Definitions whose comment says *mutant* are wrong variants of the definition
below them, each a plausible bug, that no specification uses; replacing the
right one by it must violate the property it is listed with in `PROJECT.json`.

### 2.1 BettingRound and PokerTable

The game loop is one thread of control, and `pc` is where it is: `idle` (not
started, over, or failed), `top` (of the loop), `act` (inside
`bettingRoundLoop`), `acted` (the sleep after an action), `street` (the sleep
before the next betting round), `settle` and `reveal` (showdown), `award` (the
sleep of `awardPot`), `drain`, `hook`, `sleep` (between hands) and `crash` (the
catch of `startGame`). One action runs one iteration of a loop of the code.

| Code | Model |
|---|---|
| `players`, `dealerIndex` | `players`, `dealerIndex` (1-based; entries are never removed) |
| `chips`, `seatStatus`, `strikes`, `folded`, `allIn` of a `GamePlayer` | functions on `Bots` of the same name; `disconnected` is `seatStatus = "eliminated"` |
| `potManager.playerTotalBets` | `totalBets` |
| `bettingRound` | `round`, a record of `BettingRound` |
| `currentIndex`, `maxIterations` | `cur`, `itersLeft` |
| the pots of `showdown` | `level`, `dead`, `payouts`: the pots are settled from the highest bet level down, a level with no eligible bot is dead money for the one below |
| `pendingMutations`, `handInProgress`, `expectedTotalChips`, `running`, `status` | the same |
| `setImmediate(startGame)` callbacks | `starts` |

`addPlayer` is `AddPlayer` (with `AddPlayerImmediate`, i.e. `Reconnect` or
`SitDown`), `removePlayer` is `RemovePlayer`, `reactivatePlayer` is
`ReactivatePlayer`; they may come whenever the loop is suspended at an await
that lets other tasks run (`AtAwait`). For a live table (`Live`) these are all
its sleeps; in simulation mode only the inter-hand hook, when it really waits
(`HandForHand`). `playHand` is `BeginHand` ... `Showdown`, `SettlePot`,
`Distribute` or `AwardPot`, `PotAwarded`; its exceptions are `AwardPotThrows`
and a failed `CheckChips`, its catch is `GameFails`.

Abstractions. Cards are a ranking of the bots still in the hand, with ties,
chosen at the showdown (`Rankings`). A strategy is a free choice among the actions
`resolveAction` can return, with every raise from the minimum to the stack.
Wording, hand numbers, positions, timestamps and the broadcast of the state are
left out. `movingPlayers` is never filled by any caller, and its branch cannot
run.

`ChipLedger` is the promise: a bot brings chips in and leaves with its stack
between hands only, a hand moves chips of a bot from its stack to the pot, and
the pot returns to the stacks in one step that neither makes nor loses a chip.
`PokerTable` implements it with `stack <- chips, staked <- totalBets`
(`LedgerSpec`).

### 2.2 HandForHand

| Code | Model |
|---|---|
| `tables`, `running`, `handForHandMode` of `ActiveTournament` | `tables`, `running`, `handForHand` |
| `checkedIn`, `timeoutHandle` of the barrier | `checkedIn`, `timer` |
| `waiters` | the tables with `loop = "waiting"` |
| callbacks of the timeout that await `onStuckTables` | `recoveries` |
| the loop of each game | `loop`: `starting` (a `setImmediate` is due), `playing`, `waiting`, `finished`, `error`, `stopped` |
| games with an `interHandHook` | `hooked` |
| the process | `up` |

`checkIn` is `CheckIn` (a part of `HandEnds`), `release` is `Release`, the
timeout callback is `TimeoutFires` and then `TimeoutReleases` or
`TimeoutThrows`, `checkHandForHandTransition` is `HandForHandOn` and
`HandForHandOff`, `checkAndRecoverErroredGames` is `Recover`, `breakTable` is
`BreakTable`, and `finishTournament`, `handleFatalError` and `stop` are `Finish`
and `CloseTables`. `played` (a hand was completed) and `hands` (hands of each
table in this round, up to two) only observe.

`AllSuspended` is simulation mode: the director, timers and `setImmediate`
callbacks act only while no loop runs. When the bubble begins and ends is a free
choice; the bots are not modelled here.

### 2.3 WorkerPool

| Code | Model |
|---|---|
| `slots` with `worker`, `status`, `currentTaskId` | `slot` |
| `queue` | `queue` |
| the promise of a task; `inflightTasks` | `task` (`inflight` is membership) |
| a `Worker` and the slot its handlers are bound to | `thread`, `home` |
| "run" messages a thread has still to answer | `doing` |
| messages and events the pool has still to handle | `outbox` |

The handlers do not await, so each is an action: `Dispatch`, `ReadyReceived`,
`AnswerReceived`, `CrashReceived` (an `error` or an `exit` event),
`HeartbeatTimeout`, `Shutdown`. A thread does `Boot`, `Finish` (result or
error) and `Crash` (an uncaught exception is an `error` and an `exit` event, a
`process.exit` the latter alone). A message to a dead thread is lost. Heartbeats are
not counted: a busy slot may be found silent at any time.

### 2.4 TournamentDirector

| Code | Model |
|---|---|
| `tables` | `tables` (the keys), `game` (every table, by number) |
| a `GameInstance` | a record: `seated`, `gone` (disconnected), `chips`, `bets` (of the hand), `pending` (deferred calls), `loop` |
| `activeBots`, `bustOrder`, `chipSnapshot`, `running` | `active`, `bustOrder`, `snapshot`, `running` |
| handlers inside `checkForBustedPlayers` | `busting`: a list of busts with places, and how far it has got |
| handlers inside `syncChipsToDatabase`, `checkBlindLevelAdvance` | `syncing` |
| the holder of `balancingInProgress` and its locals | `balancer` |
| `finishTournament` after its first await | `paying` |
| rows of the tournament and its entries | `dbStatus`, `dbPlace` |

`handleHandComplete` is `HandComplete`, `BustStored`, `ChipsSynced` and the
balancing it starts; `handleGameFinished` is `GameOver`; `movePlayerForBalancing`
is `StartsMoving`, `MovePlayer`, `MoveStored`; `breakTable` is `StartsBreaking`,
`BreakTable`, then `SeatMover` and `MoverStored` for each bot, and `Restarted`;
`startSafetyNet` is `SafetyNet`; `finishTournament` is `FinishTournament`,
`PayoutStored`, `TournamentFinished`. Each await ends an action.

A hand is reduced to its outcome: some bots go all in, one takes from each at
most what it put in itself, or all tie (`PlayHand`). `PokerTable` checks the hand
itself. When games are played to their end before the director gets a turn
(simulation mode), a hand is one step; with `Interleaved` it is `BeginHand` and
`EndHand`, and joins and leaves are deferred in between. That is the case for
games recovered after a restart and for games the barrier releases together.
Where a bot is seated, owner conflicts and the order of tables of equal size are
left out or chosen freely, and so is who wins.

`Seating` is what the snake of `createInitialTables` gives: every bot one seat,
and no table more than `players_per_table` (`SeatingAssumption`).
`AllChips` are the chips at the tables, on their way, and still to be handed out;
a `StaleMove` is a bot that joins a table with another stack than it leaves with
(section 5).

### 2.5 TournamentLifecycle

Every request is a slot of `req` with a label `pc` for the await it is at:
`register`, `adminRegisterBot`, `tryRegisterBot`, `unregister`/`leaveAsUser`,
`removeEntry` are a list of reads with checks (`Reads`, `Passes`) and a write;
`injectSystemBots`, `cancel`, the scheduler's sweep and `startTournament` have
steps of their own. `status` and `entries` are the rows, `directors` and
`mapped` are the `ActiveTournament` objects and `activeDirectors`. `Restart`
loses the process; `RecoverFinds` and `Recovers` are `recoverRunningTournaments`.
The scheduled time has come from the start, which covers every earlier moment,
because what may happen before it may also happen at it.

### 2.6 DailyMaster

A job is a server and a kind (`create`, `lock`, `execute`, `pay`), with `pc` for
the statement it is at and `at`, `count`, `todo` for its locals. `owner` is the
locks in Redis; `masters`, `pods`, `paid` are the rows. `clock` goes from 08:00
through 20:55 to 21:00. `withLock` is `Acquire` or `Skip`, and `Release` or
`ReleaseFails`; `Expire` is the time to live. `doCreateDailyMasterTournament`,
`doLockAndCreatePods`, `doExecutePods` and `doHandlePodFinished` are one action
per statement or transaction. `Slow = FALSE` says that a job ends before its lock
expires (`lockAndCreatePods` has 120 s for a few statements); with `Slow = TRUE`
`JobsExclude` fails, as `withLock` does not renew, and so may the other
properties. The run and the theorems of the day are for `Slow = FALSE`.
`tournament.podFinished` is emitted by no code; `Deliver` is what its handler may
receive, duplicates included.

### 2.7 GameRecovery

| Code | Model |
|---|---|
| a `GameInstance` whose `startGame` has not returned | a member of `Loops` with `loop[l] # None` |
| `liveGames` for the table | `live` |
| Redis commands issued and not executed | `wire` (one connection keeps their order) |
| `game:hot:<gameId>` | `hot` |
| candidates of `attemptAutoRecovery` | `boot` |

`checkGameHeartbeats` is `FindErrored`, `FindFinished` (a finished game counts as
running and falls silent) and `FindSilent`; the reply to `getHotState` is
`RedisServes`, which recovers; the start-up path is `ScanHotStates` and
`TryCandidate`. A hand is what a snapshot keeps of it: stacks, bets, who left.
A loop that was declared stuck and stopped still plays its hand to the end and
still writes snapshots. Director-created games (`createGameSync`) write no hot
snapshot; this is the path of `createGame`.

### 2.8 HandRecords

The loop emits `HandStarted`, `HandCompleted`, `GameFinished` and does not wait.
`start[h]`, `complete[h]`, `finish` are the handlers of hand `h` and of the end,
each at one of its statements. Rows of `game_players` and `games` are locked from
the statement that updates them to the end of the transaction (`locks`,
`CompleteLocks`, `ReleasedBy`). `pending` and `batch` are `pendingStats` and the
map a flush has taken. `Crash` loses handlers, caches and unflushed statistics;
`Restart` closes the row of the game and plays on from this hand or an earlier
one.

### 2.9 Archive

One old tournament. `job[s]` is the archive job of a server: lock, eligibility,
pages of hands and their details, the test for the object, upload, mark, and
chunks of deletions. `LockExpires` may come at any time: the lock is never
extended. A page is any that `ORDER BY hand_number` with OFFSET and LIMIT allows
over the rows there are (`IsPage`), ties in any order. `reader` is
`getArchivedHand`.

## 3. The runs

| Run | Shows | Bounds |
|---|---|---|
| `tournament_table` | a tournament table with calls at its awaits never reaches its catch, its pots cover the bets, the button stays, `ChipLedger` is implemented | 3 bots of 3 chips, blinds 1/2 |
| `live_table` | types, chip conservation at every step, frozen seats with calls at every await | 3 bots of 2 chips, 1 deferred call a hand |
| `table_liveness` | every hand ends, every deferred call is applied | 2 bots of 3 chips, 1 deferred call |
| `tournament` | whole tournaments: seats, chips, eliminations, first place, the end | 5 bots, tables of 2 and 3, 9 hands, 1 of them without a bust |
| `balancing` | no bot at two tables while games go on | 6 bots, tables of 2 and 4, 2 hands |
| `bubble` | tables in step, nobody held after the bubble, every waiting table has a releaser and goes on | 3 tables, everything may fail, 2 overlapping timeout callbacks |
| `lifecycle` | capacity, running is played, due starts or is cancelled | 2 bots, 2 seats, 2 requests a class at a time, 2 requests, 1 restart |
| `daily` | jobs exclude each other, one master, pods seat entries, pool given once | 3 servers, 4 users, pods of 2, pool of 5, 1 crash, 2 deliveries |
| `recovery` | one running game, chips survive, finished stays finished, errored recovers | 2 bots, 2 games, 2 loops, 1 command in flight, 1 fault |
| `records` | counts, statistics, no deadlock | 3 bots, 2 hands, 2 attempts, 1 crash, 1 failure |
| `archive` | nothing lost, everything readable | 4 hands, pages and chunks of 2, 2 servers, 2 faults |
| `worker_pool` | no idle slot beside a queue, shutdown settles all, every task settles | 3 tasks, 2 slots, 1 incident |

Why the bounds are enough.

- *Table.* With three bots there are a button, two blinds, heads-up play after a
  bust, a main and a side pot with a folded contributor, split pots with an odd
  chip, and a bot that leaves while two play on; three chips and blinds 1/2 give
  short blinds, calls for less, minimum raises and all-ins for less than a raise.
  One deferred call in a hand is one that the next hand must see; more of them
  only queue (the proofs are for any number). `MaxStrikes` is 1 instead of 3: a bot
  sits out at its first failure, which reaches the same states sooner.
- *Director.* Tables of two and three make one that is broken after its first
  bust while the other one plays, three-way busts with ties, a full table, and a
  finished game that is started again when a bot arrives. A bot is worth one
  chip at the start, so every stack is the number of bots it has beaten. Tables of
  two and four are the smallest that differ by more than one, which moves a
  bot; two hands at a time and one after them are enough to overlap a move, a
  break and a bust.
- *Barrier.* Three tables are the fewest with one that waits, one that plays and
  one that fails; two overlapping callbacks are the fewest in which a late one
  meets a newer round.
- *Lifecycle.* Two requests of one class, a start, a cancellation and a recovery
  overlap; two seats are the fewest that start a tournament.
- *Daily.* Three servers: one that holds the lock, one that crashed with it, one
  that comes late. Four users make one pod or two, also uneven ones (three
  players and pods of two); a pool of five does not divide by two.
- *Recovery.* Two loops: a stopped one still in its hand and its successor. Two
  games: one recovered at start-up and one created meanwhile. Stacks of two and
  one, so that a blind puts a bot all in.
- *Records.* Two hands are two transactions over the same rows; three bots are
  the fewest for which "the winner first" differs from the order of ids in the
  middle. *Archive.* Two pages, two chunks, two overlapping jobs.
- *Pool.* Three tasks on two slots fill the pool and the queue; one incident
  already makes two replacements.

`CHECK_DEADLOCK FALSE` is in every configuration because the systems stop: a
game is over when fewer than two bots can play, a tournament finishes, the day
ends, a pool is shut down, and bounds on requests and faults run out.

### Fairness

- `PokerTable`: weak fairness of `Loop` and of `StartGame`. Sleeps are timers or
  resolved promises and strategies are evaluated in the loop's own call, so the
  loop is never suspended for ever; a `setImmediate` callback runs. Nothing is
  assumed of callers. `LiveSpec` excludes calls to a game in error.
- `TournamentDirector`: weak fairness of the director's steps (replies arrive,
  the safety net's interval fires) and of each table's steps. That games bust bots
  is in the bound on quiet hands: the blinds rise until a bot cannot post them.
- `HandForHand`: weak fairness of `HandEnds` and `GameOver` of each table, strong
  fairness of the timeout's firing and of the end of its callback. The last two
  are strong because they are enabled only while all loops are suspended; the event
  loop then comes round to a timer that is due and to a callback whose database
  calls have answered or failed. That a game ends is an assumption: in
  simulation mode a game that never ended would starve the director for ever.
  Its ground is the blinds, which a bot cannot post for ever.
- `TournamentLifecycle`: weak fairness of each starter's steps (the cron job
  fires every 30 seconds, queries are answered or fail) and of the end of a
  tournament that is played. Nothing is assumed of requests, cancellations and
  restarts.
- `GameRecovery`: weak fairness of the ends of hands, of the watchdog's test for
  games in error and of Redis's connection. Nothing is assumed of the start-up
  recovery.
- `WorkerPool`: weak fairness of each thread's boot and answer and of each
  handler. That a simulation ends is the same assumption as above, and the
  heartbeat timeout, which is not assumed to be fair, is the code's own answer to
  one that does not.

### What the liveness results say

`HandEnds` depends on the iteration cap of `bettingRoundLoop`: without counting
(the mutant of the run) a street with a removed bot never ends. `WaitersGoOn`
holds up to the end of the process, because a database failure in the timeout
callback is an unhandled rejection. `TournamentEnds` depends on `Restarted`: without
it two bots sit at a finished game for ever, with no table that is
under-staffed. `DueTournamentStarts` depends on the cancellation of a
tournament with too few entries. `ErroredGameRecovers` stops at a crash, a lost
command or a closed table. `TasksSettle` holds for behaviours in which the pool
hears only of threads that are in its slots (`NoStrays`); a first replacement
that stays alive outside of the pool (section 5) can take the slot's task with
it.

## 4. The proofs

All theorems hold for every value of the constants under the named `ASSUME`s
of the modules (sizes are naturals, blinds positive, sets of bots and tables
finite); bounds on crashes, failures and hands are any naturals. Hypotheses a
theorem adds are in its statement, and named here.

### The table (`PokerTableProofs`)

- `TypeCorrectness`: `Spec => [](TypeOK /\ SeatsInRange)`. `TypeOK` alone is not
  inductive: the loop indexes `players` by the button, by the turn and by the
  seats it computes from them. The invariant is
  `TypeInv == TypeOK /\ Control /\ SeatsInRange`. `SeatsInRange` says that those
  indices are seats whenever the loop uses them; `Control`, that `handInProgress`
  is set exactly while `playHand` runs, and that a loop past "idle" is a running
  one.
- `SeatingIsFrozen`: `Spec => SeatingFrozenMidHand`. An action that moves a seat
  either finds no hand in progress, or ends one. `ButtonStays`:
  `Spec => ButtonStaysWithBot`, from what splicing a seat in does to the index of
  the button.
- `ChipsConserved` and `PotsOfLiveTable`, for a live table (`LiveSpec`, in which no
  call reaches a game in error): `ChipConservation`, `PotsCoverBets`, `SidePotCap`.
  The sum of the stacks is conserved only together with much else, `ChipInv`:
  - `Conserved`, `OnlySeated`: the chips of the table are those of its seats,
    and `expectedTotalChips`;
  - `Gone`: a bot that left has no chips, or its removal is pending. So a
    deferred removal takes away what is subtracted from the expectation;
  - `NoPot`, `StreetBets`: nothing is in the pot between hands, and the bets of a
    street are a part of those of the hand;
  - `Settling`: while `calculatePots` goes down the levels, what was paid out,
    what is dead and what the levels below hold add up to the bets;
  - `Winnings`, `WithinCap`: a bot is paid only while it is in the hand, and what
    it got, with all it could still get, is within its cap;
  - `InThePot`, `OverdraftPaid`: at most one bot is below zero, it is in the hand
    with more at stake than any other could match, and the highest pot, which
    is its alone, makes up for it (the overdraft of section 5);
  - `LoopState`, `SomebodyLeft`: deferred calls exist only around a hand, and at a
    tournament table there is always a bot to award the pot to.
- `SimulatedTable` and `HandsNeverThrow` are the same and `HandNeverThrows` for
  `~Live`. At a live table the hand does throw when all others were removed
  (section 5), so the hypothesis is needed.
- `AskedOnlyWhenOwed`: `Spec => ActsOnlyWhenOwed` for `~Live`. The turn goes round by
  `nextActiveIndex` and the street ends by `isBettingComplete`; that the two agree
  needs the order of the answers (`TurnInv`): clockwise from the turn, the bots
  that still owe the current bet come before those that are settled (`SettledLast`).
  An answer settles the bot that gives it and puts it last; a raise unsettles all
  others. So, when the bot in turn is settled, all are, and the street would have
  ended. `TurnInv` says besides that a bot in the hand without chips is all in, so
  whoever is asked has chips to act with. At a live table a bot removed in mid-hand
  is skipped by one function and waited for by the other, and TLC finds `TurnInv`
  violated.
- `NobodyOverdrawn`: between hands no stack is below zero, with any ante. No run
  states it: the runs have no ante, and then no stack is below zero at any time.
- `ImplementsLedger`: `Spec => LedgerSpec` for `~Live`, `Ante = 0` and
  `SmallBlind <= BigBlind`. Steps of the loop map to steps of `ChipLedger` or to
  stutters; that a raise only adds to the pot needs `MatchedBets` (nobody has bet
  more on the street than there is to match). Both hypotheses are necessary, as
  TLC shows on small instances: with an ante a blind can overdraw a stack, which
  is not a ledger step; and with a small blind of 5 and a big blind of 2, which
  `CreateTableDto` does not refuse, the bet to match is 2 and a raise to less than
  5 takes chips out of the pot.

### The director of a tournament (`TournamentDirectorProofs`)

For any bots, tables, seating and sizes of hands. `DirectorTypes`,
`NeverAtTwoTables` and `TheWinnerIsFirst` are of `InterleavedSpec`, and so of
`Spec` too (`PlayedAtOnce`); the others are of `Spec`, in which the director has
no turn inside a hand, because they fail otherwise (section 5).

- `DirectorTypes` (`TypeOK`), from `Base`. It adds to the types that the locals of
  every handler are tables and bots there are, and that joins and leaves are
  deferred only while a hand is played. What a hand does at its end is a fold over
  the deferred calls; that it exists and what it preserves (`DrainExists`,
  `DrainedStays`) is induction over their number.
- `NeverAtTwoTables` (`OneTable`): no two tables *hold* the same bot, nor does a table
  hold one that is on its way or still to sit (`Apart`). A table holds a bot that sits
  there, and one whose join it has deferred: without the deferred calls the invariant
  would not survive the end of a hand.
- `TheWinnerIsFirst` (`WinnerIsFirst`): what the end relies on (`EndInv`). Every bot is
  in or was recorded out, not both while the director runs; a bot whose place is
  being stored is out, so no late answer overwrites the winner's place; once the
  director stops, the winner's place is stored as 1 or is among the payouts that
  are left; and as long as no bot is recorded twice, the places of the lists count
  down to 1 at the lowest, and every bot has one or is to be paid.
- `NoTableOverfilled` (`SeatsRespected`) and `OutOnlyWithoutChips`
  (`EliminatedOnlyAtZero`), from `Between`. Between hands nothing is bet and nothing
  deferred (`TablesCalm`). A table that is to be broken has one bot that can play at
  most, and the table a bot is on its way to has a seat for it (`PlanFits`): nobody else
  fills it, because one handler balances at a time. A bot that waits in a
  list has no chips at the table it went broke at and, when that was broken, is at
  no other (`ListedBroke`).
- `ChipsLostByStaleMovesOnly` (`ChipsKept`): no step of the director or of a
  table changes `AllChips` except one that is a `StaleMove`. It is an argument per
  step: most steps leave the chips of each table alone (`AllKeep`); a hand moves
  them between stacks of one table; a table that is created takes them from
  those still to sit; and a broken one has one bot on its way at a time
  (`OneMover`), whose stack leaves the tables with the table and returns with the
  bot. `ChipsConserved` follows: as long as no step is a `StaleMove`, `TournamentChips`.
- `TwoTablesKeepChips`: for two tables whose numbers of bots differ by at most one
  (or one table), games played out at once, `TournamentChips` holds with no
  hypothesis on the steps. The invariant (`PairInv`) says that a table which is not
  broken still has its first bots and is not begun, or is over with one bot left:
  the sizes call for a break or for nothing, so no bot is ever moved for
  balancing (`NoMove`), and the bot of the broken table finds no old entry at
  the other (`OneBreak`). Section 5 says why two is the limit.

### Tournaments (`TournamentProofs`)

- `BarrierHasReleaser`, `BubbleOverReleasesAll`: from `BarrierInv`, which adds to
  the types that an open round has an armed timeout or a callback under way, and
  that there is no open round while the mode is off. `SomebodyReleases` alone is
  not inductive, because a late release clears the timeout and the round together.
- `BubbleKeepsInStep`: `Spec => InStep`, from `RoundInv`. A table that has checked in
  waits and has its hand (`CheckedInWait`); a table that plays is one of the
  tournament's (`PlayingAtTables`); and on the bubble, when it has its hook, it still
  owes the hand it plays (`OwesItsHand`). So a table that comes in has no hand in this
  round yet, and the last to come in, which ends the round, finds that all others have one.
- `RunningTournamentIsPlayed`: `LifecycleSpec => []RunningIsPlayed`. The
  strengthening (`SomebodyPlays`) is in the case of the recovery: `onModuleInit`
  will recover the tournament only while no director is mapped, so it counts only
  then; and a start that maps a director keeps the number of one that exists.
- `CapacityBounded`: `LifecycleSpec => []CapacityKept`. The invariant counts, for
  each request that may be under way, the entries it may still write although it
  counts no more (`Claims`): one after its check of the room, the free slots it
  found for an injection. Entries and claims together stay within
  `Parallel * MaxPlayers` (`ClaimsFit`), since a request that finds room adds a claim
  of at most `MaxPlayers` less the entries to others of at most `MaxPlayers` each.

### The day (`DailyMasterProofs`), for `Slow = FALSE`

`DailyJobsExclude` (`JobsExclude`), `OneMasterADay` (`OneMaster`),
`MasterSeatsItsEntries` (`PodsSeatEntries`), `DailyPoolGivenOnce` (`PoolGivenOnce`). The invariant
`DailyInv` says that a job inside owns its lock (`Holding`), that what a job has
read is still so in the rows it works on (`Fits`: nobody else writes them under
its lock), and what the rows say of each other (`RowsFit`: there are no pods while
registration is open, and a pod has paid its share when it is finished and nothing
before). For any number of players and any size of a pod, lemmas show that
`calculatePodSplit` (`PodSplit`) seats everybody and leaves nobody alone, and that
the shares of the pods (`PodPool`) add up to the pool; both are sums of two
values, from `SumLemmas`.

### Recovery (`GameRecoveryProofs`)

- `OneGameRuns` and `RecoveryKeepsChips` from `RecoveryInv`: the chips of a game in
  which nobody left add up and are expected; a game that is registered runs or is
  in error; and every copy of a game, in Redis, in a command or among the
  candidates at start-up, is one of a game whose chips add up (`CopiesOK`).
- `FinishedGamesStayFinished` from `FinishedInv`: as long as nothing crashed, was
  lost or stalled, a game has one loop or one search for its snapshot, and the
  snapshot of a finished game is gone, or its deletion is under way with no
  search before it and no write after it. It is an action property, and a claim
  about the order of commands on the one connection.

### Records, archive, pool

- `RecordsProofs!CompletionsNeverDeadlock`, `EveryHandCountsOnce`,
  `StatisticsCountNoneTwice`: the invariant is
  `Inv == Types /\ Work /\ Locks /\ Counts`. `Locks` says that a completion holds
  only rows below the one it asks for next; so, of any set of completions that
  wait, the one that asks for the highest row waits for none of them. `Work` says
  that a completion works on the row of its own hand, which is there and, once
  the test was passed, not final: each commit counts a new hand. `Counts` are the
  counters, and for the statistics the completions that are still to publish.
- `RecordsProofs!NoHandIsLost`, `EveryHandReadable`, `TypeCorrect`, under
  `PagesInOrder`: as long as nothing was stored no hand is deleted and a job has
  read every hand before its offset; a job that is past the test for the object,
  or whose tournament is marked, finds an object with all hands. Only then may a
  job prune. That a job which reads a table another one is pruning uploads nothing
  rests on the object being there already, which the deletions presuppose.
- `WorkerPoolProofs!QueueWaitsForBusySlots`, `ShutdownLeavesNoneOpen`: the
  invariant holds the types of the pool's own fields, that the queue is empty
  after shutdown, that no idle slot stands beside a queue, and that shutdown
  leaves nothing open. Nothing about the threads is needed: the properties rest
  on what the pool does with a message, whatever the message is.

### Sums (`SumLemmas`)

What a sum over a finite set does when one summand changes, of a sum of
functions, of a function that is constant on a part, or positive at a part or a
point only; that it is monotone and at least each summand; and that a finite set has a greatest element in a function's
sense. `SumFunction` is a recursive function over subsets; that it exists
(`SumExists`) and what it computes follow by induction over finite sets
(`SubsetInduction`), stated with a set in the place of a predicate, because the
library's induction theorems take an operator.

### What is only model-checked

- Liveness (`HandEnds`, `MutationsDrained`, `WaitersGoOn`, `TasksSettle`,
  `TournamentEnds`, `DueTournamentStarts`, `ErroredGameRecovers`): TLAPS does not
  reach it.
- `TournamentChips` from seatings other than the two of `TwoTablesKeepChips`: it does
  not hold of them (section 5), and `ChipsConserved` says under which condition it
  does.

## 5. Where code and documentation disagree

Met while modelling. The models do what the code does; where that breaks a
property, the property says under which condition it is claimed.

At the table:

- All others were removed in mid-hand: they are eliminated but not folded, so
  the street is not over, the last bot is asked again and may fold; `awardPot`
  (`live-game-manager.service.ts:932`) then has no winner and the hand throws.
  `docs/EDGE_CASES.md:102`: "Remaining player wins the pot". `HandNeverThrows` is
  stated for tournament tables, where nobody is removed in mid-hand.
- After a short all-in the last full raiser can raise again: `applyAction`
  (`betting.ts:282`) does not consult `canReraise`. `docs/GAME_RULES.md:66-67`. Nor
  is the cap of raises (`docs/CHANGELOG.md:120`) consulted.
- The odd chip of a split pot goes to the winner with the lowest seat (`:992`).
  `docs/GAME_RULES.md:99`: "first eligible position from dealer".
- When an ante leaves one bot with chips, it posts both blinds from the same
  stack and goes below zero (`:658`). `docs/GAME_RULES.md:232`. It gets the overdraft
  back with the pot (`NobodyOverdrawn`).
- The cap of `bettingRoundLoop` may end a street before the last raise is answered.
  If the raiser then folds, its chips above every other bet go to the winner, so
  `SidePotCap` bounds what is won from bots that are still in.
- Nothing refuses a small blind above the big blind. The bet to match is then
  below what the small blind has in, and a raise may take chips back.
- The button is not moved on from a bot that leaves in the pause between hands
  (`docs/KNOWLEDGE.md:405`).

In tournaments (`tournament-director.service.ts`):

- `docs/KNOWLEDGE.md:326` and `:347` say that a lock serialises bust detection
  and rebalancing; the field `handLock` (`:602`) is never used. Two overlapping
  handlers can list the same bot, because `bustedBots` is filled only at its turn
  (`:1980`): it is in `bustOrder` twice, and the late answer of a `bustEntry`
  overwrites a final place. The places are counted from the length of
  `bustOrder` (`:1960`), so each repetition makes them one too small: with nine
  bots on three tables and handlers that stay under way for several hands a
  simulation of the model stores the place 0. `WinnerIsFirst` therefore claims
  the winner's place, and a place for every entry when no bot is in `bustOrder`
  twice; it does not claim that places are distinct.
- `docs/CHANGELOG.md:896`: "Only when `chips === 0`". A bot that was moved leaves
  an entry with no chips at its old table, which eliminates it at the next bust
  check; and with games that go on meanwhile a bot that is all in has no chips
  either. `EliminatedOnlyAtZero` leaves out bots that are gone from a table, as a
  moved one is from its old table, and is claimed between hands.
- `docs/GAME_RULES.md:160-165` (no chips are made or lost) has two exceptions, the
  only ones when games are played out between turns of the director (`ChipsKept`,
  proved):
  - `movePlayerForBalancing` reads the stack (`:2299`) and awaits Redis (`:2317`)
    before it removes the bot and seats it elsewhere with that stack. The table may
    play on while Redis is awaited: what the bot won or lost by then is lost
    or made, and a bot that has gone broke is seated again.
  - A bot that is moved to a table it was moved away from is reconnected to its old
    entry (`live-game-manager.service.ts:338-349`), which has no chips: the chips it
    brings are lost.

  The run that claims `TournamentChips` begins with two tables of almost equal size
  that are played out at once, and never moves a bot (`TwoTablesKeepChips`). Three
  such tables are enough to lose chips: of tables of three, four and four bots, the
  first is played out, and its last bot goes to the second; when that has come
  down to two bots beside a table of four that has yet to begin, a move from that
  one is planned, and it plays while Redis is awaited. So are two
  tables of two and four.
- With games that go on meanwhile, a bot that is all in does not count, so its
  seat looks free, and a table broken in mid-hand loses what its bots have in the
  pot (`docs/GAME_RULES.md:160-165`). `SeatsRespected` and `TournamentChips` are
  checked between hands.
- The order of bots that bust in the same hand (`docs/TOURNAMENT_RULES.md:155`) is
  lost at the end: `finishTournament` reverses `bustOrder` (`:2705`).
- A reply that fails loses the rest of a bust list or of the bots of a broken
  table; `recoverFromDb` does not restore `bustOrder`; a finished director stays in
  `activeDirectors`.
- A table recovered from an error has no hook and plays on while the others
  wait (`:1884`). `docs/EDGE_CASES.md:138`: "No new hands until all complete".
- The same bot may register twice (`docs/EDGE_CASES.md:202-206`): nothing in the
  database forbids it. Overlapping starts create two directors, in spite of the
  comment above `:438`. `cancel` only writes the row: a running director
  goes on. `tournaments.service.ts` `start` and `finalizeTournament`, and
  `stopTournament`, have no caller.

Every day (`modules/matchmaking`):

- A crash between the status `running` and the insertion of the pods leaves a
  running master without pods, which every later run skips.
- `executePods` calls `startTournament`, which throws for a tournament that is
  running already; the pods stay running, and `tournament.podFinished` is emitted
  by no code.

Recovery, records and archive:

- Snapshots in PostgreSQL are stored without strategies, and recovery rejects
  them; boot validation ignores chips in the pot; the expected chips after a
  recovery leave out disconnected bots (`live-game-manager.service.ts:1665`), so the
  next hand may fail the conservation check. A loop that was declared stuck still
  writes its game's snapshot.
- `total_hands` may be one too high when `game.finished` overtakes a completion.
  A hand whose row is not found after the retries is skipped.
- Hand numbers count per game. A tournament of several tables with more than 500
  hands is read by pages whose order has ties (`archive.service.ts:175`): a hand can
  be on no page and is deleted all the same, against `docs/CHANGELOG.md:537`.
  `PrunedIsStored` rests on `PagesInOrder`. A job that fails while it prunes does
  not resume (`docs/CHANGELOG.md:570`), as the tournament is marked by then.

Workers: one crash is two events (`worker-pool.ts:150`) and two replacements, one
of which leaks; `:4` says "Fixed-size pool".

## 6. What is not modelled

- Of `GameInstance`: changes of the blinds, hand numbers, positions, the wording
  of events. Of the director: amounts of payouts, blind levels, the choice of a seat
  and of tables by owner, `recoverFromDb` beyond the tables it brings up,
  `checkAndRecoverErroredGames` beyond what the barrier sees. Of the registry:
  the periodic snapshot in PostgreSQL, shutdown. Of the lock service: `extend`,
  which nobody calls. Of the records: rows of single actions and the batch
  writer of simulations. `listArchivedHands`. Metrics of the pool.
- Wallets and transactions: every operation is one transaction with one relative
  UPDATE and one inserted row. Only `creditPayout` is called, in the payout that
  `DailyMaster` takes as one step; no code charges a buy-in.
- Hand evaluation, provably fair shuffling, strategy evaluation and validation:
  functions of their input, over domains (seven cards of 52, hashes, strategy
  documents) that bounded enumeration does not reach in a useful size.
- The simulations of a user (`modules/simulations`): a thread of its own for each,
  outside the pool, and a limit of one by a count and then an insert.
- Gateways, authentication, bots' subscriptions: rows of one
  user, or messages that no modelled part reads back.
- Leaderboard and analytics (queries), log validators (they change nothing), the
  frontend (a view), entities, migrations and wiring (declarations).

The frontend, the scripts, the validators and the queries are the larger part of
the repository's lines; the modules cover the server's stateful core.

## 7. What could come next

1. Composition of `TournamentDirector` with `ChipLedger` for each table, and of
   `HandForHand` with `TournamentDirector` (the bubble begins and ends by a free
   choice now); recovery of errored tables by the director.
2. Theorems: for the director, `TournamentChips` of games that alternate with it
   when no table is broken in mid-hand.
3. `Wallets`, if buy-ins come to be charged; `ProvablyFair`, the order of
   commitment, deal and reveal; `Broadcast`, what a spectator may see of a hand.
4. Pure algorithms against reference definitions: `HandRanking` on a reduced deck,
   `PayoutTable`, the seating of bots over tables.
