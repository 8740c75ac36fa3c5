# A TLA+ model of phala-watchdog

phala-watchdog follows the Phala chain and tells the owners and delegators of
stake pools when something needs them: rewards to claim, free funds, pending
withdrawals, a changed commission, a worker that does not respond. This
directory holds a formal model of its core, instances of it that TLC checks,
and theorems about it that TLAPS proves. Paths below are relative to the
repository; `W/` stands for `src/modules/Watchdog/`, `P/` for
`src/modules/Phala/` and `K/` for `src/modules/Polkadot/`.

## The system

Two programs run: the *crawler* (`yarn prod crawler`, class `CrawlerApp`) and
the *API* (`ApiApp`). Both are started by `etc/run.sh`, which starts them again
ten seconds after they end. They share a MySQL database through MikroORM, and
query a Phala node over a web socket. The crawler process runs the block indexer
once (`CrawlerService.run()`) and the tasker, which starts crawlers by cron.

| Component | State it keeps | Operations |
|---|---|---|
| Block indexer (`W/Service/EventCrawler/CrawlerService.ts`) | `AppState` row with `lastFetchedBlock`; the same in memory; finalized head | `run`, `_init`, `_fetchBlocksChunk`, `_fetchNextNewBlock` |
| Event crawlers (`AbstractEventCrawler`; commission, enter and exit of unresponsiveness) | gathered messages and counters of the open chunk | `tryHandle`, `_handle…`, `postProcess` |
| Periodic crawlers (`AbstractPeriodicCrawler`; withdrawals, free funds, rewards, reminder) | an entity manager per run, its copy of the observations, a cache of chain states | `run` = `_init`, `_handle`, `_postProcess` |
| Observations (`W/Domain/Model/Observation.ts`) | per observation: configuration, and `lastNotifications`, one JSON column | read and written by crawlers; created, updated, deleted by the API |
| Issues (`W/Domain/Model/Issue/UnresponsiveWorker.ts`) | a row per worker account, key and pool | inserted by Enter events, deleted by Exit events and by the reminder |
| Notification aggregator (`NotificationAggregator.ts`) | messages by channel and user | `aggregate`, `send` |
| Phala entities (`P/Service/PhalaEntityFetcher.ts`, `P/Crawler`) | stake pools and accounts | find, or query the chain and create |
| API controllers (`W/Controller`, `P/Controller`) | none; users, observations | CRUD, logins |
| Chain connection (`K/Service/ApiProvider.ts`) | memoized connection promise per mode | `getApi` |
| Transaction handler, Subscan client (`K/Service`) | a pending promise; a page counter | used by no code here |
| Messaging provider (`src/modules/Messaging`) | connections to Discord and Telegram | `sendMessage`, identities |

How they interact. The indexer hands each event of a chunk of blocks to every
event crawler, inside one transaction; when the blocks are done each crawler
post-processes, which sends its messages, and then the transaction commits.
Event crawlers and periodic crawlers read the same observations and stamp them
when they have aggregated a message. Event crawlers and the reminder insert and
delete the same issues, each through a manager of its own. Indexer and
`StakePoolsCrawler` share one entity manager, the one of the process. The API
changes observations under the crawlers' feet.

What is hard, and what makes each part correct:

- *Indexer*: a process may end at any await; messages leave before the commit;
  the insert of the first row is not awaited; the cursor is changed in memory
  before the transaction commits. Correct: no block is committed twice, none is
  passed unless it is too old, messages are sent before the commit and repeated
  only after a failure, and everything finalized is taken in the end.
- *Notifier*: runs overlap (two crons at minute 0, a reminder every 15 minutes,
  `@Timeout` that stops waiting but not the run); the stamps of all types share
  a column; messages are sent before their stamps are flushed. Correct: no stamp
  without a message, no message before the frequency has passed without a
  cause, and a value that stays over its threshold is told again.
- *Issues*: events are judged by the chain's head, not by their block; an insert
  waits for the next flush while a delete is immediate; the reminder acts on
  states it read before. Correct: once the indexer has caught up, a worker has
  an issue if and only if it is unresponsive; a row is never inserted twice; an
  issue that is resolved goes away.
- *API*: look, then insert or write, in requests that overlap: first logins of
  one user, observations counted before others are inserted, updates of a row
  that is deleted meanwhile. Correct: one user per identity, a bounded quota,
  rows written by their owners only, and deleted rows gone.
- *Pools and accounts*: runs of the crawler overlap and fail half-way, a later
  run starts after the last stored pool, the chain's head may be taken back, and
  another process creates accounts too. Correct: no pool is left out below a
  stored one, each has its owner, and each is stored in the end.
- *Connection*: callers that find none while one is being made. Correct: one
  attempt per process.

`PROJECT.json` lists every component with its status, and every hazard at its
line with the properties aimed at it.

## The modules

| Module | Models |
|---|---|
| `BlockLedger` | abstract: a durable cursor and the set of handled blocks |
| `CrawlerService` | the indexer, its database row, the handlers' sending, processes that fail and restart |
| `CommonEntityManager` | the indexer composed with another user of its entity manager |
| `CrawlerServiceProofs` | theorems about both |
| `ObservationNotifier` | overlapping runs of crawlers on the rows of the observations |
| `ObservationNotifierProofs` | types, and that a stored stamp stands for a message |
| `NotifierSpacingProofs` | that an early message has a cause; what holds without overlaps, and of pools other than 0 |
| `IssueBoard` | abstract: the issues of pools, opened and closed by events that take effect once |
| `UnresponsiveWorkers` | issues: chain, event crawlers in a chunk's transaction, reminder |
| `UnresponsiveWorkersProofs` | types, and that issues and unresponsive workers agree |
| `IssueBoardProofs` | that it implements `IssueBoard` |
| `ReminderProofs` | what the reminder gets right, and under which conditions |
| `ObservationRegistry` | abstract: registered identities and their observations, each request done at once |
| `WatchdogApi` | logins, and observations created, updated and deleted by overlapping requests |
| `WatchdogApiProofs` | theorems about it |
| `PoolRegistry` | abstract: a row of each pool, written once and in order |
| `StakePools` | pools and accounts of the chain copied by overlapping runs and requests; the connection |
| `StakePoolsProofs` | theorems about it |
| `MC…` | instances of these for TLC |

In every module a comment that says "as a mistake" introduces a plausible bug in
the definition after it. No action uses it; put in that definition's place it
breaks the property named below, and shows that the property can be broken.

### CrawlerService

`finalized` is the chain's head. `row` (the stored `lastFetchedBlock`) and
`handled` (blocks of committed chunks) are the database. `lastFetched`,
`target`, `chunkStart` and `lastBlockToIndex` are the variables of `run()`, and
`pending` what each handler has gathered in the open chunk. `sent`, `lost` and
`failures` only record what happened.

| Action | Code |
|---|---|
| `Start`, `InsertRow`, `InsertFails` | `_init` (l. 101-120): reads the row, or persists a new one without awaiting the flush |
| `FetchHead` | `run` (l. 54-83): the head, and the step over blocks older than `BLOCK_HISTORY` |
| `BeginChunk` | loop and bounds (l. 85-140) |
| `FetchNextNewBlock` | one block (l. 160-194): all handlers see it; `tryHandle` swallows what they throw |
| `PostProcess` | one handler's `postProcess` (l. 149-154), which sends |
| `Commit` | the end of the transaction |
| `Stop`, `Fail`, `Exit` | `run` is done; it is rejected; the process ends (`CrawlerApp`, `bootstrap.ts`) |

A post-process is one step per handler: it is awaited in turn, and what fails
inside it is `Fail` before or after it. `Fail` also covers an end of the process
in the middle of anything. The events of a block are not told apart.

`Cursor`, `handled` and `finalized` implement `BlockLedger`: a chunk is taken
from the cursor or from a place below `BLOCK_HISTORY`, is at most `BLOCK_CHUNK`
long, and is recorded at once with the cursor.

### CommonEntityManager

`CrawlerService` with one more actor: `persistAndFlush` of `PhalaEntityFetcher`,
run by the tasker of the same process, on the same entity manager. It computes
the change set (`ComputeFlush`), of which the changed `AppState` is part, and
writes it later (`WriteFlush`). The theorems on `CrawlerService` are about an
indexer without such a flush: they say what its own code keeps, and this module
what the shared manager takes away. `SentBeforeCommit` and `NeverAhead` (the
stored cursor stays under the finalized head) are left, whatever is flushed:
that is proved.

### ObservationNotifier

A run is one of five crawlers, or the post-processing of an event crawler, which
has the same shape. `stored` is `lastNotifications` of each row; `copy`, `todo`,
`outbox` and `dirty` are a run's memory. `told`, `early`, `forgotten`, `twins`
and `refused` record what happened.

| Action | Code (`AbstractPeriodicCrawler.ts`) |
|---|---|
| `FetchObservations` | `_init`, `_fetchObservations`; of an event crawler, those `InScope` of the event's pool |
| `Handle` (`Skip`, `Aggregate`) | the loop of `_handle` (l. 86-134; `AbstractEventCrawler.ts` l. 113-145) |
| `Send` (`Deliveries`) | `NotificationAggregator`: one message per recipient, `allSettled`, refusals are ignored |
| `AutoFlush` | the look-up of issues in the reminder, which flushes |
| `Flush` | `_postProcess` (l. 143) |
| `Fail` | an exception anywhere: the run is over |
| `Update`, `Delete` | `ObservationController` |

Value and threshold are abstracted to *may be over the threshold*, and
`Alarming` are the observations that always are. Grouping by pool and the
wording are left out. `scope` is the pool an event is about, and `AllPools` in a
periodic run; pool 0 is false in JavaScript, which `InScope` keeps. A flush
writes the whole column, as MikroORM does with a JSON property that differs from
what was loaded.

### UnresponsiveWorkers

The chain part (`session`, `key`, `events`) is external: a worker enters and
leaves unresponsiveness with an event, may be stopped without one, and its
session may end and begin again on another key. `issues` and `position` are the
database; `open` to `counter` are the chunk's transaction; `rpc` to `stamped`
are a run of the reminder. `silenced`, `strayed` and `missed` record what
happened. `Assigned` is the pool of each key and `PoolOf` that of each
observation.

| Action | Code |
|---|---|
| `BeginChunk`, `CommitChunk`, `Crash` | the transaction of a chunk, seen from the issues |
| `HandleEnter`, `IgnoreEnter` | `MinerEnterUnresponsiveCrawler._handle` |
| `HandleExit` | `MinerExitUnresponsiveCrawler._handleEvent` |
| `HandlerThrows` | a failing query, swallowed by `tryHandle` |
| `StartReminder` | `AbstractPeriodicCrawler.run` up to the loop, with the observations the gate lets through |
| `LookUp`, `QueryStates`, `QueryThrows` | first look-up of a pool's issues, which flushes what the pools before left, and the query of their states |
| `LookUpAgain` | the look-ups for its other observations, which flush too and use the cached states |
| `SendReminder`, `FlushReminder`, `ReminderFails` | `_postProcess`; an exception anywhere |

An Enter event's `persist` waits in `fresh` until the next look-up of issues or
the commit; an Exit event's `nativeDelete` reaches the database at once and does
not see `fresh`. The transaction reads a snapshot (`REPEATABLE READ`, MySQL's
default) and its own rows. State and key of a worker, two queries in a row in
the code, are read in one step. The reminder goes through the pools by their
numbers, as `Object.entries` of its groups does (`InTurn`), and through the
observations of a pool in any order. An issue is of the pool its key is assigned
to, and that stays as it is: a key that moves to another pool is left out.

The counter of Enter events of a chunk is kept by pool, as the code keeps it. It counts
events and not workers: a worker that enters, leaves without being confirmed
otherwise, and enters again in one chunk is counted twice in the message "N
worker(s) in unresponsive state".

`events`, `position`, `issues` and `strayed` implement `IssueBoard`, by their
own names. A commit is `Take`: the events between the old position and the new
one take effect, each Enter event opens at most one issue of its worker, and an
issue goes away only with an Exit event of its worker, or if the worker strayed.
A flush of the reminder is `Remove`. All else of a chunk and of a run is
invisible, in particular what is rolled back and what is read.

### WatchdogApi

`identity`, `owner` and `writer` are the database: the user's row of each id, and
of each observation whose it is and whose request wrote it last. `tokens` are
what clients hold. `pc` to `target` are what a request has read and will use
after its next await.

| Action | Code |
|---|---|
| `FindUser`, `MissUser`, `InsertUser`, `RejectUser` | `index` and `_getOrCreateUser` of the two login controllers, which differ only in the channel |
| `CountObservations`, `InsertRow` | `ObservationController.create` |
| `FindRow`, `WriteRow`, `RemoveRow` | `update`, `delete`, with `_verifyOwnership` |
| `Fail` | an exception, or the end of the process |

An identity is a channel and a user id, already verified. `Owns` looks at the row
as it was read; what the write meets is another matter, and the point of
`OnlyOwnersWrite`. An `UPDATE` whose row is gone changes nothing.

It implements `ObservationRegistry`: `Known`, the identities that have a user,
and `Holder`, the identity of each row's user. There a request has no middle:
who is new is registered and takes one user, who is known and below the quota
creates an observation, and one observation is deleted. The quota of the registry
is the limit and one for each request that may be under way, which is what is
left of the limit.

### StakePools

`chain` is the list of the pools' owners on the chain, of which a reorganisation
may take the last ones back. `accounts` and `owner` are the database, the
`cached…` variables and `connection` each process's memory, `pc` to `address` a
run's or a request's.

| Action | Code |
|---|---|
| `StartRun`, `CountPools`, `FindLast`, `NextPool`, `EndRun` | `AbstractCrawler.run`, `StakePoolsCrawler._process` |
| `FindPool`, `MissPool`, `QueryPool`, `InsertPool`, `RejectPool` | `PhalaEntityFetcher.getOrCreateStakePool` |
| `FindAccount`, `MissAccount`, `InsertAccount`, `RejectAccount` | `getOrCreateAccount` |
| `AskAccount` | `AccountController.findAccountByAddress`, in the API's process |
| `GetApi`, `Connect` | `ApiProvider.getApi`, and the attempt it memoizes |
| `Fail`, `Restart` | an exception, or `getApi`'s timeout; the end of a process |

`ApiPromise.create` as it is called here does not reject when the node can not be
reached, it goes on trying; it is the 30 seconds of `@Timeout` that reject the
caller. So `Fail` ends the caller and `Connect` still comes. `FindLast` is the
query for the greatest `onChainId` and the early return of an up-to-date table in
one: the loop then has no pool to look at.

`chain`, `takenBack` and `owner` implement `PoolRegistry`: a row is written
once, after those of all pools below it, with the owner the chain has at that
time, unless the pool was taken back. No run, request, failure or cache is seen
there.

## What the runs check

| Run | Instance | Properties |
|---|---|---|
| `indexer_safety` | history 3, chunk 2, 2 handlers, 5 blocks, 1 failure | `TypeOK`, `NeverTwice`, `NoSilentGap`, `CursorCoversHandled`, `SentBeforeCommit`, `RepeatNeedsFailure`, `SilentOnceCommitted`, `LedgerSpec`, `CatchesUp` |
| `indexer_shared_manager` | 4 blocks, chunk 2, 1 failure | `FetchesNewBlocks` is violated |
| `notifier_safety` | 1 observation, 2 types, 2 runs, 1 mishap, clock to 3 | `TypeOK`, `StampMeansTold`, `EarlyHasCause` |
| `notifier_progress` | 2 observations of one user, 2 types of which one flushes early, 1 run, 1 mishap | `KeepsTelling` |
| `notifier_spacing` | 2 types, 2 runs, no mishap | `NeverTooFrequent` is violated |
| `notifier_pool_zero` | observations of pools 0 and 1, one type notified of by events | `MessageOfOwnPool` is violated |
| `workers_safety` | 2 workers, 2 keys of pool 0 and 1 of pool 1, sessions that end, an observation of each pool, 3 events, 1 mishap | `TypeOK`, `IssueOrCause`, `NoOrphan`, `IssuesUnique`, `RemovesWhatItAsked`, `BoardSpec` |
| `workers_progress` | 2 workers, each of its own pool, 2 observations of pool 0 and 1 of pool 1, 2 events, no session ends, 1 mishap | `ResolvedGoesAway` |
| `workers_closed` | 1 worker whose session may end | `ResolvedGoesAway` is violated |
| `workers_stamp` | 2 workers, 2 observations of one pool, 4 events, no mishap | `StampMeansMessage` is violated |
| `api` | 2 requests, 2 identities, limit 1, 3 users, 4 observations | `TypeOK`, `OneUserPerIdentity`, `QuotaBound`, `OnlyOwnersWrite`, `DeletedStaysDeleted`, `ObservationRegistrySpec`, `GetsIn` |
| `pools` | 2 runs, 1 request, 2 accounts of which 1 is asked for, 2 pools, 1 mishap | `TypeOK`, `NoGap`, `OwnerOfChain`, `CachedAreStored`, `OneConnection`, `WaitersConnected`, `PoolRegistrySpec`, `StoresPools` |

What they show, in short. The indexer survives crashes, rollbacks, swallowed
errors and restarts: it neither loses nor commits a block twice, and its one
repeated effect, a message sent again, needs a failure. Another user's flush of
its entity manager takes this away (finding 1), but never lets a chunk commit
unsent or the cursor pass the head. The notifier never
stamps what was not sent (the reminder excepted, see below), and each early
message has one of three causes. Issues and unresponsive workers agree once the
indexer has caught up, although every event is judged by a later state. The
API's requests may overlap as they like: an identity stays one user and its rows
its own, and only the quota gives way, by a row for each request under way - one
at least, as the code compares with `>` and takes 21 observations where
`MAX_OBSERVATION_COUNT` is 20. Overlapping runs of the pool crawler make each
other fail at the unique indexes, and still every pool is stored in the end.

The bounds are enough because each makes its hazard happen. With chunk 2
and five blocks, of which the first is never taken, a run takes two chunks, the
last of them whole or partial. History 3 makes a head of 5 leave block 2 behind: a
run that begins late, or after a process that was down, steps over it. One failure can fall
into each step, and the property that counts failures counts to two. Three ticks
with frequency 2 have one tick at which a message is early and one at which it is
due. Two runs are enough for a lost update. Three events let a worker enter, exit
and enter again within a chunk or across two, or one worker come between the two
Enters of another; three keys leave one free when both workers are bound; two
pools make the look-up of the second flush what was found of the first, and a
worker can come back on a key of the other pool. With
limit 1, two requests count before either inserts, and two more rows show that
the next count refuses; three user ids leave one to be inserted by mistake. With
two pools a run may fail between them, two runs may stand at the same or at
different ones, and one may have counted a pool that is taken back; a request
asks for the owner a run is about to insert. A mishap is any failed query,
refused message, update, reorganisation, timeout or end of a process. Which
counters are capped: `MaxFinalized`, `MaxFailures`, `MaxTime`, `MaxMishaps`,
`MaxEvents`, `MaxUsers`, `MaxRows`, `MaxPools`.

Deadlock is checked except in the notifier's runs, where the clock stops and
every observation may be deleted: there the system really has nothing to do.

### Fairness

- Indexer: `WF(Process)`, as a process that can take a step takes it, the chain
  and the database answer, and `etc/run.sh` starts it again; `WF` of the insert
  that nobody awaits, which the database takes or rejects. Failures are bounded
  and not fair. `Exit` and `Stop` being fair means that the process ends when
  `run()` is done or rejected. `CrawlerApp` waits for `tasker.run()` too, which
  is not in the repository: were it never to settle, the process would stay and
  take no block again.
- Notifier: the clock goes on; a run that is under way goes on; cron starts the
  crawler of each type again and again. This last is strong fairness, as a type
  may find both runs of the instance taken by others from time to time.
- Workers: the indexer takes events, cron starts the reminder, a run goes on.
  Each observation is among those of a run again and again (strong fairness, as
  runs may go on without it): once its frequency has passed it is let through.
  `ResolvedGoesAway` is about pools that somebody observes; the reminder never
  looks at the issues of others. The chain is not fair: a worker may stay as it
  is for ever.
- API: a client that is not let in logs in again, and not every one of its
  requests fails, which is strong fairness of the three steps of a login: other
  requests and failures may disable each of them again and again. A request that
  is under way is answered.
- Pools: cron starts the crawler each hour, awaited calls return, the connection
  is made; weak fairness of each. Mishaps are bounded and not fair.

## Findings

Each is a run that must end in a violation, listed in `PROJECT.json` with the
line it contradicts.

1. `indexer_shared_manager`. The cursor is changed in memory on a managed
   entity, and a flush by other code of the process writes it outside of the
   chunk's transaction: a flush computed before and written after the commit
   moves the stored cursor back, and blocks are taken twice. The model takes
   `getCommonEntityManager()` to be one manager per process, as its name and its
   two users suggest; the wrapper is not in the repository.
2. `notifier_spacing`. Two overlapping runs of different types overwrite each
   other's stamp in the shared column; the next message comes too early.
3. `workers_closed`. One worker without a session makes every run of the
   reminder throw: its issue stays and no reminder is sent.
4. `workers_stamp`. A second observation of a pool makes the reminder flush a
   stamp and then throw, so that the stamp silences a message never sent. The
   look-up for another pool flushes it as well; then a worker without session or
   a failing query has the same effect.
5. `notifier_pool_zero`. An event of pool 0 is not filtered by pool: observers of
   all pools are told of it as of their own pool, and stamped.

Finding 1 has a second face: a flush while a chunk is open that fails later, or
before the failed process ends, stores the cursor of work that is rolled back.
`NoSilentGap` is no invariant of `SharedSpec` either: the next process goes on
behind blocks that nobody has handled.

In 4 the flush at a look-up is MikroORM's `FlushMode.AUTO`: a query of an
entity class flushes first if an entity of it waits to be stored or removed.

Two more things to know, of which no run is needed. The reminder caches states by
position in a list of issues and compares only lengths later
(`UnresponsiveWorkerReminderCrawler.ts:50-62`): if an issue goes and another
comes between two look-ups of a run, the new one is judged, and removed, by the
state of another worker. `RemovesWhatItAsked` states what then fails; where no
pool has two observations it holds (`workers_safety`, `OneObservationAsked`). And
one user may have 21 observations (above).

And two exceptions that properties make are faults of the code all the same.
`missed` excuses from `IssueOrCause` a worker whose issue the reminder removed
too late: it had found the worker resolved, the worker stopped responding again,
and the Enter event found the row still there. `takenBack` excuses from `NoGap`,
`OwnerOfChain` and `PoolRegistrySpec` the pools of a part of the chain that a
reorganisation took back: their rows stay and are never read again.

## What is proved

The proofs assume the assumptions named in the modules (`CrawlerAssumption`,
`NotifierAssumption`, `UnresponsiveAssumption`, `ApiAssumption`,
`PoolsAssumption`: numbers are numbers, a chunk takes at least one block, subsets
are subsets, a missing value is none of the values) and nothing else, but for the
theorems whose own hypothesis is named below (`OneRun`, `OneOfEach`); they hold
for every value of the constants, so for every number of handlers, blocks,
failures, runs, requests, observations, types, workers, pools and ticks. Every
invariant and action property of the passing runs is a theorem, and so are the
four refinements - `RemovesWhatItAsked` where no pool has two observations, as in
its run. Of findings 2 and 5 the cause is proved to be the cause: without it,
what they violate holds. Of finding 4 it is proved that it needs one of three
causes, of which its run shows the first.

*`CrawlerServiceProofs`.* The inductive invariant has two halves. `SafetyInv`
adds to `TypeOK`, `CursorCoversHandled` and `NoSilentGap` where the loop stands
(`Position`: at the cursor, or past blocks under the history) and where the open
chunk lies (`ChunkBounds`: above the cursor, under the head that was read).
Without these a commit could move the cursor back or jump. `SendInv` says what
handlers hold: only blocks of the open chunk, nothing once their turn is over
(`PendingOfChunk`); each block of the chunk is held, was sent, or was thrown on
(`ChunkAccounted`); and a block sent once more than there were failures is in
the open chunk or committed (`SendBound`). That is what makes
`RepeatNeedsFailure` inductive: a block is sent again only after a failure took
back the chunk it was sent in. From it follow `TypeCorrect`, `NeverTwiceAlways`,
`NoSilentGapAlways`, `CursorCoversHandledAlways`, `SentBeforeCommitAlways`,
`RepeatNeedsFailureAlways`, the action property `SilentOnceCommittedAlways`, and `ImplementsLedger`: every step
is one of `BlockLedger`'s or leaves its variables alone.

With flushes of the common manager (`SharedSpec`) neither `Position` nor
`CursorCoversHandled` is invariant, as the stored row is anybody's. What a
handler holds and what a chunk accounts for need only where the chunk lies in
memory (`ChunkShape`), so the lemmas on them are proved from that and serve both
specifications. `SharedInv` adds that row, flush and loop stay between the first
block and the head; `SharedSentBeforeCommit` and `SharedNeverAhead` follow.

*`ObservationNotifierProofs`.* `StampMeansTold` is not inductive, as a flush
stores what a run holds. `CopyMeansTold` says that each stamp a run holds stands
for a message too, or is in the outbox of a run that has not sent. As a flush
comes after the sending, what it stores was sent. From it follow `TypeCorrect`
and `StampMeansToldAlways`, for types whose runs do not flush before they send.

*`NotifierSpacingProofs`.* `EarlyHasCause` only says what was recorded, so the
invariant says what holds while nothing is: for an observation and a type of
which no stamp was lost and no runs overlapped (`Regular`), the time of the last
message is in the database, or a run that has sent is about to store it
(`StoredKnows`); and a run that still looks at the observation knows of it, or is
going to send a frequency later (`RunKnows`). A flush of another run can not take
the stamp back, as that would be a lost one; a run of the same type can not be
under way, as `TwinsKnown` would have recorded it.

Two more theorems bound findings 2 and 5. `NeverTooFrequentAlone`: if no two
runs are ever under way at a time (`OneRun`), no message comes early before a
mishap. `EarlyHasCause` leaves lost stamps as a cause; `CopiesAhead` says that
there are none: what the only run holds is nowhere behind what is stored, so its
flush takes nothing back. `OwnPoolUnlessZero`: what a run of an event has in hand
was in the event's scope when it was fetched (`InScopeOnly`), and unless that is
pool 0, the scope is the pool.

*`UnresponsiveWorkersProofs`.* `IssueOrCause` and `NoOrphan` speak of the moment
when every event is taken. `WorkersInv` says what holds before: a worker that is
unresponsive has an issue *or an event that is not taken yet* (`Covered`), and an
issue is of an unresponsive worker *or one with such an event* (`Justified`).
Both are stated twice, of the database at the committed position, which is where
a crash falls back to, and of the open chunk's own rows at the event it is at.
The issues that wait in `fresh` are justified only up to the end of the chunk: an
Exit event of the chunk does not see them, and they are right all the same
because the Enter event that made them asked for the state at the head: the
worker was unresponsive there, so the Exit that ends this is emitted later, past
the last event of the chunk. `RowsInTurn` and `StoredUnique` tell rows of
an open chunk from the database's; `KeysKept` is why an Exit event finds the row
it has to delete.

*`IssueBoardProofs`.* A commit is a `Take` only if the chunk's rows and removals
are of its events. `BoardInv` says so: each row to be inserted is of an Enter
event of its worker (`RowsOfEvents`), no two of the same event
(`OneRowPerEvent`), and each row to be removed is of a worker with an Exit event
among those taken, or that strayed (`RemovedOfEvents`). The last is where keys
come in: an Exit event deletes by key, and that a row of that key is of the
event's worker is `KeysKept` of the proofs above, unless one of the two strayed.
`ImplementsBoard` then goes through the steps.

*`ReminderProofs`.* States are matched with issues by place. `AskedInOrder`: as
issues are of distinct events (`ListInv`, from `BoardInv`), no two of a list have
the same place, and the chain has an answer to each list - the model's
`QueryStates` is never stuck, and each state of the answer is one worker's.
`OneObservationAsked` assumes that a pool has at most one observation
(`OneOfEach`). Then the states are asked for when it is looked at and never used
again (`FirstOnly`), so that no issue is removed by another worker's state,
whatever other pools there are. That alone does not prevent finding 4, as the
look-up of a later pool stores the stamps of earlier ones. `UndisturbedTold` adds
that no session ends and nothing fails: then nothing throws between a stamp that
is stored and the sending (`ToldInv`). With any one of the three left out TLC
finds a stamp without a message.

*`WatchdogApiProofs`.* `ApiInv` adds what a request remembers: a row it was let
through to is its user's or gone (`TargetsOwned`), tokens name existing users
with their identity (`TokensTrue`), ids are handed out in turn (`IdsInTurn`) and
the index holds (`IdentitiesUnique`), so that rows of an identity are rows of one
user. `QuotaInv` counts a user's rows and the requests that are about to insert
one together: their number is at most the limit and one more for each request
there is, because who counts is not yet among those that insert. For
`ImplementsRegistry`, an insert of a row is a `Create` by `QuotaInv`, of a known
identity because the user a request acts for exists (`UsersExist`); an insert of
a user is a `Register` by the unique index.

*`StakePoolsProofs`.* `PoolsInv` adds to the invariants what a run aims at
(`RunAims`): it counted pools the chain had, all below the one it is at are
stored, and the account it holds is the owner's, unless pools were taken back.
`NoGap` follows at the insert of a pool; it does not follow from the unique index
or the order of any single run, but from no run's going on past a pool that was
not stored. `Grows` says what no step undoes, and so what the other runs still
know after it. `WaitersConnectedAlways` is that who is past `getApi` has a
connection, whoever's attempt it was. `ImplementsRegistry`: an insert of a pool
is a `Store`, in order by `RunAims`; nothing else writes a row.

Only model-checked: liveness (`CatchesUp`, `KeepsTelling`, `ResolvedGoesAway`,
`GetsIn`, `StoresPools`), which is out of the prover's reach, and all violations.

Mistakes and the properties they break: `TooOldByOne` `NoSilentGap`;
`RowToCommitUntouched` `NeverTwice`, `CursorCoversHandled`, `CatchesUp`;
`MoreInChunkInclusive` and `MoreInChunkUnlimited` a bound in `TypeOK`;
`ChunkEndUnlimited` `LedgerSpec`; `AllPostProcessedUnchecked`
`SentBeforeCommit`; `HeldWhenSentUncleared` `RepeatNeedsFailure`;
`ResumeAtDefault` `SilentOnceCommitted`; `TooFrequentIgnored` `EarlyHasCause`;
`TooFrequentForever` `KeepsTelling`; `ReadyToFlushUnsent` `StampMeansTold`;
`NewStampOfNext` `TypeOK`; `SameIssueByAccount` `IssueOrCause`;
`UnaskedOnce` `RemovesWhatItAsked`;
`DeletedByUnbound` `BoardSpec`; `ConfirmedAlways` `NoOrphan`; `VisibleOutside` `IssuesUnique`;
`ResolvedInNone` `ResolvedGoesAway`; `MissUserUnflushed` `TypeOK`; `TakenNever`
`OneUserPerIdentity`; `TakenChannel` `GetsIn`; `WithinLimitOfLast` `QuotaBound`;
`OwnsAnything` `OnlyOwnersWrite`; `WriteRowUpsert` `DeletedStaysDeleted`;
`CountPoolsAsLast` `TypeOK`; `InsertPoolLenient` `NoGap`; `InsertPoolShared`
`OwnerOfChain`; `MissAccountCached` `CachedAreStored`; `UnopenedYet`
`OneConnection`; `MissAccountUnasked` `WaitersConnected`; `InsertPoolUpsert`
`PoolRegistrySpec`; `RemoveRowsOfUser` `ObservationRegistrySpec`;
`CountPoolsLast` `StoresPools`.

## What is not modelled

- The ORM, the tasker, the entity manager wrapper and the object manager are
  libraries or submodules that are not in the repository. They are assumed: one
  common entity manager per process, a forked one in a transaction, a clean one
  per run of a crawler; a new crawler instance per start; JSON columns written
  whole; a flush writes everything that changed.
  A request of the API has an entity manager of its own; a `persistAndFlush` of
  one row inserts it or is rejected, in one step. Were the logins' common manager
  shared with other requests of the API, their changes would be flushed together;
  what that does is shown of the indexer, by `CommonEntityManager`.
- Amounts, prices and the wording of messages: what a periodic crawler observes
  is a number that is over its threshold or not, and the delta of a commission
  likewise. Migrations, deployment, wiring, transfer objects, and the cipher,
  which is a library's.
- `src/modules/Phala/Api/interfaces` and its neighbours: more than 27000 of the
  repository's 31000 lines, generated declarations of types. They have no
  behaviour, so no definition can stand for them.
- `TransactionHandler` and the two `Subscan` clients: no code of the repository
  calls them. How their results are used, and who would retry, is not to be read
  from the source.
- `AccountsCrawler`: its cron is commented out. The release of `ApiProvider` at
  the end of a process, its second mode, and reconnections of the web socket,
  which are the library's.
- The check of a login (HMAC, Discord's exchange of codes), expiry of tokens, and
  the read-only routes of the base controller.

## What may come next

- Composition: the reminder of `UnresponsiveWorkers` as a flushing run of
  `ObservationNotifier`, in place of its `AutoFlush`.
- A common entity manager in `StakePools` and `WatchdogApi`, once the wrapper's
  source says what it shares.
- The events of a block one by one in `CrawlerService`, to have a handler's
  throw in the middle of a block.

## Running it

`tlc -config X.cfg M` for each run of `PROJECT.json`, and `tlapm M.tla` for the
eight `…Proofs` modules. The longest run, `indexer_safety`, takes under three minutes.
