# Aurora in TLA+

This directory specifies the parts of the Hcnet Go monorepo in which several
actors share state: first of all Aurora, the API server, its ingestion and the
captive core it reads ledgers from. Each component has a module translated from
the source, an `MC` module and `.cfg` files that check small instances with TLC,
and, where it pays, a `...Proofs` module whose theorems TLAPS proves for every
instance. `PROJECT.json` maps every definition to the lines it models, and lists
what is hard to test in this code together with the properties that cover it.

## The system

Aurora ingests the ledgers of the Hcnet network into Postgres and serves them.

| Part | State | What is hard | Module |
|---|---|---|---|
| Captive core (`ingest/ledgerbackend`) | process, pipe, prepared range, cached ledger | process exit, close and read racing | `CaptiveCore`, `LedgerBackend` |
| Ingestion state machine (`services/aurora/internal/ingest/fsm*.go`) | `exp_ingest_last_ledger`, `exp_ingest_version`, state tables, `history_ledgers`; each instance's FSM state | several instances on one database, a row lock, a rolling upgrade, commits whose outcome the client does not learn | `Ingestion`, `IngestedState` |
| Parallel reingestion (`parallel.go`, `cmd/db.go`) | job queue, workers, lowest error | an unbuffered channel, workers that fail in any order, boundary arithmetic | `ParallelReingest` |
| State verification (`verify.go`, `httpx/middleware.go`) | running flag, advisory lock, `exp_state_invalid` | a verdict on a state that was replaced meanwhile | `StateVerification` |
| Order book stream (`orderbook.go`) | in-memory graph, last ledger | the tables move on, are compacted and rebuilt between two updates | `StateTables`, `OrderBookStream` |
| Reaper (`reap`) | history range, cached ledger state | deletion on stale knowledge while others write | `HistoryTables`, `LedgerState`, `Reaper` |
| Streaming (`render/sse`, `httpx`, `ledger`, `clients/auroraclient`) | cursor, cached ledger state, session | cursors read twice, sessions woken by a cache, broken connections | `HistoryTables`, `LedgerState`, `LedgerStream` |
| Transaction submission (`txsub`) | open submissions, result channels | a result that arrives while a request is being added; time-outs | `TxSub` |
| HTTP API, other clients, XDR, transaction building, small services | read-only, or one actor | | not modelled, see below |

`IngestedState` and `HistoryTables` hold the system together. `IngestedState` is
what a reader of the database sees of ingestion: three numbers and four kinds of
committed steps. `HistoryTables` adds the ledgers in the history tables.
`Ingestion`, with its instances, locks, batches and faults, is shown to implement
`HistoryTables` and with it `IngestedState` (checked by `ingestion_cluster`,
proved in `IngestionProofs`), and the modules of the readers extend them:
`StateVerification` and `StateTables`/`OrderBookStream` the first,
`LedgerState` with `Reaper` and `LedgerStream` the second. So they are composed
with a cluster of any size without carrying its state.

## Modules

### `Ingestion`, `IngestedState`, `MCIngestion`; proofs in `IngestionNodeProofs`, `IngestionProofs`

Processes are Aurora instances (`Nodes`) and operator commands (`Cmds`).
`network` and `checkpoint` are the outside world; `lastIngested`,
`ingestVersion`, `state`, `stateVersion` and `history` are the committed
database, `lock` is the holder of the row lock that `GetLastLedgerIngest`
takes (SELECT ... FOR UPDATE), and `ins`/`del` are the uncommitted history rows
of each process. `pc`, `arg`, `to` and `cur` are the FSM state and its
parameters. An action is one transaction, or one part of it that other
processes can see between: the lock and the checks (`...Begin`), the batches
(`FlushBatch`), the commit (`...Commit`), each way to fail (`...Fail`,
`...Conflict`, `...Partial`). A commit may succeed while the client sees an
error; `faults` bounds these and all other failures with `MaxFaults`.

The state is abstract: `state` is the ledger the state tables describe, or
`Corrupt` once processors ran on the wrong base. Which rows a processor
writes is left out. Unique-index conflicts are modelled by `Unblocked` (wait for
an open transaction on the same key) and `Conflicts`. Left out: `verifyRange`
and `stressTest`, and the reaping of lookup tables.

### `ParallelReingest`, `MCParallelReingest`; proofs in `ParallelReingestProofs`

`Init` takes every history of up to `MaxLedger` ledgers; `FillGaps` or
`ReingestRange` then picks ranges as `cmd/db.go` does, splits them, and one
enqueuer and `Workers` run as goroutines around the unbuffered channel
(`SendJob` is the rendezvous). At the end `Finish` rebuilds the trade
aggregations range by range (`RebuildRanges`), which fails where a range has no
row of `history_ledgers` (`HasRows`: those of the start and those of the jobs), and
may fail anywhere; `rebuildErr` is where it stopped. Ledger 1 never has a row. A system
factory that fails early is left out.

### `CaptiveCore`, `LedgerBackend`, `MCCaptiveCore`; proofs in `CaptiveCoreProofs`

The variables are the fields of `CaptiveHcnetCore`, one record per
`hcnetCoreRunner` with its process, pipe and channel (`runners`), and where each
of the three threads that may close a runner is (`closing`: the caller, a
concurrent `Close`, the watcher of the binary). `user` is the goroutine that
calls `PrepareRange` and `GetLedger`, step by step. hcnet-core is external: it
writes ledgers of one of several `Chains`, exits when it likes, and with `Honest`
writes what it was started for. `useDB` says whether `runFrom` keeps a database:
it then asks `offline-info` for the last closed ledger and resumes from it, or removes
the database and catches up first (`RemovesDB`, `FirstStreamed`); in memory it
streams from no later than the ledger after the one it runs from. `LedgerBackend` is the interface: a session
reads one chain, in order, without gaps and inside its range, and a call that
succeeds returns the ledger it asked for. `ImplementsBackend` is the refinement.

### `StateVerification`, `MCStateVerification`; proofs in `StateVerificationProofs`

Each instance's ingestion starts a verifier after it commits a checkpoint
ledger (`MaybeVerifyState`); the verifier takes a snapshot, then the advisory
lock, waits for the archive and reads; its verdict is recorded after its
transaction ended. `sound` says whether the tables are right row by row; every
ingestion step and every build may spoil or mend it. `wrong` (the ledgers at which
the tables of this build were not sound) and `marked` (the verdict the flag was set
on) are history variables. A request goes through the state middleware
(`RequestBegin`, with its `NoStateVerification` field, which no router sets) and
`Response` is what its handler gets at any moment until it returns (`RequestEnd`).

A build truncates the state tables, and in Postgres TRUNCATE is not versioned: a
repeatable-read transaction that has an older snapshot and has read none of the
tables yet finds them empty, while one that has read one makes the TRUNCATE wait.
So the reader of this module, the order book's and the handlers compare the build
of their snapshot with that of the database when they read.

### `StateTables`, `OrderBookStream`, `MCOrderBookStream`; proofs in `OrderBookStreamProofs`

`Chain` gives the ledger at which each entry was last changed; `rows` are the
table rows with their `last_modified_ledger` and `deleted` columns, which
`Compact` removes. One `Update` reads one snapshot (`UpdateBegin`), decides
(`RequiresReset`), and loads all rows or those modified since (`Load`,
`Patch`); once an hour `Verify` compares. `loadedFrom` and `overtaken` are history
variables: which build of the state the graph comes from, and whether an update
met another build or truncated tables (`SeenRows`, `TruncateWaits`).

### `HistoryTables`, `LedgerState`, `Reaper`, `MCReaper`; proofs in `HistoryProofs`

`HistoryTables` adds to `IngestedState` which ledgers are in the history tables:
ingestion writes the next ledger, a range is written by a catch-up or a command,
and a forced reingestion that fails after its deletions leaves ledgers out
(`ReingestPartial`). `Reaper` is composed with all but the last: such a command
loses ledgers by itself and may lower the latest ledger below one that is cached,
so `RetainedKept` is about an operator who runs none that fails.
In `LedgerState` every instance (a `db reap` command is one more) caches the latest and the elder
ledger, read by two queries of a tick (`QueryLatest`, `SetAuroraStatus`);
`DeleteUnretainedHistory` decides once, from the cache, and `ClearBatch` deletes
one batch per transaction, newest first. `ClearFail` covers failing queries and the
range check of `LedgerRangeInclusive`. Retention counts of 2^31 and more, which the code
converts to a negative number, are not in the model.

### `LedgerStream`, `MCLedgerStream`; proofs in `HistoryProofs`

The stream of ledgers, end to end. A request resolves its cursor (`Connect`),
remembers the cached last ledger (`ServeStream`), resolves the cursor again and
queries (`GetPageQuery`, `GenerateEvents`), and waits (`NextLedger`). The Go
client keeps the ID of the last event and reconnects after the end of a response
or a lost connection (`EndOfFile`, `Break`), to any instance. `late` and `from`
are history variables that `Delivered` needs (see Findings). `LedgersRemoved` is
reaping and the forced reingestion that fails; the theorems include it, the run
does not: what is taken away before a slow client comes to it is not sent.

### `TxSub`, `MCTxSub`; proofs in `TxSubProofs`

`queue`, `applied`, `ok` and `coreLatest` are hcnet-core: the transactions it
holds, the ledger each one was applied in, and its result. `ingested` is the
last ledger of the history database. A request goes through `System.Submit`
step by step (`lookup`, `submit`, `wait`, `relookup`, `add`), one action per
database or network call, and ends in `open`: either a result is on its channel
(`chan`) or its listener is in the open submission list (`open`, `old`).
`status` is the cached ledger state, `tick` is the one App.Tick in progress:
the two refreshes in either order, `Pending`, the queries of one snapshot, one
`Finish` per hash found, `Clean`. Requests may join the list between any two of
these. A failing call (`Fault`) is possible at every lookup, submission and
query; a response of hcnet-core can be lost after it took the transaction.

All transactions are of one source account, with a sequence number (`SeqNum`)
each and, for a fee bump, the hash it wraps (`Inner`). How hcnet-core orders its
queue is left open. Left out: metrics, the checks of the HTTP handler before
Submit, and the handler leaving when its client does, which changes nothing in
the list.

## What is checked

| Run | Instance | Shows |
|---|---|---|
| `ingestion_cluster` | 2 instances, 1 command, with fairness | `TypeOK`, `StateMatchesLastIngested`, `NoUncommandedGap`, `LastIngestedSteps`; `ImplementsHistoryTables`: every commit is a step its readers expect; `CatchesUp` |
| `ingestion_upgrade` | old and new instance, old command | `StateMatchesLastIngested` with two versions |
| `ingestion_version` | the same | violated: an old instance lowers the version |
| `parallel_reingest` | all histories of 10 ledgers, interval 3, 2 workers, 2 failures, and a rebuild that may fail | `TypeOK`, `GapsAreExact`, `JobsDisjoint`, `RestartPreventsGaps`, `TradeAggregationsFresh`, `Returns` |
| `parallel_reingest_closed` | 8 ledgers | violated: `reingest range` can return nil without its last ledger |
| `captive` | 1 process in memory, on two forks, that writes what it likes | `TypeOK`, `ImplementsBackend`; `CloseReturns`, `DecoderEnds` |
| `captive_restart` | 2 processes, one after the other, with a database, honest | `OneProcess`, `HonestAccepted`; `ImplementsBackend` and `CallsReturn` over two sessions |
| `state_verification` | 2 instances, 1 request, 2 builds | `TypeOK`, `OneVerifier`, `InvalidIsProved`, `AnswerOfOneLedger`, `VerifierEnds` |
| `order_book` | 4 ledgers, 2 builds, window 2 | `TypeOK`, `GraphAccurate`, `Converges` |
| `history_reaping` | 1 instance that retains 2 of 5 ledgers, batches of 1 | `RetainedKept`, `Reaped` |
| `ledger_stream` | 1 instance, 1 client, 4 ledgers, 2 events per session | `StreamTypeOK`, `InOrder`, `NoMissedWakeup`, `Delivered` |
| `txsub` | 2 requests, a transaction and its fee bump, 1 ledger, 1 fault | `TypeOK`, `SentOnce`, `ResultsTrue`, `NoTimeoutOverResult`, `Answered` |

Bounds. *Ingestion*: 8 ledgers with checkpoints every 3 (64 in the code), because
only "is a checkpoint" and "the one before" matter, and 8 leaves room for two
builds with ledgers to resume in between; batches of 2 ledgers, so that a range
takes several; one fault, since the interesting schedules need one lost commit
or one crash between two steps; two instances and one command, because every
step involves one process and at most one other. *Parallel reingestion*: all
histories of 10 ledgers, jobs of 3, so that ranges divide evenly and do not.
*Captive core*: ledgers up to 3, channel and pipe of one ledger, so that the decoder
blocks. With one process, checkpoints every 2 and a range that is unbounded, one
inside a checkpoint and one from ledger 1; with two, checkpoints every 4, an
unbounded range from inside the first checkpoint and a bounded one that starts with
it; `HonestAccepted` is about the ledger that comes next even if it is not written
yet (`Coming`), so that a start after the last ledger counts. A larger instance of two
dishonest processes is beyond five minutes; the theorems
cover it. *State verification*: 3 ledgers with two
checkpoints, two waits for the archive, two builds, so that a verdict can be about an
earlier one. *Order book*: ledgers that create, change and remove entries, and a
window short enough to be passed. *Reaper*: 5 ledgers, 2 retained, so that a run
has several batches; a batch of size 1 covers two ledgers, as the code's do one
more than `batchSize`. Two instances make the liveness check too large; the theorem
covers any number. *Stream*: two events per session, so that four ledgers take
several sessions and a page is cut by the limit. *Transaction submission*: two
requests, which can share a hash or have the two hashes of one fee bump; one
ledger, in which results appear in any order with ticks and time-outs. The
theorems cover the rest, results that leave the window of a tick included.

Deadlock is not checked for `Ingestion`, `ParallelReingest`, `OrderBookStream`
and `StateVerification`: the bounded network and the bounded builds run out, an
instance that meets a newer version stops for good, and a command ends. In the
other modules something always can go on, and TLC checks it.

Fairness. *Ingestion*: strong for every process, because processes contend for
the row lock and Postgres grants it to each waiter in the end, while the FSM
retries in an endless loop; weak for the network and the archive. *Transaction
submission*: weak for the handlers (the context of a request has a deadline),
for the passing of the submission time-out and for App.run, which ticks every
second; none for hcnet-core or for ingestion, so `Answered` holds though both
stand still. *Parallel reingestion*: weak for the enqueuer and the workers.
*Captive core*: weak for each goroutine, for the network and for the exit of a
process that was killed. *State verification*: weak for the verifiers only; the
archive may never publish. *Order book*: weak for `Run`, strong for the three
ways an update gets to its end, since queries fail but not for ever. *Reaper*:
weak for the tick, strong for what may fail again and again: the refresh, the
hourly run, and each batch. *Stream*: the same for the refresh; weak for the
client's reconnecting, strong for each step of a session, since a connection may
break at any time but not always at the same step. Nothing is assumed of
ingestion in the last four, but that in *Stream* no state is built at a ledger
below one that was ingested before (`Onward`): a session remembers the later
ledger and waits until it is passed.

## What is proved

`IngestionProofs` proves, for every number of processes, ledgers, faults and
any versions, `TypeCorrect`, `StateSafety`, `HistoryGapFree`,
`LastIngestedMoves` and `IngestionImplementsHistoryTables`, with the corollary
`IngestionImplementsIngestedState`. None of the safety properties is inductive
alone: `StateMatchesLastIngested` needs that whoever
writes holds the lock (`LeaderHoldsLock`), that what `BuildBegin` and
`ResumeBegin` checked still holds when they commit (`ChecksHold`), and that the
parameters of a state are sensible (`ParametersValid`); `NoUncommandedGap` needs
that uncommitted rows belong to who asked for them (`RowsOwned`) and that the
leader writes on top of everything no command wrote (`LeaderExtendsHistory`).
`IInv` is their conjunction. There is one lemma per action, and `NextIInv` puts
them together. Actions that only move one process from state to state share the
lemma `MovesPreserve`. `IngestionNodeProofs` has the environment, start, build
and resume, `IngestionProofs` history ranges, commands, crashes and the
theorems. The refinement maps the latest ledger of history to the largest
committed one and uses `IInv` to show that a commit of resume is `IngestLedger`,
one of build is `BuildState`, and so on. That a command's commit writes a whole
range, or a part of it after a failure, needs one more invariant: it has deleted
inside its range and flushed a prefix of it (`CommandRows`).
`IngestionAssumption` says that process names are distinct, that the first
checkpoint is within the bound, and that the numbers are of the right kind.

`CaptiveCoreProofs` proves `TypeCorrect`, `AtMostOneProcess`, the refinement
`CaptiveCoreImplementsBackend` and `HonestStreamAccepted`, for any ranges,
chains, buffer sizes and number of processes. The invariant says that the hash to compare with is that of the cached
ledger and belongs to the current range (`StreamGood`), that every runner but
the current one has exited (`RunnersGood`), that threads close runners that exist
(`ClosingGood`), and that what a call in progress has checked still holds
(`CallsGood`). Steps of other goroutines share the lemmas that say which part
they leave alone. `HonestStreamAccepted` needs that channel, pipe and what the
process will write next are consecutive ledgers (`Consecutive`) that begin at the
one GetLedger expects, or not after the range when none was read (`InStep`),
unless the runner was cancelled (`HonestGood`, `CancelGood`), and that GetLedger
waits on a started runner (`WaitGood`). The start of the stream comes from
`runFromParams`, the checkpoint arithmetic and `runFrom`, for every frequency, in memory
and with a database in whatever state earlier processes left it (but for ledger 2, see
Findings). It assumes of an honest process that there is one chain
(`CaptiveCoreAssumption`).
`NeverStuck` is what `CallsReturn`, `CloseReturns` and `DecoderEnds` rest on besides
fairness: the process that close waits for has exited, was cancelled or is about to
be reaped; a channel that is drained has a result, is closed, or its decoder can go
on; and so can a decoder or a process when GetLedger waits. It needs that what close has
waited for stays so, while other threads step (`ClosersGood`, `RunnerNextGrows`).

`ParallelReingestProofs` proves `TypeCorrect`, `GapDetection`,
`JobsNeverOverlap`, `RestartLeavesNoGap` and `TradeAggregations` for every
history, range, interval and number of workers and failures. Gap detection is
recursion over a sequence and splitting is arithmetic; both are proved by
induction over the set of numbers for which a claim holds (`SetInduction`, from
the well-foundedness of <) and a lemma on functions defined by recursion
(`Recursion`). The inductive invariant says where the loop of
`enqueueReingestTasks` is, in multiples of the batch size (`PositionGood`), that
workers hold and have done only what it has passed (`WorkersGood`), and that each
ledger it has passed is done, in work, at or above the lowest error, or the last
ledger that is dropped (`AllSettled`). `TradeAggregations` follows since the ranges are
sorted and the rebuild goes through them in order, up to its first error (`ResultGood`). Termination is proved but for fairness:
`NeverStuck` says that until the command returns somebody can take a step (workers
leave only after the stop channel was closed, `StopGood`), and `EveryStepCounts` that
every step lowers a measure: the phase, then the ranges left and the ledgers left in
the range, all natural numbers, then the set of the workers that have a job and that
of the workers that have not left. These two can only shrink finitely often because the
workers are finitely many (`WorkersAssumption`, which also says that there is one).

`StateVerificationProofs` proves `VerifierExclusive`, `InvalidStateProved`,
`AnswersConsistent` and `TypeCorrect` for any number of instances: who reads
holds the lock (`ReaderHoldsLock`), a ledger at which a build was seen to be wrong is
remembered as long as that build is the state (`WrongIsRemembered`), and what passed
the middleware is of one ledger (`OneLedger`). `NoStateVerification` may have either value.

`OrderBookStreamProofs` proves `GraphIsAccurate` and `TypeCorrect` for every
chain of ledgers that keeps `lastModifiedLedgerSeq` and every window. The core is
about rows: `Accurate` (a row says what its ledger holds, a deleted one since
when the entry is gone) and `AbsentSince` (an entry without a row did not exist since
the last compaction) together make an incremental update exact, as long as the rows
are those of the snapshot.

`HistoryProofs` proves `RetainedHistory` and `TypeCorrect` for any number of
instances, retention counts and batch sizes. `RetainedKept` needs that the latest
ledger is in history unless that is empty (`LatestIsLast`), so that deleting below
it does not lower it, and that nothing cached is above it (`CacheBehind`): then a stale
cache deletes less, never more. It also proves `StreamInOrder` and
`StreamTypeCorrect`, with ledgers filled in, reaped and lost at any time: a page is
the first ledgers after the cursor, by rank (`PageFacts`, `AscendingFacts`), and
the next query starts after the last event sent, or the client's cursor is the last
event it got (`SessionGood`). `StreamWakesUp` proves `NoMissedWakeup` of
`OnwardSpec`, the specification of the run without its fairness: a session that waits
while its client lacks a ledger remembers an older one than the last ingested. Its
invariant `WakeInv` says that ingestion has reached what the cache and the session
remember (`CacheReached`, `QueryGood`), that history is not ahead unless ledgers
were filled in late (`HistoryBehind`), and that what a waiting session has not sent is newer
than the ledger it remembers (`WakesUp`), since a page that does not use up the limit of
its session has all ledgers after its cursor (`WholePage`).

`TxSubProofs` proves `ChannelSentOnce`, `ResultsAreTrue`, `ResultBeforeTimeout`
and `TypeCorrect` for every number of requests, transactions, ledgers and faults.
`SentOnce` alone is not inductive: it needs that a running Submit has sent
nothing (`UnansweredWhileRunning`) and that each listener is in the list of its
own hash only and waits (`ListenersWait`). `ResultsTrue` needs that a tick finds
only what is in the ledger and that the ledger keeps it (`LedgerConsistent`).
The steps of Submit are of three kinds: it passes on (`Passes`), answers
(`Answers`) or adds its listener; those of a tick are quiet (`Quiet`) or deliver
(`Delivers`). Each kind has one lemma. `ResultBeforeTimeout` needs besides that
until Clean every pending hash with a result in the snapshot is still to be
finished (`SnapshotCovered`). `NobodyForgotten` says that who waits for a tick is
listed with its transaction, and that no age is kept without a list (`Listed`): a tick
that finds or times out a transaction answers everybody who waits for it.
`TxSubAssumption` only types the constants.

Only model-checked is liveness, since TLAPS proves nothing about fairness or
ENABLED: `CatchesUp`, `Returns`, `CallsReturn`, `CloseReturns`, `DecoderEnds`,
`VerifierEnds`, `Converges`, `Reaped`, `Delivered` and `Answered`. For some the part
that fairness does not give is a theorem: `NoMissedWakeup` behind `Delivered`,
`NobodyStuck` with a decreasing measure behind `Returns`, `NobodyStuck` behind `CallsReturn`,
`CloseReturns` and `DecoderEnds`, `Listed` behind `Answered`. Every invariant
and action property of the passing runs is a theorem. What the two violated
properties show is a counterexample, for which an instance is enough.

## Findings

Two statements of the repository that a run refutes:

* `buildState` does not stop an old version from rebuilding over a newer one
  (`fsm.go:326`), although `startState` would terminate it (`fsm.go:166`):
  `ingestion_version`.
* `enqueueReingestTasks` loses a last single ledger (`parallel.go:96`): `reingest
  range` of one ledger that has a row returns nil without reingesting it, and so does
  every command for a range one longer than a multiple of the batch size
  (`parallel_reingest_closed`). A gap of one ledger is not filled either, but there
  the rebuild of trade aggregations finds no row and the command ends in its error.

Seen while modelling, described here and in the properties' exceptions:

* After a start of hcnet-core that failed, the range of the last session counts
  as prepared: the runner is replaced before `catchup` or `runFrom` is called,
  `prepared` and `nextLedger` are not reset (`captive_core_backend.go:310`). A
  `GetLedger` inside that range then asks the runner that never started for its
  channel and panics (`:618`); the model has that step (`user.pc = "panic"`), from which
  the program does not go on.
* With a database, a range that starts at ledger 2 is refused unless the database
  happens to be at ledger 1: `runFrom` catches up to ledger 2 and the process streams
  ledger 3 (`hcnet_core_runner.go:367`). `HonestAccepted` excludes it (`StartsAfterTwo`).
* A second caller of `hcnetCoreRunner.close` returns while the first still
  removes the storage directory, which the next online process already uses
  (`hcnet_core_runner.go:594`); `wiped` records it in the model.
* `GetLedger` answers from the cached ledger after `Close` and before any check of
  the range (`captive_core_backend.go:576`); `PrepareRange` may be satisfied by
  the cached ledger of the last session (`:495`). `LedgerBackend` allows it: the
  last ledger read may be returned again.
* The rebuild of trade aggregations stops at the first range without a row
  (`parallel.go:83`): after `fill-gaps` on a gap of one ledger and a later longer one, the
  longer one is filled and has no aggregations. After a failed job the error of the
  rebuild is only logged (`:201`). `TradeAggregationsFresh` is about what comes before it.
* `Submit` answers txBAD_SEQ for a transaction whose failure is in the database
  (`txsub/system.go:157`), where the comment speaks of "no result", and the wait
  before it ends early when the cached ledger state is stale (`:195`).
* A verdict of the verifier that is recorded after a rebuild condemns the new
  state (`ingest/main.go:698`); `InvalidIsProved` excludes that case. Since TRUNCATE is
  not versioned (`fsm.go:347`), a build that commits between the snapshot and the
  first read of a state table makes the verifier find empty tables and give such a
  verdict, whether or not the old state was right.
* For the same reason a request that passed the state middleware before a build
  and queries after it is answered from empty tables, under the Latest-Ledger header of
  its snapshot (`middleware.go:315`); `AnswerOfOneLedger` says that this is the only
  other thing it can get.
* The order book misses deletions when the state is rebuilt between two updates,
  and reads empty tables when a build overtakes an update, until a reset or the hourly
  verification (`orderbook.go:316`, whose comment says that after an `Update` without
  an error the graph "should be consistent with the Aurora DB"); `GraphAccurate` excludes
  that time. While the last ledger is below an old compaction sequence, every
  update resets the graph; `Converges` excludes that.
* A `now` stream reads the cached state twice: a ledger ingested between the two
  reads is sent only with the next one (`from`). Ledgers filled in by
  reingestion do not wake a session (`late`). A `now` client that loses its
  connection before its first event misses the ledgers in between, and an
  instance that has just started resolves `now` to ledger 0. A session that has
  seen a ledger gets nothing while ingestion works up to it again from an older
  build (`Onward`).
* A reaping run that fails leaves a gap between what it deleted and older
  ledgers, until the next run.
* The reaping of lookup tables runs inside the ingestion transaction
  (`ingest/main.go:750`), which a reingestion without `--force` does not wait for:
  a lookup row it relies on may be deleted before it commits.

## Not modelled, and why

* The change processors and loaders, XDR, rendering and the other clients convert
  data of one ledger or one request. They share no state with anything but the
  database, whose transactions the modules above take as their steps. Their
  correctness is row by row and out of reach of small instances.
* Path finding is a graph search over a read-locked graph; its result depends on
  amounts, which a small instance does not represent.
* Lookup-table reaping against a reingestion needs lookup rows and references to
  them, which no module has.
* The ledger exporter, Light Aurora, friendbot, the recovery signer, web
  authentication, federation, ticker, keystore, regulated assets: experimental or
  small services over one table or one queue.
* Key handling, transaction building, history archive access and the support
  libraries are libraries without state of their own that actors share.
* `verifyRange` and `stressTest` of ingestion write to an empty database
  for testing; metrics, logging and configuration change nothing the properties
  are about.

The repository has far more code of these kinds than of the modelled one, so the
map covers a small share of its lines.
