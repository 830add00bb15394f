# Verification of simply-kaspa-indexer

TLA+ models of the indexer's tasks, TLC configurations that check them on small
instances, and TLAPS proofs of what matters most. The models are translated
from the Rust sources; `PROJECT.json` maps every definition to its lines.

## The system

The indexer follows a kaspad node and writes blocks, transactions and
acceptance data to PostgreSQL. One process runs a handful of tokio tasks that
share bounded queues, a metrics record and the database. Nothing but the
database survives a restart, and a panic of any task ends the process
(`try_join_all(..).unwrap()` in `main.rs`).

    kaspad --> KaspaBlocksFetcher --blocks_queue--> process_blocks -------\
                       \                                          checkpoint_queue --> process_checkpoints
                        \----------txs_queue-----> process_transactions --/
    kaspad --> fetch_virtual_chain --channel(1)--> process_virtual_chain
    cron   --> prune                              signals --> SignalHandler

| Component | State it keeps | Operations | Talks to |
|---|---|---|---|
| Block fetcher (`blocks/fetch_blocks.rs`) | `low_hash`, `block_cache`, sync state | poll `get_blocks`, skip known blocks, push to two queues | kaspad, both queues |
| Block processor (`blocks/process_blocks.rs`) | a batch of rows and of checkpoint events | pop, commit to `blocks` then `block_parent`, publish its position, announce | `blocks_queue`, database, metrics, `checkpoint_queue` |
| Transaction processor (`transactions/process_transactions.rs`) | a batch, `tx_id_cache` | pop, wait for the virtual chain processor, insert concurrently, announce | `txs_queue`, database, metrics, `checkpoint_queue` |
| Checkpoint processor (`checkpoint.rs`) | candidate, `cp_ok_txs`, `txs_processed`, last blue scores | choose, confirm, save, warn, give up | `checkpoint_queue`, table `vars` |
| Virtual chain fetcher (`virtual_chain/fetch_virtual_chain.rs`) | `start_hash` | poll, send, wait for the block processor | kaspad, channel, metrics |
| Virtual chain processor (`virtual_chain/*.rs`) | tip distance and its window | delete removed blocks, insert acceptances, upsert transactions, mark chain blocks, save `vcp_checkpoint` | channel, database, metrics |
| Pruner (`prune.rs`, `query/delete.rs`) | flag `running`, step results | cron run, one step per table, batches | database, metrics |
| Startup (`main.rs`, `vars.rs`) | the two saved positions | choose start positions, spawn tasks | database, kaspad |
| Signal handler (`signal_handler.rs`) | `shutdown_sent`, broadcast channel | first signal stops, second exits | every loop |
| Database client (`client.rs`, `query/*.rs`) | connection pool, schema version | schema and migrations, queries, deadlock retry | PostgreSQL |
| Web server (`web/`) | none of its own | health, metrics | metrics, database, kaspad |
| Mapper, command line, kaspad pool | configuration | field mapping, flags, connections | all |

What is hard here, and a test hardly reaches:

* two branches of the pipeline run at their own pace, and one saved block speaks
  for both; `get_blocks` never goes below it again;
* rows are written by many autocommitted statements, with a crash possible
  between any two of them;
* the virtual chain reorganises while responses are under way, and a restart asks
  again from an older position;
* four tasks throttle each other through queues and through positions in the
  metrics;
* flags remove a task that another one waits for, or a wait that kept two tasks in
  order;
* `-i` starts both branches at another block, whatever the tables hold;
* shutdown reaches each loop at a different place;
* the pruner relies on the order of its steps and goes on after a failed one;
* schema scripts are not transactions, and each start runs them again from the
  first statement;
* three statements at a time lock the same rows of `transactions`, and a deadlock
  victim is retried;
* `get_blocks` returns a block before its mergeset, so DAA scores fall now and then;
* a migration written for full tables may meet an empty one;
* a row drops zeros, trailing zero bytes and signs, and two phases that know
  different things decide which rows there are.

`PROJECT.json` lists these hazards at the lines where they bite, with the
properties aimed at them.

What makes each component correct: the fetcher never moves `low_hash` past a
block it did not hand over (`LowHashCovered`); the processors announce a block
only when its rows are stored, and the checkpoint processor saves only what both
announced (`CheckpointSafe`); the virtual chain tables equal the selected chain
(`AcceptancesExact`, `MarksExact`, `AcceptedResolved`); the waits end
(`NoCircularWait`, `FetcherResumes`, `ResponseHandled`, `ShutdownCompletes`,
`ChainFollowed`); the tip distance is stable (`NoPendingIncrease`,
`DecreasesSpaced`, `ComesCloser`); the pruner deletes what expired and nothing
else (`YoungRowsKept`, `JoinedRowsFirst`, `CleanRunsPrune`,
`ExpiredDeleted`); the tasks start on a complete schema and no migration loses
data (`UpgradeIsComplete`, `DataKept`, `MigrationsFit`); a signal or a panic ends
the process (`ShutdownEndsProcess`, `PanicEndsProcess`); the rows of a
transaction are what kaspad sent, resolved once accepted, and found by everybody
concerned (`ReadsBack`, `InputsStayResolved`, `AcceptedStored`,
`PartiesRecorded`, `SelfSendsIgnored`), and their writers do not stop each other
(`WritersNeverDeadlock`, `WritersFinish`); the health endpoint tells the truth
about the positions (`HealthTruthful`).

## Modules

| Module | Models | Checked by |
|---|---|---|
| `CheckpointedIndex` | abstract: an index that only grows and a checkpoint that moves only to blocks with a complete past | refinement in `pipeline_crash` and in a theorem |
| `BlockPipeline` | fetcher, both processors, checkpoint processor, their queues, restarts, signals | `MCBlockPipeline`, two runs |
| `BlockPipelineProofs`, `CheckpointSafetyProofs` | theorems about `BlockPipeline` | tlapm |
| `VirtualChain` | virtual chain fetcher and processor, the channel, kaspad's moving sink, restarts | `MCVirtualChain`, three runs |
| `ChainIndex` | abstract: an index that moves from one chain block to the next and arrives only with exact rows | refinement in `chain_crash` and in a theorem |
| `VirtualChainProofs` | theorems about `VirtualChain` | tlapm |
| `TipDistance` | the tip distance controller inside `process_virtual_chain` | one run |
| `TipDistanceProofs` | theorems about `TipDistance` | tlapm |
| `Backpressure` | composition: who waits for whom among four tasks | `MCBackpressure`, two runs |
| `Health` | the verdict of the health endpoint over the positions of `Backpressure` | `MCBackpressure`, run `backpressure` |
| `BackpressureProofs` | theorems about `Backpressure` and `Health` | tlapm |
| `Pruner` | the pruner against concurrent writers | `MCPruner`, two runs |
| `PrunerProofs` | theorems about `Pruner` | tlapm |
| `Schema` | the SQL scripts as statements over objects and what they hold | through `Lifecycle` |
| `Lifecycle` | composition: `main`, `create_schema`, signal handler, web server, the join of all tasks | `MCLifecycle`, one run |
| `LifecycleProofs` | theorems about `Schema` and `Lifecycle` | tlapm |
| `Mapper` | rows from RPC transactions, the self-send filters | through `TransactionRows` |
| `TransactionRows` | composition: both writers of `transactions`, the pruner, row locks, deadlock retry | `MCTransactionRows`, one run |
| `TransactionRowsProofs` | theorems about `TransactionRows` and `Mapper` | tlapm |

Definitions marked *Faulty* are plausible mistakes in the code they stand
beside; they are used by no specification. `PROJECT.json` ("mutants") pairs each
checked property with the one that breaks it.

### BlockPipeline

Variables keep the names of the code; a program counter per task (`fpc`, `bpc`,
`tpc`, `cpc`) names the await points between which another task can run. A block
is a name with its past (`Past`), blue score and transactions (those the mapper's
self-send filter and the flags let through). One action is the code between two
await points: a poll, a push, a pop, one INSERT statement of a batch (any
nonempty chunk of the rows left, since the chunks of `insert_txs` run
unordered), the return of all inserts, one announcement, one checkpoint event.
The table rows of a block are one element; `addresses_transactions` stands for
`scripts_transactions` too, of which exactly one is in use.

Clocks are choices: a batch that is not full may be committed or not (`commit`),
a candidate may be chosen when the save interval passed (`due`), a warning may be
due (`warn`; it is tested before the failure timeout and hides it, as in the
code). `CacheExpires` lets entries leave `block_cache` and `tx_id_cache` at any
time. `Restart` may come in every state: it stands for a crash, a forced exit
and an orderly one. `skipped` is a history variable: the past of the block a
start named explicitly (pruning point or `-i`), which the indexer never promises.

The code's `get_blocks` response comes in an order where a block follows its
past and starts with the low hash; this is an assumption about kaspad
(`GetBlocksResponses`, `NextInResponse`), which the code relies on as well.

### VirtualChain

The DAG is reduced to selected chains (`Chain[b]`: b and its selected ancestors)
and to what each chain block accepts. `VirtualChange` moves kaspad's sink to any
block not below it. A response goes from `start_hash` to a block of the sink's
chain that has the confirmations asked for (`Confirmed`: its blue score is at least
the tip distance below the sink's), not always the last such block, since kaspad cuts
its batches. The tip distance moves by one between responses; when it does is a
free choice here and the subject of `TipDistance`. `RemoveChainBlocks`, the three inserts and `AddChainBlocks` are single
statements; the three inserts of `accept_transactions` interleave. `acceptances`
respects the unique key (`ON CONFLICT DO NOTHING`); chain block marks have a NULL
id and are counted. `InsertUnresolved` is the concurrent transaction processor.

A start takes the saved `vcp_checkpoint`, a start point if there is none, or with
`-i` any block of `IgnoreCheckpoints` (`main.rs`, lines 108 to 138), and leaves the
tables as they are.

History variables: `pos` (end of the last response applied), `unsaved`, `lost` and
`skipped`. `lost` names the blocks of responses that were applied and not saved when
the process ended, and those of the old position's chain that `-i` jumped away
from; `skipped` those a start passed over on its way forward or without a saved
position. A block leaves `lost` when a response that names it is applied, `skipped`
when its position is saved. `AcceptancesExact`,
`VcpCheckpointSafe` and `MarksExact` exempt these blocks and no others: a start from
the older checkpoint repairs everything except what a reorganisation hides from it
(see Findings), and of `-i` the code itself says that it may lead to inconsistencies
(`main.rs`, line 110).

### TipDistance, Backpressure, Pruner

`TipDistance` takes one response per step; `since` counts responses since the
last decrease with a full window, for `DecreasesSpaced`.

`Backpressure` numbers blocks in fetch order, so a queue or a batch is the
distance between two positions and a wait compares DAA scores. The scores (`Daa`)
need not rise with the position: `get_blocks` returns a mergeset after its selected
parent, and a block may have a score up to `Spread` lower than one before it. What
the tasks publish and wait for is the highest score so far (`update_last_block`), not
that of the last block. It leaves out what never waits for another
task: database writes and the checkpoint queue. The two models of the same loops
fit together: `BlockPipeline` lets the wait end at any time, `Backpressure` shows
that it does end.

`Pruner` names rows by position; blue score and block time are that position.
`EffectiveRetention` is the `min` the code takes for joined tables, and `Expired`
is the DELETE's join. `WriteRow` and `SaveCheckpoint` are the concurrent indexer,
as loosely coupled as `BlockPipeline` shows: a checkpoint has the rows of the tables
in `WaitedFor` below it. With `rejected_transactions` these are all tables. Without
it `process_transactions` does not wait for the virtual chain processor (line 107),
and a checkpoint may go past rows that this one writes later, even after the pruner
deleted the block they are joined with. The history variable `late` names them.
`JoinedRowsFirst` and `CleanRunsPrune` exempt late rows, `ExpiredDeleted` those of
joined tables, which no DELETE can find; `YoungRowsKept` exempts none. A shutdown inside a run is a
`Restart`, since the process ends without clearing anything. With `BlocksTable`
FALSE the acceptance step joins with `transactions`, which is then taken to be
enabled. `StepPanics` is `to_std().unwrap()` on a clock that was set back during
a step: tokio ends the job alone, so the process goes on with `running` TRUE and
no run starts before a restart (and health keeps showing the last result).
`ExpiredDeleted` exempts exactly the behaviours that stay in that state.

`Health` adds no step: a request only reads. It evaluates `indexer_health` in
every state of `Backpressure`, with any virtual DAA score kaspad may report above
that of a block it knows and with full
or empty queue gauges and new or old saved checkpoints, since those may be stale:
the gauges are updated after a whole response was pushed (`fetch_blocks.rs`, line
113) and stay as they are while the fetcher is blocked. kaspad is taken to answer,
memory and pruner to be in order. `vcp_checkpoint` is reported even when the virtual
chain processor is disabled and then ages to DOWN.

### Schema and Lifecycle

A database is a set of objects, its `schema_version` and the facts its objects
hold (blocks, parents, inputs, subnetworks, ...). A script is the sequence of
statements that `split_statements` cuts; each statement needs, makes, drops,
renames or copies objects, and the server rejects one whose needs are missing or
whose makes exist. Statements that can neither fail nor matter to a later one
(indexes, statistics, column types) are left out; so is the scanner of
`split_statements` itself, of which only the result on these scripts counts. `Version1` is
what the migrations require of schema v1; the other versions follow from it.
`NoRows` names the facts of which nothing was stored, since tables can be disabled: a
statement that needs rows (`v20_to_v21.sql`, line 69) then fails, and
`v22_to_v23.sql` drops the transactions of blocks that are not stored, through its
join (`Joined`). Of the two tables of parties the primary keys are kept: in an
upgraded database the key of `scripts_transactions` is the one `v7_to_v8.sql` gave
it, without `block_time`, so a script and a transaction have one row there and one
per block time in a database made by `up.sql`. The key that `addresses_transactions` had in
version 1 is not in the repository. Left out as well is that `DROP TYPE` in
`down.sql` is refused while a `transactions_new` or `transactions_old` of an
interrupted migration uses the type; no property speaks of what `-c` does then.

`Lifecycle` runs `main`: drop, select, the ladder of migrations, one action per
statement, then `start_processing` with its wait for kaspad and the tasks. A crash
may come in every state and the session's temporary table goes with it. A task is
reduced to what shutdown needs: running, waiting for room in `checkpoint_queue`,
told to stop, ended, panicked. The web server hears the broadcast only if it
subscribed before it was sent.

### Mapper and TransactionRows

`Mapper` translates `map_transaction` and `map_optional_transaction` column by
column, with the conversions as they are: version, indexes, operation counts and
`authorizing_input` wrap at 16 bits and the mass at 32 (`AsSigned`), zeros and empty
values become NULL, subnetwork ids lose their trailing zeros. Half of the 32-bit
range is the constant `I32Half`, which is smaller in the run because TLC's own integers
have 32 bits. One record stands for both
RPC structures; only the acceptance phase reads its utxo entries.

`TransactionRows` has one batch per writer. A transaction that comes again in it is
dropped by `tx_id_cache`, which is taken to keep its ids for one batch (its lifetime
and capacity are left out here; `BlockPipeline` lets it forget). The rows are
sorted (`Sorted`), cut into chunks and sent by `buffer_unordered`; a chunk is a statement that locks its rows in order, and the
pruner's DELETE one that finds them in any order. DO NOTHING passes over a row that
is there, DO UPDATE locks it and sets `inputs`. A cycle of waits makes one of its
statements the victim of `retry_on_deadlock`. When the last attempt fails a writer
panics, which ends the process; statements the server already finished may or may not be
committed. The next process sends both batches again, since the saved positions
are behind them (`CheckpointSafe`, `VcpCheckpointSafe`). The rows of
`addresses_transactions` or `scripts_transactions` are written by one action per
batch; their locks are not modelled (every writer sorts them, and a deadlock with
the pruner meets the same retry), and neither is their pruning
(`prune_addresses_transactions`), which is a step of `Pruner`. A delete that waited for a row which changed
meanwhile deletes it without looking at its age again, which never changes; the code's
`ctid IN` may also pass over such a row, which the next batch or run then finds.

What the model shows beside its properties: a row keeps the block time and hash of
its first writer; an accepted row that the pruner deleted may come back without
resolved inputs by a late insert, until the next prune (it is expired).

## Runs

| Run | Shows | Bounds |
|---|---|---|
| `pipeline_crash` | `TypeOK`, `CheckpointSafe`, `LowHashCovered`, `ParentRowsHaveBlock`, refinement of `CheckpointedIndex` | two parallel blocks and one that merges them, two of which share a transaction; all tables, batches of 2, queues of 1, two start points, one restart at any state |
| `pipeline_live` | `ResponseHandled`, `ShutdownCompletes` under fairness | block batches of 2, a signal at any state |
| `chain_crash` | `TypeOK`, `AcceptancesExact`, `VcpCheckpointSafe`, `AcceptedResolved`, refinement of `ChainIndex` | two branches 1-2-4 and 1-3 accepting the same two transactions, all tables, two restarts, `-i` at block 3, failing saves; distance 0, which allows every end a larger one does |
| `chain_live` | `MarksExact`; `ShutdownCompletes`, `ChainFollowed` under fairness | the same branches, acceptance disabled, tip distance 0 or 1, two restarts, `-i`, signals |
| `chain_marks_crash` | violation of `MarksAreChainBlocks` | the same, one crash |
| `tip_distance` | `NoPendingIncrease`, `DecreasesSpaced`, `ComesCloser` | window 6, distances 0 to 6 |
| `backpressure` | `TypeOK`, `NoCircularWait`, `HealthTruthful`; `FetcherResumes` under fairness | 7 blocks whose DAA scores repeat and fall by one (`Spread` 1), queues of 3, batches of 2, lag 2, lead 3; health lags 3, 4 and 5 at one block per second |
| `backpressure_no_vcp` | violation of `FetcherResumes` | virtual chain processor disabled alone |
| `prune` | `TypeOK`, `YoungRowsKept`, `JoinedRowsFirst`, `CleanRunsPrune`; `ExpiredDeleted` under fairness | 2 positions, retentions 0 (blocks, transactions), 1 and none, `rejected_transactions` disabled, one restart, one failing step, one panic |
| `prune_after_error` | violation of `SuccessMeansPruned` | 3 positions, retentions 1 (blocks), 2 and none, one failing step |
| `lifecycle` | `UpgradeIsComplete`, `DataKept`, `MigrationsFit`; `ShutdownEndsProcess`, `PanicEndsProcess` under fairness | an empty database, one of schema v1 with rows in every table, one of v24; all combinations of `-c` and `-u`; two starts; one announcing task |
| `rows` | `TypeOK`, `WritersNeverDeadlock`, `ReadsBack`, `SelfSendsIgnored`, `AcceptedStored`, `PartiesRecorded`, `InputsStayResolved`; `WritersFinish` under fairness | `MCTransactionRows`: transactions chosen for their edges (a coinbase, a self-send, values that wrap, zeros), one of them in two blocks, chunks of 2 one at a time, 2 attempts, one crash, six command lines |

Why these bounds are enough: a queue of one entry is full after one push, a batch
of two can be half full or full, two parallel blocks give an order that is not
total, and a shared transaction makes the id cache matter. A checkpoint
needs one candidate and one older event to go wrong. One restart separates two
lives; the virtual chain needs two (a crash before a save and one after). The
theorems below drop the bounds from all safety properties; for the pipeline they
also cover caches that lose
entries early, which the runs leave out (`CacheExpires` is FALSE in both). Starting at schema v1
a behaviour meets every migration, with a crash before each statement and a second
start after it. In `rows` the expired transactions are also those of both batches, so the
three statements can close a cycle, and two attempts give a victim that is
retried and one that gives up. Larger instances were run once: `lifecycle` with three
starts from v1, `lifecycle` without transactions and without blocks (`NoRows`), and
`rows` with the code's three attempts. Deadlock is not checked
in any run: every model runs out of blocks, restarts or signals and then rightly
rests; what must not rest is stated as a liveness property.

Fairness is weak fairness of each task as a whole: each is a loop that tokio keeps
polling and whose sleeps end, statements return or panic (a panic is a restart).
Nothing is assumed of signals, restarts, reorganisations, cron errors or new
blocks. In `pipeline_live` the end of the wait for the virtual chain processor is
fair, which `backpressure` establishes, and `checkpoint_queue` has room for all
announcements and never fills; what happens when it is full is in `lifecycle`, as an
exemption. `ChainFollowed` speaks of the last block with the confirmations that the
distance asks for, once sink and distance rest: the index stays below the sink itself. `ExpiredDeleted`
assumes that the job keeps firing, and promises nothing once a step failed.
`lifecycle` assumes that the web server, once told, gets rid of its open requests, and
nothing of kaspad, which may never answer. In `rows` the server executes what it is sent
and resolves deadlocks, and the process is restarted; the pruner's time need
never come.

Exemptions, each of which is what the code does:

* `UpgradeIsComplete` exempts an interrupted `up.sql` or `down.sql`: the first
  sets `schema_version` before it makes the tables, the second drops `vars` last,
  so either can leave a version 23 without its tables, which the next start takes
  for up to date (it then fails on the first statement of a task).
* `MigrationsFit` exempts `-c` on a schema before version 20: `DROP TYPE` is
  refused where a table of that name exists. An interrupted migration is refused
  as well when it is run again and an object is there already. That includes
  `v20_to_v21.sql`, although it keeps a position of its own to resume from: its
  first statement drops a column that is gone. `UpgradeIsComplete` and `DataKept`
  say that this is safe, not that it is convenient. And it exempts `v20_to_v21.sql`
  where no transaction is stored (Finding 5).
* `UpgradeIsComplete` and `DataKept` exempt the transactions of blocks that are not
  stored, which `v22_to_v23.sql` does not copy.
* `ShutdownEndsProcess` exempts a web server that subscribes after the broadcast,
  and an announcing task that finds `checkpoint_queue` full after the checkpoint
  processor ended (`process_blocks.rs`, line 83, and `process_transactions.rs`,
  line 162, do not look at the flag). Both need the second signal. With the
  capacity of 30000 the latter needs that many events under way.

## Theorems

All are checked by tlapm for every value of the constants that satisfies the
modules' assumptions: any DAG whose past is a strict partial order, any set of
flags, any capacities and batch sizes, any number of restarts.

* `TypeCorrect`: `TypeOK` of `BlockPipeline`. Includes that no queue and no batch
  outgrows its bound.
* `CheckpointIsSafe`, `LowHashIsCovered`, `ParentRowsFollowBlocks`: from the
  inductive invariant `IndInv`. `CheckpointSafe` alone is not inductive: a save
  says nothing about why the rows are there. The strengthening says that what is
  below a block is always ahead of it: for each branch, the past of every queued
  block is in the tables, in the batch or earlier in the queue (`Covered`); a batch
  is in the tables or in rows still to write, and fully written once it is
  announced (`BlockBatchInv`, `TxBatchInv`; the id cache is part of it, since a
  cached id stands for a row that may still be in the batch); the rest of a
  response and `low_hash` are covered by what was handed over (`FetcherInv`); and
  a candidate, a queued event and `txs_processed` are each complete in their
  branch (`CheckpointInv`; a pending candidate has `cp_ok_txs` FALSE, which is why
  its reset matters).
* `PipelineImplementsIndex`: with `stored` mapped to the blocks all of whose rows
  are in the enabled tables, every step of the pipeline is a `Store`, a `Save`, a
  `StartAt` or a stutter of `CheckpointedIndex`.
* `PositionsTypeCorrect`, `NoCircularWaitHolds`: for `Backpressure`, from
  `MarginAssumption` (a batch of blocks fits the queue, the lead of the virtual
  chain is at least the lag it is asked for and the `Spread` of the scores; in the
  code 800 and 1000 times `batch_scale`, and 300 and 3 seconds of blocks, so a block
  may be merged up to 297 seconds late). If the fetcher is blocked
  with both waits closed, the block processor committed a block at least as high
  as the batch that waits, so the virtual chain processor stopped far enough
  ahead of that batch. `VcpInv` adds that what is not on its way was applied.
* `HealthIsTruthful`: for scores in any order within `Spread`. `TypeOK` says that the
  block a task shows is not later than its position, so a block that it has still to do
  has a score at most `Spread` below the one it shows, which is the slack of the
  verdict. `LastInv` (the block shown has the highest score so far) is needed for the
  waits above, not here. The other point of the proof is the division: a whole number
  of seconds is below a limit exactly when the difference of DAA scores is below the
  limit times the block rate, so rounding never turns a late block into a healthy one.
* `ChainTypeCorrect`, `AcceptancesAreExact`, `VcpCheckpointIsSafe`,
  `AcceptedAreResolved`, `MarksAreExact`: for any forest of chains
  (`ChainAssumption`: the chain of a block is ordered and holds the chains of its
  members) in which no transaction is accepted twice on one chain
  (`AcceptsAssumption`, a consensus rule). The tables are exact only between two
  responses, so the invariant speaks of the response at hand: those under way form
  one sequence of changes (`LinkInv`), the blocks that leave and enter are what the
  statements have still to do (`WorkInv`, `RowsInv`, `AcceptedInv`, `StoredInv`, or
  `MarksInv` when acceptance is disabled), and what differs between the saved
  position and `pos` is in `unsaved` (`SavedInv`), which is why a restart loses
  nothing else. Starts with `-i` at any block of any chain are among the steps: what
  the tables then lack or have too much is in `skipped` and `lost`.
* `ChainImplementsIndex`: with transaction acceptance on, a response taken from the
  channel is a `Leave` of `ChainIndex`, the deletion of removed blocks a `Delete`,
  each chunk of inserted acceptances an `Insert`, the save, whether it succeeds or
  not, an `Arrive`, a restart a `Restart`, and every other step a stutter. `Arrive`
  demands the exact table in its guard, so the theorem needs the invariant above,
  with two facts about a response at hand: it leads to a block that is new to the
  chain, and that block is among those that enter (in `LeadsFrom` and `WorkInv`).
* `DistanceTypeCorrect`, `NoIncreasePending`, `DecreasesAreSpaced`: for every window
  and maximal distance. `DecreasesSpaced` needs `MarkerInv`: the entry that the last
  decrease put in front of the window is still in it, pushed back once per response.
* `PrunerTypeCorrect`, `YoungRowsAreKept`, `JoinedRowsGoFirst`, `CleanRunsDoPrune`:
  for every retention and any number of errors, panics and restarts, with and without
  `rejected_transactions`. With it no row is late (`NoRowIsLate`), so the exemption of
  late rows is empty. `PrunedInv`
  follows a run step by step; `JoinedInv` is what lets a DELETE that joins find its
  rows. `CleanRunsDoPrune` has a hypothesis: table `blocks` is enabled, or
  `block_parent` has no retention. Without it the statement is false (Finding 4).
* `RowsTypeCorrect`, `WritersDoNotDeadlock`, `ResolvedInputsStay`,
  `SelfSendsAreIgnored`, `AcceptedAreStored`, `PartiesAreRecorded`, `RowsReadBack`:
  for any transactions, batches, command lines, chunk size, concurrency and number
  of attempts. A row is always exactly what one of the two mappings makes of its
  transaction (`RowInv`: the upsert that replaces only `inputs` turns the one into
  the other), so the properties of rows are properties of the mappings. A writer
  locks in ascending order and holds only what is below the rest (`TodoInv`,
  `LockInv`): along a cycle of writers the awaited ids would grow for ever. A
  committed chunk has resolved its rows, or the pruner deleted them since
  (`UpsertInv`). `RowsReadBack` rests on lemmas about the conversions: `as i16` and
  `as i32` are undone by reading without the sign, a compressed subnetwork id is
  completed by zeros (`Padded`).
* `SchemaIsComplete`, `NothingIsLost`, `ScriptsFitTogether`: for any number of starts,
  crashes and refused statements, from an empty database, one of schema v1 or one
  of a version the indexer does not know, and for any set of facts without rows
  (`NoRows`). None of the three is inductive: they say
  nothing about a database half way through a script. `Inv` does, in four parts.
  `ControlInv` ties `schema_version` to the place in the script (`VersionAt`: version
  20 is set by the first statement of `v10_to_v20.sql`, the others by the last).
  `ObjectsInv` and `FactsInv` hold however often scripts were cut short and run
  again: what a version guarantees (`Objects`, `FactsOf`) and what the statements
  before the current one have added to it (`ObjectsIn`, `FactsIn`). They show why the
  scripts are safe to interrupt: where a fact moves, its copy is made before
  its source is dropped, a repeated statement that would do harm is refused, and a
  refused script is not followed by the next. `FitInv` holds only while nothing was
  interrupted: at each point, what the statements still to come need is there and what they make is
  not (`Fit`). The proof of a step has one lemma per script (`v1_to_v2_Step` to
  `v22_to_v23_Step`, `up_Step`, `down_Step`) with one case per statement, each resting
  on what that kind of statement does (`CreateEffect`, `RenameTableEffect`, ...), and
  one more per script that it is not refused (`..._Fits`).

The assumptions of `TransactionRows` are about its inputs: ids are numbers, values
that are stored in 16 or 32 bits fit into them and positions into 15 bits (kaspad
limits inputs, outputs and mass; `TransactionAssumption`), NULL is none of the values and the
markers for a missing row and a free lock are no rows and no statements
(`MarkerAssumption`, `NobodyAssumption`). TLC evaluates all assumptions in the runs.

Where a proof needs an induction over numbers (the cycle of waits, the least and
greatest member of a set) it takes a least counterexample, which exists because `<`
on the naturals is well-founded (`LeastNatural`).

Every inductive invariant was checked with TLC before it was proved. The proofs
also found mistakes of the models: two `CASE` expressions with overlapping arms
(`Schema`, `TransactionRows`), whose value TLA+ leaves open, and a batch without
repeated transactions, which now has one. The invariant of `Lifecycle` was checked
with four starts.

Every invariant and every safety action property that a run checks is a theorem as
well. Only model-checked: liveness (fairness and ENABLED are out of the prover's
reach).

## Findings

1. `--disable=virtual_chain_processing` stalls the indexer, unless
   `rejected_transactions` is disabled as well: `process_transactions` waits for a
   position that nobody publishes (`backpressure_no_vcp`).
   `--disable=transaction_processing` ends in the same place by another way, seen
   while modelling and left without a run of its own: `handle_blocks` pushes to
   `txs_queue` whatever the flags say (`fetch_blocks.rs`, line 189), its only
   reader is not spawned (`main.rs`, line 215), and after one queue capacity of
   blocks the fetcher waits forever.
2. A crash between `add_chain_blocks` and `save_vcp_checkpoint`, followed by a
   reorganisation, leaves marks on blocks that are not chain blocks, for good
   (`chain_marks_crash`). The same order lets acceptance rows of such blocks
   survive, the exemption in `AcceptancesExact`.
3. A failed pruning step leaves rows of `block_parent` or
   `transactions_acceptances` whose block is deleted by a later step of the same
   run; no run can find them again, and later runs report success
   (`prune_after_error`).

4. With table `blocks` disabled and a retention that covers `block_parent` (the
   global `--retention` does, `cli_args.rs`, lines 201 to 205), the step of
   `block_parent` joins with an empty table (`delete.rs`, line 13), deletes nothing
   and reports success, in every run. The acceptance step falls back to
   `transactions` in this case, `block_parent` has no such way. Found by the proof of
   `CleanRunsDoPrune`, which needs the hypothesis that excludes it, and seen with TLC;
   the run `prune` has table `blocks` enabled.
5. A database whose table `transactions` has no row, as with
   `--disable=transactions_table`, cannot be upgraded past version 20. `MIN(block_time)`
   is NULL, and the first turn of the loop in `v20_to_v21.sql` (line 69) saves it as a
   position into `vars.value`, which is NOT NULL (`up.sql`, line 4): the CALL fails,
   and each later start with `-u` fails at the column that is already gone, although
   `client.rs`, line 172, says "Set flag '-u' to upgrade". `MigrationsFit` exempts this
   script in such a database; seen with TLC with the facts of transactions in `NoRows`.

The exemptions listed under Runs are the other places where the code does less than
one might expect.

## Not modelled, and the plan

Not modelled:

* `map_block` and `map_block_parents`: header fields copied under one flag each,
  with no second writer to disagree with;
* the kaspad connection pool: network only, a failed poll changes nothing;
* the scanner of `split_statements`, routing and request logging of the web
  server, the metrics document with its database statistics, log messages,
  parsing of the command line;
* that checkpoints are saved again and again: it depends on the save interval and
  the event rate, which `BlockPipeline` leaves open, and is not guaranteed by the
  code (`txs_processed` is emptied by every event that finds a candidate).

Left of the plan, in this order:

1. Safety of shutdown in `Lifecycle` (which task may still run when) as theorems.
2. An `Indexer` module that composes pipeline, virtual chain and pruner over one
   set of tables.
