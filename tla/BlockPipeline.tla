--------------------------- MODULE BlockPipeline ---------------------------
(***************************************************************************)
(* The block ingestion pipeline of simply-kaspa-indexer:                   *)
(*                                                                         *)
(*                 blocks_queue          checkpoint_queue                  *)
(*              /--------------> process_blocks -------\                   *)
(*   fetch_blocks                                       process_checkpoints*)
(*              \--------------> process_transactions -/                   *)
(*                 txs_queue                                               *)
(*                                                                         *)
(* Four tokio tasks share three bounded crossbeam ArrayQueues.  The fetcher *)
(* polls kaspad from low_hash and hands every block to both queues, each   *)
(* processor collects a batch, writes it to its tables in several          *)
(* autocommitted statements and then announces every block of the batch,   *)
(* and the checkpoint processor persists a block_checkpoint once both      *)
(* processors announced the same block.  A restart resumes there, so       *)
(* whatever lies below the checkpoint is never asked for again.            *)
(*                                                                         *)
(* What is abstracted: a block is a name with its past, a blue score and   *)
(* the transactions the filters let through; clocks (the commit intervals, *)
(* the save and warn intervals, the cache TTLs) are nondeterministic       *)
(* choices; a database row is the block or the transaction it belongs to,  *)
(* and a multi-statement insert is any sequence of chunks.  The wait for   *)
(* the virtual chain processor is a step that may come at any time here;   *)
(* it is modelled in module Backpressure.                                  *)
(***************************************************************************)
EXTENDS Naturals, Sequences, FiniteSets

CONSTANTS
    Blocks,          \* the DAG's blocks
    Txs,             \* transaction ids
    Past,            \* Past[b]: the blocks b reaches through its parents
    TxsOf,           \* TxsOf[b]: b's transactions the filters let through
    BlueScore,       \* BlueScore[b]
    NoBlock,         \* Option::None
    StartPoints,     \* pruning points, virtual parents and hashes given to -i
    Disable,         \* the --disable flags in force
    QueueCap,        \* capacity of blocks_queue and of txs_queue
    CheckpointCap,   \* capacity of checkpoint_queue
    BlockBatch,      \* batch size of process_blocks
    TxBatch,         \* batch size of process_transactions
    FailedTimeout,   \* CHECKPOINT_FAILED_TIMEOUT in blue score
    CacheExpires,    \* may a cache entry outlive its TTL?
    MaxRestarts,     \* bound: restarts in a behaviour
    Signals          \* may SIGINT or SIGTERM arrive?

CliDisable ==
    {"BlocksTable", "BlockParentTable", "TransactionsTable",
     "AddressesTransactionsTable", "RejectedTransactions",
     "TransactionProcessing"}

\* The past of a block is a strict partial order.
ASSUME PastAssumption ==
    /\ Past \in [Blocks -> SUBSET Blocks]
    /\ \A b \in Blocks : b \notin Past[b]
    /\ \A b \in Blocks : \A a \in Past[b] : Past[a] \subseteq Past[b]

ASSUME DataAssumption ==
    /\ TxsOf \in [Blocks -> SUBSET Txs]
    /\ BlueScore \in [Blocks -> Nat]
    /\ NoBlock \notin Blocks
    /\ StartPoints \subseteq Blocks

ASSUME ConfigAssumption ==
    /\ Disable \subseteq CliDisable
    /\ QueueCap \in Nat \ {0}
    /\ CheckpointCap \in Nat \ {0}
    /\ BlockBatch \in Nat \ {0}
    /\ TxBatch \in Nat \ {0}
    /\ FailedTimeout \in Nat
    /\ CacheExpires \in BOOLEAN
    /\ MaxRestarts \in Nat
    /\ Signals \in BOOLEAN

VARIABLES
    (* KaspaBlocksFetcher *)
    fpc,                \* "poll" | "blk" | "tx" | "done"
    low_hash,           \* where the next get_blocks starts
    todo,               \* the blocks of the response not yet handled
    block_hash,         \* the block whose transactions come next
    block_cache,        \* blocks inserted in block_cache since the start
    (* the shared queues *)
    blocks_queue,
    txs_queue,
    checkpoint_queue,   \* <<[origin |-> ..., hash |-> ...], ...>>
    (* process_blocks *)
    bpc,                \* "pop" | "insert" | "push" | "done"
    bcheckpoints,       \* checkpoint_blocks: the blocks of the batch, in order
    brows,              \* rows of the batch not yet in table blocks
    prows,              \* rows of the batch not yet in table block_parent
    (* process_transactions *)
    tpc,                \* "pop" | "wait" | "insert" | "push" | "done"
    tcheckpoints,       \* checkpoint_blocks
    trows,              \* rows not yet in table transactions
    arows,              \* rows not yet in table addresses_transactions
    tx_id_cache,        \* ids inserted in tx_id_cache since the start
    (* process_checkpoints *)
    cpc,                \* "run" | "done"
    candidate,          \* checkpoint_candidate
    cp_ok_txs,
    txs_processed,
    last_block_blue,
    last_tx_blue,
    (* PostgreSQL *)
    blocks,
    block_parent,
    transactions,
    addresses_transactions,
    block_checkpoint,   \* the row of table vars
    (* the process *)
    shutdown,
    skipped,            \* history: what starting at a named block gave up
    restarts

fetcherVars == <<fpc, low_hash, todo, block_hash, block_cache>>
blockVars   == <<bpc, bcheckpoints, brows, prows>>
txVars      == <<tpc, tcheckpoints, trows, arows, tx_id_cache>>
cpVars      == <<cpc, candidate, cp_ok_txs, txs_processed, last_block_blue,
                 last_tx_blue>>
blockTables == <<blocks, block_parent>>
txTables    == <<transactions, addresses_transactions>>
processVars == <<shutdown, skipped, restarts>>

vars == <<fetcherVars, blocks_queue, txs_queue, checkpoint_queue, blockVars,
          txVars, cpVars, blockTables, txTables, block_checkpoint,
          processVars>>

On(flag) == flag \notin Disable

\* The elements of a sequence.
Elems(s) == {s[i] : i \in 1..Len(s)}

-----------------------------------------------------------------------------
(***************************************************************************)
(* The checkpoint events the processors exchange.                          *)
(***************************************************************************)
Event == [origin : {"Blocks", "Transactions"}, hash : Blocks]

(***************************************************************************)
(* Process start.  The first start finds no saved checkpoint and takes the *)
(* pruning point; -i names any other block.  Either way the past of the    *)
(* start block is given up.                                                *)
(***************************************************************************)
Init ==
    /\ fpc = "poll"
    /\ low_hash \in StartPoints
    /\ todo = {}
    /\ block_hash = low_hash
    /\ block_cache = {}
    /\ blocks_queue = <<>>
    /\ txs_queue = <<>>
    /\ checkpoint_queue = <<>>
    /\ bpc = "pop" /\ bcheckpoints = <<>> /\ brows = {} /\ prows = {}
    /\ tpc = IF On("TransactionProcessing") THEN "pop" ELSE "done"
    /\ tcheckpoints = <<>> /\ trows = {} /\ arows = {} /\ tx_id_cache = {}
    /\ cpc = "run" /\ candidate = NoBlock /\ cp_ok_txs = FALSE
    /\ txs_processed = {} /\ last_block_blue = 0 /\ last_tx_blue = 0
    /\ blocks = {} /\ block_parent = {}
    /\ transactions = {} /\ addresses_transactions = {}
    /\ block_checkpoint = NoBlock
    /\ shutdown = FALSE
    /\ skipped = Past[low_hash]
    /\ restarts = 0

\* Everything the process holds in memory, as start_processing builds it.
Boot(start) ==
    /\ fpc' = "poll"
    /\ low_hash' = start
    /\ todo' = {}
    /\ block_hash' = start
    /\ block_cache' = {}
    /\ blocks_queue' = <<>>
    /\ txs_queue' = <<>>
    /\ checkpoint_queue' = <<>>
    /\ bpc' = "pop" /\ bcheckpoints' = <<>> /\ brows' = {} /\ prows' = {}
    /\ tpc' = IF On("TransactionProcessing") THEN "pop" ELSE "done"
    /\ tcheckpoints' = <<>> /\ trows' = {} /\ arows' = {}
    /\ tx_id_cache' = {}
    /\ cpc' = "run" /\ candidate' = NoBlock /\ cp_ok_txs' = FALSE
    /\ txs_processed' = {} /\ last_block_blue' = 0 /\ last_tx_blue' = 0
    /\ shutdown' = FALSE

\* A crash at any moment (a panic of one task ends the process) or an exit,
\* followed by a start from the saved block_checkpoint.
RestartFromCheckpoint ==
    /\ restarts < MaxRestarts
    /\ block_checkpoint # NoBlock
    /\ Boot(block_checkpoint)
    /\ restarts' = restarts + 1
    /\ UNCHANGED <<blockTables, txTables, block_checkpoint, skipped>>

\* The same, from the pruning point because nothing was saved, or from the
\* block that -i names: its past is the operator's to answer for.
RestartFromStartPoint(start) ==
    /\ restarts < MaxRestarts
    /\ Boot(start)
    /\ skipped' = skipped \cup Past[start]
    /\ restarts' = restarts + 1
    /\ UNCHANGED <<blockTables, txTables, block_checkpoint>>

\* The first SIGINT or SIGTERM.
Shutdown ==
    /\ Signals
    /\ ~shutdown
    /\ shutdown' = TRUE
    /\ UNCHANGED <<fetcherVars, blocks_queue, txs_queue, checkpoint_queue,
                   blockVars, txVars, cpVars, blockTables, txTables,
                   block_checkpoint, skipped, restarts>>

-----------------------------------------------------------------------------
(***************************************************************************)
(* KaspaBlocksFetcher                                                      *)
(***************************************************************************)

\* What kaspad may answer to get_blocks(low): blocks outside low's past, with
\* everything between them and low's past; how many there are depends on what
\* the node knows and on its response limit.  low itself comes first.
GetBlocksResponses(low) ==
    {S \in SUBSET (Blocks \ (Past[low] \cup {low})) :
        \A b \in S : Past[b] \subseteq S \cup Past[low] \cup {low}}

\* One poll that returned more than the low block.  A failed or empty poll
\* sleeps and changes nothing.
GetBlocks ==
    /\ fpc = "poll"
    /\ ~shutdown
    /\ \E S \in GetBlocksResponses(low_hash) \ {{}} :
          todo' = S \cup {low_hash}
    /\ fpc' = "blk"
    /\ UNCHANGED <<low_hash, block_hash, block_cache, blocks_queue, txs_queue,
                   checkpoint_queue, blockVars, txVars, cpVars, blockTables,
                   txTables, block_checkpoint, processVars>>

\* The response lists low_hash first and a block after the blocks of its past.
NextInResponse(b) ==
    /\ b \in todo
    /\ low_hash \in todo => b = low_hash
    /\ Past[b] \cap todo = {}

\* handle_blocks is through with b; after the last block low_hash moves.
BlockHandled(b) ==
    /\ todo' = todo \ {b}
    /\ block_hash' = b
    /\ IF todo' = {} THEN fpc' = "poll" /\ low_hash' = b
                     ELSE fpc' = "blk" /\ UNCHANGED low_hash

\* "Ignoring known block hash"
SkipKnownBlock(b) ==
    /\ fpc = "blk"
    /\ ~shutdown
    /\ NextInResponse(b)
    /\ b \in block_cache
    /\ BlockHandled(b)
    /\ UNCHANGED <<block_cache, blocks_queue, txs_queue, checkpoint_queue,
                   blockVars, txVars, cpVars, blockTables, txTables,
                   block_checkpoint, processVars>>

\* Faulty: force_push, which overwrites the oldest entry of a full queue.
PushBlockForced(b) ==
    /\ fpc = "blk"
    /\ ~shutdown
    /\ NextInResponse(b)
    /\ b \in block_cache => CacheExpires
    /\ blocks_queue' = Append(IF Len(blocks_queue) < QueueCap THEN blocks_queue
                               ELSE Tail(blocks_queue), b)
    /\ block_hash' = b
    /\ fpc' = "tx"
    /\ UNCHANGED <<low_hash, todo, block_cache, txs_queue, checkpoint_queue,
                   blockVars, txVars, cpVars, blockTables, txTables,
                   block_checkpoint, processVars>>

\* blocks_queue.push succeeds; a push to a full queue sleeps and retries.
PushBlock(b) ==
    /\ fpc = "blk"
    /\ ~shutdown
    /\ NextInResponse(b)
    /\ b \in block_cache => CacheExpires
    /\ Len(blocks_queue) < QueueCap
    /\ blocks_queue' = Append(blocks_queue, b)
    /\ block_hash' = b
    /\ fpc' = "tx"
    /\ UNCHANGED <<low_hash, todo, block_cache, txs_queue, checkpoint_queue,
                   blockVars, txVars, cpVars, blockTables, txTables,
                   block_checkpoint, processVars>>

\* txs_queue.push succeeds and the block enters block_cache.
PushTransactions ==
    /\ fpc = "tx"
    /\ ~shutdown
    /\ Len(txs_queue) < QueueCap
    /\ txs_queue' = Append(txs_queue, block_hash)
    /\ block_cache' = block_cache \cup {block_hash}
    /\ BlockHandled(block_hash)
    /\ UNCHANGED <<blocks_queue, checkpoint_queue, blockVars, txVars, cpVars,
                   blockTables, txTables, block_checkpoint, processVars>>

\* Faulty: the push loops do not look at the shutdown flag.
FetcherStopBetweenPolls ==
    /\ shutdown
    /\ fpc = "poll"
    /\ fpc' = "done"
    /\ todo' = {}
    /\ UNCHANGED <<low_hash, block_hash, block_cache, blocks_queue, txs_queue,
                   checkpoint_queue, blockVars, txVars, cpVars, blockTables,
                   txTables, block_checkpoint, processVars>>

\* After a shutdown the rest of the response is dropped and the loop ends.
FetcherStop ==
    /\ shutdown
    /\ fpc # "done"
    /\ fpc' = "done"
    /\ todo' = {}
    /\ UNCHANGED <<low_hash, block_hash, block_cache, blocks_queue, txs_queue,
                   checkpoint_queue, blockVars, txVars, cpVars, blockTables,
                   txTables, block_checkpoint, processVars>>

Fetcher ==
    \/ GetBlocks
    \/ \E b \in Blocks : SkipKnownBlock(b) \/ PushBlock(b)
    \/ PushTransactions
    \/ FetcherStop

-----------------------------------------------------------------------------
(***************************************************************************)
(* process_blocks                                                          *)
(***************************************************************************)

\* Faulty: the batch is committed one block late.
PopBlockLate(commit) ==
    /\ bpc = "pop"
    /\ ~shutdown
    /\ blocks_queue # <<>>
    /\ blocks_queue' = Tail(blocks_queue)
    /\ bcheckpoints' = Append(bcheckpoints, Head(blocks_queue))
    /\ brows' = IF On("BlocksTable") THEN brows \cup {Head(blocks_queue)}
                                     ELSE brows
    /\ prows' = IF On("BlockParentTable") THEN prows \cup {Head(blocks_queue)}
                                          ELSE prows
    /\ Len(bcheckpoints') > BlockBatch => commit
    /\ bpc' = IF commit THEN "insert" ELSE "pop"
    /\ UNCHANGED <<fetcherVars, txs_queue, checkpoint_queue, txVars, cpVars,
                   blockTables, txTables, block_checkpoint, processVars>>

\* Faulty: waits until the queue holds a whole batch.
PopBlockFullBatch(commit) ==
    /\ bpc = "pop"
    /\ ~shutdown
    /\ Len(blocks_queue) >= BlockBatch
    /\ blocks_queue' = Tail(blocks_queue)
    /\ bcheckpoints' = Append(bcheckpoints, Head(blocks_queue))
    /\ brows' = IF On("BlocksTable") THEN brows \cup {Head(blocks_queue)}
                                     ELSE brows
    /\ prows' = IF On("BlockParentTable") THEN prows \cup {Head(blocks_queue)}
                                          ELSE prows
    /\ Len(bcheckpoints') >= BlockBatch => commit
    /\ bpc' = IF commit THEN "insert" ELSE "pop"
    /\ UNCHANGED <<fetcherVars, txs_queue, checkpoint_queue, txVars, cpVars,
                   blockTables, txTables, block_checkpoint, processVars>>

\* Pop one block.  The batch is committed when it is full or when the last
\* commit is old, and only then: a batch is never committed without a pop.
PopBlock(commit) ==
    /\ bpc = "pop"
    /\ ~shutdown
    /\ blocks_queue # <<>>
    /\ blocks_queue' = Tail(blocks_queue)
    /\ bcheckpoints' = Append(bcheckpoints, Head(blocks_queue))
    /\ brows' = IF On("BlocksTable") THEN brows \cup {Head(blocks_queue)}
                                     ELSE brows
    /\ prows' = IF On("BlockParentTable") THEN prows \cup {Head(blocks_queue)}
                                          ELSE prows
    /\ Len(bcheckpoints') >= BlockBatch => commit
    /\ bpc' = IF commit THEN "insert" ELSE "pop"
    /\ UNCHANGED <<fetcherVars, txs_queue, checkpoint_queue, txVars, cpVars,
                   blockTables, txTables, block_checkpoint, processVars>>

\* One statement of insert_blocks.
InsertBlocks ==
    /\ bpc = "insert"
    /\ \E chunk \in SUBSET brows \ {{}} :
          /\ blocks' = blocks \cup chunk
          /\ brows' = brows \ chunk
    /\ UNCHANGED <<fetcherVars, blocks_queue, txs_queue, checkpoint_queue, bpc,
                   bcheckpoints, prows, txVars, cpVars, block_parent, txTables,
                   block_checkpoint, processVars>>

\* Faulty: does not wait for insert_blocks.
InsertBlockParentsEarly ==
    /\ bpc = "insert"
    /\ \E chunk \in SUBSET prows \ {{}} :
          /\ block_parent' = block_parent \cup chunk
          /\ prows' = prows \ chunk
    /\ UNCHANGED <<fetcherVars, blocks_queue, txs_queue, checkpoint_queue, bpc,
                   bcheckpoints, brows, txVars, cpVars, blocks, txTables,
                   block_checkpoint, processVars>>

\* One statement of insert_block_parents, after insert_blocks returned.
InsertBlockParents ==
    /\ bpc = "insert"
    /\ brows = {}
    /\ \E chunk \in SUBSET prows \ {{}} :
          /\ block_parent' = block_parent \cup chunk
          /\ prows' = prows \ chunk
    /\ UNCHANGED <<fetcherVars, blocks_queue, txs_queue, checkpoint_queue, bpc,
                   bcheckpoints, brows, txVars, cpVars, blocks, txTables,
                   block_checkpoint, processVars>>

\* Both inserts returned.
BlocksCommitted ==
    /\ bpc = "insert"
    /\ brows = {}
    /\ prows = {}
    /\ bpc' = "push"
    /\ UNCHANGED <<fetcherVars, blocks_queue, txs_queue, checkpoint_queue,
                   bcheckpoints, brows, prows, txVars, cpVars, blockTables,
                   txTables, block_checkpoint, processVars>>

\* Announce the next block of the batch; a full queue is retried, with no
\* look at the shutdown flag.
PushBlockCheckpoint ==
    /\ bpc = "push"
    /\ Len(checkpoint_queue) < CheckpointCap
    /\ checkpoint_queue' = Append(checkpoint_queue,
                             [origin |-> "Blocks", hash |-> Head(bcheckpoints)])
    /\ bcheckpoints' = Tail(bcheckpoints)
    /\ bpc' = IF bcheckpoints' = <<>> THEN "pop" ELSE "push"
    /\ UNCHANGED <<fetcherVars, blocks_queue, txs_queue, brows, prows, txVars,
                   cpVars, blockTables, txTables, block_checkpoint,
                   processVars>>

BlockProcessorStop ==
    /\ shutdown
    /\ bpc = "pop"
    /\ bpc' = "done"
    /\ UNCHANGED <<fetcherVars, blocks_queue, txs_queue, checkpoint_queue,
                   bcheckpoints, brows, prows, txVars, cpVars, blockTables,
                   txTables, block_checkpoint, processVars>>

BlockProcessor ==
    \/ \E commit \in BOOLEAN : PopBlock(commit)
    \/ InsertBlocks
    \/ InsertBlockParents
    \/ BlocksCommitted
    \/ PushBlockCheckpoint
    \/ BlockProcessorStop

-----------------------------------------------------------------------------
(***************************************************************************)
(* process_transactions                                                    *)
(***************************************************************************)

\* The ids among txs that tx_id_cache may still know: what was inserted since
\* the start, less what expired.
CacheHits(txs) ==
    IF CacheExpires THEN SUBSET (txs \cap tx_id_cache)
                    ELSE {txs \cap tx_id_cache}

\* Pop the transactions of one block.  An id found in tx_id_cache was
\* collected before and is not collected again.
PopTransactions(commit) ==
    /\ tpc = "pop"
    /\ ~shutdown
    /\ txs_queue # <<>>
    /\ txs_queue' = Tail(txs_queue)
    /\ tcheckpoints' = Append(tcheckpoints, Head(txs_queue))
    /\ IF On("RejectedTransactions")
       THEN \E hits \in CacheHits(TxsOf[Head(txs_queue)]) :
              LET new == TxsOf[Head(txs_queue)] \ hits
              IN  /\ trows' = IF On("TransactionsTable")
                              THEN trows \cup new ELSE trows
                  /\ arows' = IF On("AddressesTransactionsTable")
                              THEN arows \cup new ELSE arows
                  /\ tx_id_cache' = tx_id_cache \cup new
       ELSE UNCHANGED <<trows, arows, tx_id_cache>>
    /\ Len(tcheckpoints') >= TxBatch => commit
    /\ tpc' = IF ~commit THEN "pop"
              ELSE IF On("RejectedTransactions") THEN "wait" ELSE "push"
    /\ UNCHANGED <<fetcherVars, blocks_queue, checkpoint_queue, blockVars,
                   cpVars, blockTables, txTables, block_checkpoint,
                   processVars>>

\* The virtual chain processor is far enough ahead of the batch.
VcpCaughtUp ==
    /\ tpc = "wait"
    /\ tpc' = "insert"
    /\ UNCHANGED <<fetcherVars, blocks_queue, txs_queue, checkpoint_queue,
                   blockVars, tcheckpoints, trows, arows, tx_id_cache, cpVars,
                   blockTables, txTables, block_checkpoint, processVars>>

\* One statement of insert_txs; its chunks run concurrently with each other
\* and with those of insert_tx_addr.
InsertTransactions ==
    /\ tpc = "insert"
    /\ \E chunk \in SUBSET trows \ {{}} :
          /\ transactions' = transactions \cup chunk
          /\ trows' = trows \ chunk
    /\ UNCHANGED <<fetcherVars, blocks_queue, txs_queue, checkpoint_queue,
                   blockVars, tpc, tcheckpoints, arows, tx_id_cache, cpVars,
                   blockTables, addresses_transactions, block_checkpoint,
                   processVars>>

\* One statement of insert_tx_addr or insert_tx_script.
InsertAddressTransactions ==
    /\ tpc = "insert"
    /\ \E chunk \in SUBSET arows \ {{}} :
          /\ addresses_transactions' = addresses_transactions \cup chunk
          /\ arows' = arows \ chunk
    /\ UNCHANGED <<fetcherVars, blocks_queue, txs_queue, checkpoint_queue,
                   blockVars, tpc, tcheckpoints, trows, tx_id_cache, cpVars,
                   blockTables, transactions, block_checkpoint, processVars>>

\* Faulty: only tx_addr_handle is awaited.
TransactionsCommittedEarly ==
    /\ tpc = "insert"
    /\ arows = {}
    /\ tpc' = "push"
    /\ UNCHANGED <<fetcherVars, blocks_queue, txs_queue, checkpoint_queue,
                   blockVars, tcheckpoints, trows, arows, tx_id_cache, cpVars,
                   blockTables, txTables, block_checkpoint, processVars>>

\* Both handles were awaited.
TransactionsCommitted ==
    /\ tpc = "insert"
    /\ trows = {}
    /\ arows = {}
    /\ tpc' = "push"
    /\ UNCHANGED <<fetcherVars, blocks_queue, txs_queue, checkpoint_queue,
                   blockVars, tcheckpoints, trows, arows, tx_id_cache, cpVars,
                   blockTables, txTables, block_checkpoint, processVars>>

PushTransactionsCheckpoint ==
    /\ tpc = "push"
    /\ Len(checkpoint_queue) < CheckpointCap
    /\ checkpoint_queue' =
          Append(checkpoint_queue,
                 [origin |-> "Transactions", hash |-> Head(tcheckpoints)])
    /\ tcheckpoints' = Tail(tcheckpoints)
    /\ tpc' = IF tcheckpoints' = <<>> THEN "pop" ELSE "push"
    /\ UNCHANGED <<fetcherVars, blocks_queue, txs_queue, blockVars, trows,
                   arows, tx_id_cache, cpVars, blockTables, txTables,
                   block_checkpoint, processVars>>

\* The loop head and the wait for the virtual chain processor look at the
\* shutdown flag; the latter abandons the batch.
TransactionProcessorStop ==
    /\ shutdown
    /\ tpc \in {"pop", "wait"}
    /\ tpc' = "done"
    /\ UNCHANGED <<fetcherVars, blocks_queue, txs_queue, checkpoint_queue,
                   blockVars, tcheckpoints, trows, arows, tx_id_cache, cpVars,
                   blockTables, txTables, block_checkpoint, processVars>>

TransactionProcessor ==
    \/ \E commit \in BOOLEAN : PopTransactions(commit)
    \/ VcpCaughtUp
    \/ InsertTransactions
    \/ InsertAddressTransactions
    \/ TransactionsCommitted
    \/ PushTransactionsCheckpoint
    \/ TransactionProcessorStop

-----------------------------------------------------------------------------
(***************************************************************************)
(* process_checkpoints                                                     *)
(***************************************************************************)

\* The candidate after event e: the first Blocks event once the last save is
\* older than CHECKPOINT_SAVE_INTERVAL.
Picks(e, due) == e.origin = "Blocks" /\ candidate = NoBlock /\ due

CandidateAfter(e, due) == IF Picks(e, due) THEN e.hash ELSE candidate

TxsProcessedAfter(e) ==
    IF e.origin = "Transactions" THEN txs_processed \cup {e.hash}
                                 ELSE txs_processed

\* Faulty: cp_ok_txs survives the choice of a new candidate.
CpOkNotReset(e, due) ==
    \/ cp_ok_txs
    \/ ~On("TransactionProcessing")
    \/ CandidateAfter(e, due) \in TxsProcessedAfter(e)

\* cp_ok_txs after event e: the transaction processor announced the candidate.
CpOkAfter(e, due) ==
    \/ ~Picks(e, due) /\ cp_ok_txs
    \/ ~On("TransactionProcessing")
    \/ CandidateAfter(e, due) \in TxsProcessedAfter(e)

\* Both processors are FailedTimeout past the candidate.
SyncFailed(e, due) ==
    LET limit == BlueScore[CandidateAfter(e, due)] + FailedTimeout
    IN  /\ last_block_blue' > limit
        /\ ~On("TransactionProcessing") \/ last_tx_blue' > limit

\* The candidate is saved and dropped, dropped as failed, or kept; txs_processed
\* is emptied by every event that finds a candidate.  The warning comes before
\* the test for failure and hides it.
Decide(e, due, warn) ==
    LET cand == CandidateAfter(e, due)
    IN  \/ /\ cand = NoBlock
           /\ txs_processed' = TxsProcessedAfter(e)
           /\ UNCHANGED <<candidate, cp_ok_txs, block_checkpoint>>
        \/ /\ cand # NoBlock
           /\ CpOkAfter(e, due)
           /\ block_checkpoint' = cand
           /\ candidate' = NoBlock
           /\ cp_ok_txs' = TRUE
           /\ txs_processed' = {}
        \/ /\ cand # NoBlock
           /\ ~CpOkAfter(e, due)
           /\ candidate' = IF ~warn /\ SyncFailed(e, due) THEN NoBlock ELSE cand
           /\ cp_ok_txs' = FALSE
           /\ txs_processed' = {}
           /\ UNCHANGED block_checkpoint

CheckpointEvent(due, warn) ==
    /\ cpc = "run"
    /\ ~shutdown
    /\ checkpoint_queue # <<>>
    /\ checkpoint_queue' = Tail(checkpoint_queue)
    /\ LET e == Head(checkpoint_queue)
       IN  /\ last_block_blue' = IF e.origin = "Blocks" THEN BlueScore[e.hash]
                                                        ELSE last_block_blue
           /\ last_tx_blue' = IF e.origin = "Transactions"
                              THEN BlueScore[e.hash] ELSE last_tx_blue
           /\ Decide(e, due, warn)
    /\ UNCHANGED <<fetcherVars, blocks_queue, txs_queue, blockVars, txVars, cpc,
                   blockTables, txTables, processVars>>

CheckpointProcessorStop ==
    /\ shutdown
    /\ cpc = "run"
    /\ cpc' = "done"
    /\ UNCHANGED <<fetcherVars, blocks_queue, txs_queue, checkpoint_queue,
                   blockVars, txVars, candidate, cp_ok_txs, txs_processed,
                   last_block_blue, last_tx_blue, blockTables, txTables,
                   block_checkpoint, processVars>>

CheckpointProcessor ==
    \/ \E due, warn \in BOOLEAN : CheckpointEvent(due, warn)
    \/ CheckpointProcessorStop

-----------------------------------------------------------------------------
Restart ==
    \/ RestartFromCheckpoint
    \/ \E start \in StartPoints : RestartFromStartPoint(start)

Next ==
    \/ Fetcher
    \/ BlockProcessor
    \/ TransactionProcessor
    \/ CheckpointProcessor
    \/ Shutdown
    \/ Restart

\* Every task is a loop the runtime keeps polling, statements return, and the
\* virtual chain processor gets ahead of every batch (see Backpressure).
Fairness ==
    /\ WF_vars(Fetcher)
    /\ WF_vars(BlockProcessor)
    /\ WF_vars(TransactionProcessor)
    /\ WF_vars(CheckpointProcessor)

Spec == Init /\ [][Next]_vars

FairSpec == Spec /\ Fairness

-----------------------------------------------------------------------------
(***************************************************************************)
(* What the tables hold.                                                   *)
(***************************************************************************)

\* Blocks with all their rows in the enabled tables of process_blocks.
BlockStored ==
    {b \in Blocks : /\ On("BlocksTable") => b \in blocks
                    /\ On("BlockParentTable") => b \in block_parent}

\* Blocks with all their rows in the enabled tables of process_transactions,
\* which leaves its tables alone when rejected transactions are disabled.
TxsStored ==
    {b \in Blocks :
        (On("TransactionProcessing") /\ On("RejectedTransactions")) =>
            /\ On("TransactionsTable") => TxsOf[b] \subseteq transactions
            /\ On("AddressesTransactionsTable")
                 => TxsOf[b] \subseteq addresses_transactions}

Stored == BlockStored \cap TxsStored

(***************************************************************************)
(* What the pipeline holds on its way to the tables.                       *)
(***************************************************************************)
BlockReached == BlockStored \cup skipped \cup Elems(bcheckpoints)
TxsReached   == TxsStored \cup skipped \cup Elems(tcheckpoints)

BlockHanded == BlockReached \cup Elems(blocks_queue)
TxsHanded   == TxsReached \cup Elems(txs_queue)

-----------------------------------------------------------------------------
(***************************************************************************)
(* Properties                                                              *)
(***************************************************************************)

FetcherType ==
    /\ fpc \in {"poll", "blk", "tx", "done"}
    /\ low_hash \in Blocks
    /\ todo \subseteq Blocks
    /\ block_hash \in Blocks
    /\ block_cache \subseteq Blocks

QueueType ==
    /\ blocks_queue \in Seq(Blocks) /\ Len(blocks_queue) <= QueueCap
    /\ txs_queue \in Seq(Blocks) /\ Len(txs_queue) <= QueueCap
    /\ checkpoint_queue \in Seq(Event)
    /\ Len(checkpoint_queue) <= CheckpointCap

BlockProcessorType ==
    /\ bpc \in {"pop", "insert", "push", "done"}
    /\ bcheckpoints \in Seq(Blocks) /\ Len(bcheckpoints) <= BlockBatch
    /\ bpc \in {"insert", "push"} => bcheckpoints # <<>>
    /\ bpc = "pop" => Len(bcheckpoints) < BlockBatch
    /\ brows \subseteq Blocks
    /\ prows \subseteq Blocks

TransactionProcessorType ==
    /\ tpc \in {"pop", "wait", "insert", "push", "done"}
    /\ tcheckpoints \in Seq(Blocks) /\ Len(tcheckpoints) <= TxBatch
    /\ tpc \in {"wait", "insert", "push"} => tcheckpoints # <<>>
    /\ tpc = "pop" => Len(tcheckpoints) < TxBatch
    /\ trows \subseteq Txs
    /\ arows \subseteq Txs
    /\ tx_id_cache \subseteq Txs

CheckpointProcessorType ==
    /\ cpc \in {"run", "done"}
    /\ candidate \in Blocks \cup {NoBlock}
    /\ cp_ok_txs \in BOOLEAN
    /\ txs_processed \subseteq Blocks
    /\ last_block_blue \in Nat
    /\ last_tx_blue \in Nat

DatabaseType ==
    /\ blocks \subseteq Blocks /\ block_parent \subseteq Blocks
    /\ transactions \subseteq Txs /\ addresses_transactions \subseteq Txs
    /\ block_checkpoint \in Blocks \cup {NoBlock}

ProcessType ==
    /\ shutdown \in BOOLEAN
    /\ skipped \subseteq Blocks
    /\ restarts \in 0..MaxRestarts

\* Every variable has its type; no queue and no batch outgrows its bound.
TypeOK ==
    /\ FetcherType
    /\ QueueType
    /\ BlockProcessorType
    /\ TransactionProcessorType
    /\ CheckpointProcessorType
    /\ DatabaseType
    /\ ProcessType

\* A saved block_checkpoint is safe to resume from: the checkpoint block and
\* its whole past are in every enabled table, except what a start at a named
\* block gave up.  get_blocks never returns the past of low_hash, so a row
\* missing here is missing for good.  (process_checkpoints, checkpoint.rs)
CheckpointSafe ==
    block_checkpoint # NoBlock =>
        {block_checkpoint} \cup Past[block_checkpoint]
            \subseteq Stored \cup skipped

\* low_hash never runs ahead of what was handed over: between two polls every
\* block below low_hash is stored, in a batch or in a queue, in both branches
\* of the pipeline.  (handle_blocks, fetch_blocks.rs)
LowHashCovered ==
    fpc = "poll" => Past[low_hash] \cup (block_cache \cap {low_hash})
                        \subseteq BlockHanded \cap TxsHanded

\* A row of block_parent always has its row in blocks, at every moment and
\* after every crash: the pruner finds the expired rows of block_parent by a
\* join with blocks.  (process_blocks, process_blocks.rs)
ParentRowsHaveBlock ==
    On("BlocksTable") => block_parent \subseteq blocks

\* The pipeline, with all its batches, queues and crashes, is an index that only
\* grows and whose checkpoint only moves to blocks with a complete past.
Index == INSTANCE CheckpointedIndex WITH
            stored <- Stored, checkpoint <- block_checkpoint

ImplementsIndex == Index!Spec

\* A response once fetched is handed over in full, or the process stops: the
\* fetcher never waits for room in a queue forever.  (handle_blocks)
ResponseHandled ==
    fpc \in {"blk", "tx"} ~> fpc \in {"poll", "done"}

\* After a shutdown signal all four loops end.
ShutdownCompletes ==
    shutdown ~> \/ ~shutdown
                \/ fpc = "done" /\ bpc = "done" /\ tpc = "done" /\ cpc = "done"

-----------------------------------------------------------------------------
(***************************************************************************)
(* The inductive invariant behind CheckpointSafe.  What is below a block   *)
(* is always ahead of it: in the tables, in the batch or earlier in the    *)
(* queue.                                                                  *)
(***************************************************************************)

\* The past of every element of q lies in X or earlier in q.
Covered(q, X) ==
    \A i \in 1..Len(q) : Past[q[i]] \subseteq X \cup {q[j] : j \in 1..(i-1)}

BelowIn(b, X) == {b} \cup Past[b] \subseteq X

\* process_blocks: the batch is in the tables or in the rows still to write.
BlockBatchInv ==
    /\ \A b \in Elems(bcheckpoints) :
          /\ On("BlocksTable") => b \in blocks \cup brows
          /\ On("BlockParentTable") => b \in block_parent \cup prows
          /\ Past[b] \subseteq BlockReached
    /\ On("BlocksTable") => block_parent \cup prows \subseteq blocks \cup brows
    /\ ParentRowsHaveBlock
    /\ bpc = "push" => brows = {} /\ prows = {}
    /\ Covered(blocks_queue, BlockReached)

\* process_transactions: the same, where a transaction of the batch may have
\* been collected with an earlier block.
TxWrites(table) ==
    On("TransactionProcessing") /\ On("RejectedTransactions") /\ On(table)

TxBatchInv ==
    /\ \A b \in Elems(tcheckpoints) :
          /\ TxWrites("TransactionsTable")
                => TxsOf[b] \subseteq transactions \cup trows
          /\ TxWrites("AddressesTransactionsTable")
                => TxsOf[b] \subseteq addresses_transactions \cup arows
          /\ Past[b] \subseteq TxsReached
    /\ TxWrites("TransactionsTable")
          => tx_id_cache \subseteq transactions \cup trows
    /\ TxWrites("AddressesTransactionsTable")
          => tx_id_cache \subseteq addresses_transactions \cup arows
    /\ tpc = "push" \/ ~On("RejectedTransactions") => trows = {} /\ arows = {}
    /\ Covered(txs_queue, TxsReached)

FetcherInv ==
    /\ fpc = "poll" => Past[low_hash] \subseteq BlockHanded \cap TxsHanded
    /\ \A b \in todo : Past[b] \subseteq todo \cup (BlockHanded \cap TxsHanded)
    /\ fpc = "tx" => /\ block_hash \in todo \cap BlockHanded
                     /\ Past[block_hash] \cap todo = {}
    /\ block_cache \subseteq BlockHanded \cap TxsHanded

CheckpointInv ==
    /\ \A i \in 1..Len(checkpoint_queue) :
          /\ checkpoint_queue[i].origin = "Blocks"
                => BelowIn(checkpoint_queue[i].hash, BlockStored \cup skipped)
          /\ checkpoint_queue[i].origin = "Transactions"
                => BelowIn(checkpoint_queue[i].hash, TxsStored \cup skipped)
    /\ candidate # NoBlock => /\ BelowIn(candidate, BlockStored \cup skipped)
                              /\ ~cp_ok_txs
    /\ \A b \in txs_processed : BelowIn(b, TxsStored \cup skipped)
    /\ CheckpointSafe

IndInv ==
    TypeOK /\ BlockBatchInv /\ TxBatchInv /\ FetcherInv /\ CheckpointInv

=============================================================================
