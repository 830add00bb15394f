---------------------------- MODULE Backpressure ----------------------------
(***************************************************************************)
(* Who waits for whom.  The tasks of the indexer throttle each other:      *)
(*                                                                         *)
(*   - the block fetcher waits for room in blocks_queue, then in txs_queue; *)
(*   - process_transactions holds its batch back until the virtual chain   *)
(*     processor is TxLag of DAA score ahead of it;                        *)
(*   - fetch_virtual_chain stops when it is VcpLead of DAA score ahead of  *)
(*     the last block that process_blocks committed;                       *)
(*   - process_blocks commits a batch only when it pops a block, so what   *)
(*     it holds back can only be freed by the fetcher.                     *)
(*                                                                         *)
(* Together these form a cycle, and only the relation between the queue    *)
(* capacity, the batch size and the two distances keeps it from closing.   *)
(*                                                                         *)
(* Blocks are numbered in the order in which they are fetched, and a queue *)
(* or a batch is the distance between two positions.  get_blocks returns a *)
(* block before the mergeset that goes with it, so the DAA score may fall  *)
(* from one block to the next, and what the metrics show of a component is *)
(* the highest of its last blocks.  Database writes and the checkpoint     *)
(* queue never wait for another task (see BlockPipeline).                  *)
(***************************************************************************)
EXTENDS Naturals, Sequences

CONSTANTS
    MaxTip,      \* bound: blocks in a behaviour
    Daa,         \* Daa[i]: DAA score of the i-th block
    Spread,      \* how far a score may be below that of an earlier block
    QueueCap,    \* capacity of blocks_queue and of txs_queue
    BlockBatch,  \* batch size of process_blocks
    TxBatch,     \* batch size of process_transactions
    TxLag,       \* 3 * net_bps
    VcpLead,     \* 300 * net_bps
    Disable      \* the --disable flags in force

ASSUME DaaAssumption ==
    /\ MaxTip \in Nat
    /\ Daa \in [1..MaxTip -> Nat]
    /\ Spread \in Nat
    /\ \A i, j \in 1..MaxTip : i <= j => Daa[i] <= Daa[j] + Spread

\* (1000 * batch_scale) and (800 * batch_scale); 3 and 300 seconds of blocks: a block
\* that is merged less than 297 seconds late stays within the margin.
ASSUME MarginAssumption ==
    /\ QueueCap \in Nat /\ TxBatch \in Nat \ {0}
    /\ BlockBatch \in Nat \ {0}
    /\ BlockBatch <= QueueCap
    /\ TxLag \in Nat \ {0}
    /\ VcpLead \in Nat
    /\ TxLag + Spread <= VcpLead

ASSUME FlagAssumption ==
    Disable \subseteq {"VirtualChainProcessing", "RejectedTransactions"}

VARIABLES
    tip,          \* blocks kaspad knows
    b_pushed,     \* blocks pushed to blocks_queue
    t_pushed,     \* blocks pushed to txs_queue
    bpc,          \* process_blocks: "pop" | "commit"
    b_popped,
    b_committed,
    b_last,       \* components.block_processor.last_block, 0 for None
    tpc,          \* process_transactions: "pop" | "wait" | "commit"
    t_popped,
    t_committed,
    t_last,       \* components.transaction_processor.last_block
    vpc,          \* fetch_virtual_chain: "poll" | "send" | "lag" | "off"
    v_fetched,    \* the end of the last response fetched
    v_queue,      \* responses in the channel and in process_virtual_chain
    v_applied,    \* the end of the last response applied
    v_last        \* components.virtual_chain_processor.last_block

fetcherVars == <<b_pushed, t_pushed>>
blockVars   == <<bpc, b_popped, b_committed, b_last>>
txVars      == <<tpc, t_popped, t_committed, t_last>>
vcpVars     == <<vpc, v_fetched, v_queue, v_applied, v_last>>

vars == <<tip, fetcherVars, blockVars, txVars, vcpVars>>

On(flag) == flag \notin Disable

Init ==
    /\ tip = 0
    /\ b_pushed = 0 /\ t_pushed = 0
    /\ bpc = "pop" /\ b_popped = 0 /\ b_committed = 0 /\ b_last = 0
    /\ tpc = "pop" /\ t_popped = 0 /\ t_committed = 0 /\ t_last = 0
    /\ vpc = IF On("VirtualChainProcessing") THEN "poll" ELSE "off"
    /\ v_fetched = 0 /\ v_queue = <<>> /\ v_applied = 0 /\ v_last = 0

\* last_block only moves to a higher DAA score.
update_last_block(last, block) ==
    IF last = 0 \/ Daa[last] < Daa[block] THEN block ELSE last

\* kaspad learns of another block.
NewBlock ==
    /\ tip < MaxTip
    /\ tip' = tip + 1
    /\ UNCHANGED <<fetcherVars, blockVars, txVars, vcpVars>>

-----------------------------------------------------------------------------
(***************************************************************************)
(* handle_blocks: each block goes to blocks_queue, then to txs_queue.      *)
(***************************************************************************)
PushBlock ==
    /\ b_pushed = t_pushed
    /\ b_pushed < tip
    /\ b_pushed < b_popped + QueueCap
    /\ b_pushed' = b_pushed + 1
    /\ UNCHANGED <<tip, t_pushed, blockVars, txVars, vcpVars>>

\* Faulty: one entry more than the queue holds.
PushTransactionsOver ==
    /\ t_pushed < b_pushed
    /\ t_pushed <= t_popped + QueueCap
    /\ t_pushed' = t_pushed + 1
    /\ UNCHANGED <<tip, b_pushed, blockVars, txVars, vcpVars>>

PushTransactions ==
    /\ t_pushed < b_pushed
    /\ t_pushed < t_popped + QueueCap
    /\ t_pushed' = t_pushed + 1
    /\ UNCHANGED <<tip, b_pushed, blockVars, txVars, vcpVars>>

-----------------------------------------------------------------------------
(***************************************************************************)
(* process_blocks                                                          *)
(***************************************************************************)

\* Faulty: commits only full batches of twice the queue's size.
PopBlockHoards(commit) ==
    /\ bpc = "pop"
    /\ b_popped < b_pushed
    /\ b_popped' = b_popped + 1
    /\ commit => b_popped' >= b_committed + 2 * QueueCap
    /\ bpc' = IF commit THEN "commit" ELSE "pop"
    /\ UNCHANGED <<tip, fetcherVars, b_committed, b_last, txVars, vcpVars>>

\* A full batch is committed, and any batch after two seconds.
PopBlock(commit) ==
    /\ bpc = "pop"
    /\ b_popped < b_pushed
    /\ b_popped' = b_popped + 1
    /\ b_popped' >= b_committed + BlockBatch => commit
    /\ bpc' = IF commit THEN "commit" ELSE "pop"
    /\ UNCHANGED <<tip, fetcherVars, b_committed, b_last, txVars, vcpVars>>

\* The batch is written and the metrics show its last block.
CommitBlocks ==
    /\ bpc = "commit"
    /\ b_committed' = b_popped
    /\ b_last' = update_last_block(b_last, b_popped)
    /\ bpc' = "pop"
    /\ UNCHANGED <<tip, fetcherVars, b_popped, txVars, vcpVars>>

-----------------------------------------------------------------------------
(***************************************************************************)
(* process_transactions                                                    *)
(***************************************************************************)

\* A full batch is committed, and any batch after one second.
PopTransactions(commit) ==
    /\ tpc = "pop"
    /\ t_popped < t_pushed
    /\ t_popped' = t_popped + 1
    /\ t_popped' >= t_committed + TxBatch => commit
    /\ tpc' = IF ~commit THEN "pop"
              ELSE IF On("RejectedTransactions") THEN "wait" ELSE "commit"
    /\ UNCHANGED <<tip, fetcherVars, blockVars, t_committed, t_last, vcpVars>>

\* Faulty: measures the distance from the fetcher instead of from the batch.
VcpAheadOfFetcher ==
    v_last # 0 /\ Daa[v_last] >= Daa[b_pushed] + TxLag

\* The virtual chain processor applied a block TxLag above the batch.
VcpAhead ==
    v_last # 0 /\ Daa[v_last] >= Daa[t_popped] + TxLag

VcpCaughtUp ==
    /\ tpc = "wait"
    /\ VcpAhead
    /\ tpc' = "commit"
    /\ UNCHANGED <<tip, fetcherVars, blockVars, t_popped, t_committed, t_last, vcpVars>>

CommitTransactions ==
    /\ tpc = "commit"
    /\ t_committed' = t_popped
    /\ t_last' = update_last_block(t_last, t_popped)
    /\ tpc' = "pop"
    /\ UNCHANGED <<tip, fetcherVars, blockVars, t_popped, vcpVars>>

-----------------------------------------------------------------------------
(***************************************************************************)
(* The virtual chain processor                                             *)
(***************************************************************************)

\* A response that ends at block i, as far as the tip distance allows.
GetVirtualChain(i) ==
    /\ vpc = "poll"
    /\ v_fetched < i /\ i <= tip
    /\ v_fetched' = i
    /\ vpc' = "send"
    /\ UNCHANGED <<tip, fetcherVars, blockVars, txVars, v_queue, v_applied, v_last>>

\* One response may be in the channel while another is being applied.
Send ==
    /\ vpc = "send"
    /\ Len(v_queue) < 2
    /\ v_queue' = Append(v_queue, v_fetched)
    /\ vpc' = "lag"
    /\ UNCHANGED <<tip, fetcherVars, blockVars, txVars, v_fetched, v_applied, v_last>>

ApplyResponse ==
    /\ v_queue # <<>>
    /\ v_applied' = Head(v_queue)
    /\ v_last' = update_last_block(v_last, v_applied')
    /\ v_queue' = Tail(v_queue)
    /\ UNCHANGED <<tip, fetcherVars, blockVars, txVars, vpc, v_fetched>>

\* "Don't allow VCP to run ahead of blocks processor by more than 5 minutes"
VcpNear ==
    Daa[v_fetched] < (IF b_last = 0 THEN 0 ELSE Daa[b_last]) + VcpLead

BlockProcessorCaughtUp ==
    /\ vpc = "lag"
    /\ VcpNear
    /\ vpc' = "poll"
    /\ UNCHANGED <<tip, fetcherVars, blockVars, txVars, v_fetched, v_queue,
                   v_applied, v_last>>

-----------------------------------------------------------------------------
Fetcher == PushBlock \/ PushTransactions

BlockProcessor == (\E commit \in BOOLEAN : PopBlock(commit)) \/ CommitBlocks

TransactionProcessor ==
    \/ \E commit \in BOOLEAN : PopTransactions(commit)
    \/ VcpCaughtUp
    \/ CommitTransactions

VcpFetcher ==
    (\E i \in 1..MaxTip : GetVirtualChain(i)) \/ Send \/ BlockProcessorCaughtUp

Next ==
    \/ NewBlock
    \/ Fetcher
    \/ BlockProcessor
    \/ TransactionProcessor
    \/ VcpFetcher
    \/ ApplyResponse

Spec == Init /\ [][Next]_vars

\* Every task is a loop that polls again; kaspad answers.
FairSpec ==
    /\ Spec
    /\ WF_vars(Fetcher)
    /\ WF_vars(BlockProcessor)
    /\ WF_vars(TransactionProcessor)
    /\ WF_vars(VcpFetcher)
    /\ WF_vars(ApplyResponse)

-----------------------------------------------------------------------------
(***************************************************************************)
(* Properties                                                              *)
(***************************************************************************)

\* Every position has its type, and each queue and batch its bound.
TypeOK ==
    /\ tip \in 0..MaxTip
    /\ b_pushed \in 0..tip
    /\ t_pushed \in 0..b_pushed /\ b_pushed <= t_pushed + 1
    /\ bpc \in {"pop", "commit"}
    /\ b_popped \in 0..b_pushed /\ b_pushed <= b_popped + QueueCap
    /\ b_committed \in 0..b_popped /\ b_last \in 0..b_committed
    /\ bpc = "pop" => b_popped < b_committed + BlockBatch
    /\ tpc \in {"pop", "wait", "commit"}
    /\ t_popped \in 0..t_pushed /\ t_pushed <= t_popped + QueueCap
    /\ t_committed \in 0..t_popped /\ t_last \in 0..t_committed
    /\ tpc # "pop" => t_popped # 0
    /\ vpc \in {"poll", "send", "lag", "off"}
    /\ v_fetched \in 0..tip
    /\ vpc \in {"send", "lag"} => v_fetched # 0
    /\ v_queue \in Seq(1..MaxTip) /\ Len(v_queue) <= 2
    /\ v_applied \in 0..MaxTip /\ v_last \in 0..v_applied

FetcherBlocked == t_pushed < b_pushed /\ t_pushed = t_popped + QueueCap
BlockProcessorStarved == bpc = "pop" /\ b_popped = b_pushed
TransactionsHeldBack == tpc = "wait" /\ ~VcpAhead
VcpHeldBack == vpc = "lag" /\ v_queue = <<>> /\ ~VcpNear

\* The cycle never closes: the fetcher waits for process_transactions, which
\* waits for the virtual chain processor, which waits for process_blocks, which
\* waits for the fetcher.  Nothing would ever end such a wait.
\* (handle_blocks, process_blocks, process_transactions, fetch_virtual_chain)
NoCircularWait ==
    ~ (/\ FetcherBlocked
       /\ BlockProcessorStarved
       /\ TransactionsHeldBack
       /\ VcpHeldBack)

\* A block whose transactions are not queued yet gets there: the fetcher does
\* not hang between its two queues, and indexing goes on.  (handle_blocks)
FetcherResumes == t_pushed < b_pushed ~> t_pushed = b_pushed

(***************************************************************************)
(* The inductive invariant: what is not on its way was applied, responses  *)
(* are applied in the order of their ends, and the metrics show no less    *)
(* than the last batch and the last response.                              *)
(***************************************************************************)
VcpInv ==
    vpc = "lag" =>
        IF v_queue = <<>> THEN v_applied = v_fetched
                          ELSE v_queue[Len(v_queue)] = v_fetched

OrderInv ==
    /\ v_applied <= v_fetched
    /\ \A n \in 1..Len(v_queue) :
          /\ v_applied <= v_queue[n] /\ v_queue[n] <= v_fetched
          /\ \A m \in 1..n : v_queue[m] <= v_queue[n]

Shows(last, block) == block # 0 => last # 0 /\ Daa[block] <= Daa[last]

LastInv == Shows(b_last, b_committed) /\ Shows(v_last, v_applied)

IndInv == TypeOK /\ VcpInv /\ OrderInv /\ LastInv

=============================================================================
