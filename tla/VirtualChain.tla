---------------------------- MODULE VirtualChain ----------------------------
(***************************************************************************)
(* The virtual chain processor: fetch_virtual_chain asks kaspad for the    *)
(* changes of the selected chain since start_hash and sends them through a *)
(* channel of capacity 1; process_virtual_chain applies each response to   *)
(* transactions_acceptances (first the removed chain blocks, then the      *)
(* added ones), upserts the accepted transactions and saves                *)
(* vcp_checkpoint, where the next start resumes.                           *)
(*                                                                         *)
(*   kaspad ----> fetch_virtual_chain --channel--> process_virtual_chain   *)
(*                                                                         *)
(* The DAG is reduced to its selected chains: Chain[b] is b with all its   *)
(* selected ancestors.  kaspad's sink moves at any time to a block that    *)
(* is not below it, possibly on another branch.  A response ends at a      *)
(* chain block that is tip_distance confirmations below the sink, or, by   *)
(* kaspad's batch size, at an earlier one; how the processor adapts the    *)
(* distance is TipDistance's subject and a free choice here.  The wait for *)
(* the block processor is a step that may come at any time (see            *)
(* Backpressure).                                                          *)
(***************************************************************************)
EXTENDS Naturals, Sequences, FiniteSets

CONSTANTS
    Blocks,       \* chain blocks
    Txs,          \* transaction ids
    Chain,        \* Chain[b]: b and its selected ancestors
    Accepts,      \* Accepts[b]: transactions b accepts, less ignored self-sends
    BlueScore,    \* BlueScore[b]: confirmations are differences of these
    NoBlock,      \* NULL
    StartPoints,  \* block_checkpoints, for a start without a vcp_checkpoint
    IgnoreCheckpoints,  \* blocks that -i may name
    InitialDistance,    \* 10
    TipDistances,       \* bound: the distances explored
    Disable,      \* the --disable flags in force
    Crashes,      \* may the process die between two steps?
    SaveFails,    \* may save_vcp_checkpoint fail?
    MaxRestarts,  \* bound: restarts in a behaviour
    Signals       \* may SIGINT or SIGTERM arrive?

CliDisable ==
    {"TransactionAcceptance", "TransactionsTable", "AddressesTransactionsTable"}

\* Selected chains form a forest, and consensus accepts a transaction at most
\* once along a chain.
ASSUME ChainAssumption ==
    /\ Chain \in [Blocks -> SUBSET Blocks]
    /\ \A b \in Blocks : b \in Chain[b]
    /\ \A b \in Blocks : \A a \in Chain[b] : Chain[a] \subseteq Chain[b]
    /\ \A c \in Blocks : \A a, b \in Chain[c] : a \in Chain[b] \/ b \in Chain[a]
    /\ \A a, b \in Blocks : a \in Chain[b] /\ b \in Chain[a] => a = b

ASSUME AcceptsAssumption ==
    /\ Accepts \in [Blocks -> SUBSET Txs]
    /\ \A c \in Blocks : \A a, b \in Chain[c] :
          a # b => Accepts[a] \cap Accepts[b] = {}

\* Blue scores do not fall along a chain.
ASSUME BlueScoreAssumption ==
    /\ BlueScore \in [Blocks -> Nat]
    /\ \A b \in Blocks : \A a \in Chain[b] : BlueScore[a] <= BlueScore[b]

ASSUME ConfigAssumption ==
    /\ NoBlock \notin Blocks
    /\ StartPoints \subseteq Blocks
    /\ IgnoreCheckpoints \subseteq Blocks
    /\ TipDistances \subseteq Nat
    /\ InitialDistance \in TipDistances
    /\ Disable \subseteq CliDisable
    /\ Crashes \in BOOLEAN
    /\ SaveFails \in BOOLEAN
    /\ MaxRestarts \in Nat
    /\ Signals \in BOOLEAN

VARIABLES
    sink,            \* kaspad: the tip of the selected chain
    (* fetch_virtual_chain *)
    vfpc,            \* "poll" | "send" | "lag" | "done"
    start_hash,
    pending,         \* <<>> or the response being sent
    channel,         \* <<>> or the response in the mpsc channel
    (* process_virtual_chain *)
    ppc,             \* "recv" | "remove" | "accept" | "save" | "done"
    added,           \* added_chain_block_hashes of the response
    last,            \* its last chain block
    removed,         \* removed_chain_block_hashes not yet deleted
    acc_rows,        \* rows not yet in transactions_acceptances
    tx_rows,         \* transactions not yet upserted
    addr_rows,       \* transactions with addresses not yet inserted
    mark_rows,       \* chain blocks not yet marked
    (* PostgreSQL *)
    acceptances,     \* transactions_acceptances: the block of a transaction id
    chain_rows,      \* transactions_acceptances: rows of a block with no id
    inputs,          \* transactions: "none", "raw" or "resolved" inputs
    addresses,       \* transactions with all their rows in addresses_transactions
    vcp_checkpoint,  \* the row of table vars
    (* the process *)
    tip_distance,    \* metrics of the processor, read by the fetcher
    shutdown,
    restarts,
    (* history *)
    pos,             \* the last response applied ended here
    skipped,         \* blocks that a start passed over without a response
    unsaved,         \* blocks of the responses applied since the last save
    lost             \* blocks that were in unsaved when the process ended, or
                     \* that -i left behind, and that no response has named
                     \* since

fetcherVars == <<vfpc, start_hash, pending>>
rowVars     == <<acc_rows, tx_rows, addr_rows, mark_rows>>
workVars    == <<added, last, removed, rowVars>>
tables      == <<acceptances, chain_rows, inputs, addresses>>
history     == <<pos, skipped, unsaved, lost>>

vars == <<sink, fetcherVars, channel, ppc, workVars, tables, vcp_checkpoint,
          tip_distance, shutdown, restarts, history>>

On(flag) == flag \notin Disable

Accepted(bs) == UNION {Accepts[b] : b \in bs}

Response ==
    [removed : SUBSET Blocks, added : SUBSET Blocks, last : Blocks]

-----------------------------------------------------------------------------
(***************************************************************************)
(* Process start                                                           *)
(***************************************************************************)
Init ==
    /\ sink \in Blocks
    /\ start_hash \in StartPoints \cup IgnoreCheckpoints
    /\ vfpc = "poll" /\ pending = <<>> /\ channel = <<>>
    /\ ppc = "recv" /\ added = {} /\ last = start_hash /\ removed = {}
    /\ acc_rows = {} /\ tx_rows = {} /\ addr_rows = {} /\ mark_rows = {}
    /\ acceptances = [tx \in Txs |-> NoBlock]
    /\ chain_rows = [b \in Blocks |-> 0]
    /\ inputs = [tx \in Txs |-> "none"]
    /\ addresses = {}
    /\ vcp_checkpoint = NoBlock
    /\ tip_distance = InitialDistance /\ shutdown = FALSE /\ restarts = 0
    /\ pos = start_hash /\ skipped = Chain[start_hash]
    /\ unsaved = {} /\ lost = {}

\* The process ended, by itself or by a crash, and starts again: at the saved
\* vcp_checkpoint, at the block checkpoint when none was saved, or with -i at
\* any block, whatever was saved.
Restart(start) ==
    /\ restarts < MaxRestarts
    /\ Crashes \/ (vfpc = "done" /\ ppc = "done")
    /\ \/ start = vcp_checkpoint
       \/ vcp_checkpoint = NoBlock /\ start \in StartPoints
       \/ start \in IgnoreCheckpoints
    /\ vfpc' = "poll" /\ start_hash' = start /\ pending' = <<>>
    /\ channel' = <<>>
    /\ ppc' = "recv" /\ added' = {} /\ last' = start /\ removed' = {}
    /\ acc_rows' = {} /\ tx_rows' = {} /\ addr_rows' = {} /\ mark_rows' = {}
    /\ tip_distance' = InitialDistance
    /\ shutdown' = FALSE /\ restarts' = restarts + 1
    /\ pos' = start
    /\ skipped' = IF start = vcp_checkpoint THEN skipped
                  ELSE skipped \cup (Chain[start] \ Chain[pos])
    /\ lost' = lost \cup unsaved \cup (Chain[pos] \ Chain[start])
    /\ unsaved' = {}
    /\ UNCHANGED <<sink, tables, vcp_checkpoint>>

\* The first SIGINT or SIGTERM.
Shutdown ==
    /\ Signals
    /\ ~shutdown
    /\ shutdown' = TRUE
    /\ UNCHANGED <<sink, fetcherVars, channel, ppc, workVars, tables,
                   vcp_checkpoint, tip_distance, restarts, history>>

-----------------------------------------------------------------------------
(***************************************************************************)
(* kaspad                                                                  *)
(***************************************************************************)

\* The selected chain grows or reorganises.  Successive polls may be answered
\* by different nodes of the pool, so the sink may also be an earlier one, but
\* not one below the sink before it.
VirtualChange(b) ==
    /\ b \notin Chain[sink]
    /\ sink' = b
    /\ UNCHANGED <<fetcherVars, channel, ppc, workVars, tables,
                   vcp_checkpoint, tip_distance, shutdown, restarts, history>>

\* The selected chain below s as far as it has d confirmations.
Confirmed(s, d) == {b \in Chain[s] : BlueScore[b] + d <= BlueScore[s]}

\* The chain changes from start up to chain block b.
VirtualChainFromBlock(start, b) ==
    [removed |-> Chain[start] \ Chain[sink],
     added   |-> Chain[b] \ Chain[start],
     last    |-> b]

-----------------------------------------------------------------------------
(***************************************************************************)
(* fetch_virtual_chain                                                     *)
(***************************************************************************)

\* Faulty: asks from the same block again.
GetVirtualChainAgain ==
    /\ vfpc = "poll"
    /\ ~shutdown
    /\ \E b \in Confirmed(sink, tip_distance) \ Chain[start_hash] :
          pending' = <<VirtualChainFromBlock(start_hash, b)>>
    /\ vfpc' = "send"
    /\ UNCHANGED <<sink, start_hash, channel, ppc, workVars, tables,
                   vcp_checkpoint, tip_distance, shutdown, restarts, history>>

\* Faulty: asks for one confirmation more than the tip distance.
GetVirtualChainConfirmedMore ==
    /\ vfpc = "poll"
    /\ ~shutdown
    /\ \E b \in Confirmed(sink, tip_distance + 1) \ Chain[start_hash] :
          /\ pending' = <<VirtualChainFromBlock(start_hash, b)>>
          /\ start_hash' = b
    /\ vfpc' = "send"
    /\ UNCHANGED <<sink, channel, ppc, workVars, tables, vcp_checkpoint,
                   tip_distance, shutdown, restarts, history>>

\* One poll that added chain blocks: kaspad is asked for those with at least
\* tip_distance confirmations.  A failed poll, or one that added none, sleeps and
\* changes nothing, even if it removed some.
GetVirtualChain ==
    /\ vfpc = "poll"
    /\ ~shutdown
    /\ \E b \in Confirmed(sink, tip_distance) \ Chain[start_hash] :
          /\ pending' = <<VirtualChainFromBlock(start_hash, b)>>
          /\ start_hash' = b
    /\ vfpc' = "send"
    /\ UNCHANGED <<sink, channel, ppc, workVars, tables, vcp_checkpoint,
                   tip_distance, shutdown, restarts, history>>

\* Faulty: an unbounded channel.
SendUnbounded ==
    /\ vfpc = "send"
    /\ ppc # "done"
    /\ channel' = channel \o pending
    /\ pending' = <<>>
    /\ vfpc' = "lag"
    /\ UNCHANGED <<sink, start_hash, ppc, workVars, tables, vcp_checkpoint,
                   tip_distance, shutdown, restarts, history>>

\* sender.send waits for room in the channel.
Send ==
    /\ vfpc = "send"
    /\ ppc # "done"
    /\ channel = <<>>
    /\ channel' = pending
    /\ pending' = <<>>
    /\ vfpc' = "lag"
    /\ UNCHANGED <<sink, start_hash, ppc, workVars, tables, vcp_checkpoint,
                   tip_distance, shutdown, restarts, history>>

\* Faulty: a send to a dropped receiver is tried again.
SendRetries == FALSE /\ UNCHANGED vars

\* The receiver is gone: "persister dropped".
SendFails ==
    /\ vfpc = "send"
    /\ ppc = "done"
    /\ vfpc' = "done"
    /\ UNCHANGED <<sink, start_hash, pending, channel, ppc, workVars, tables,
                   vcp_checkpoint, tip_distance, shutdown, restarts, history>>

\* The block processor is less than five minutes behind.
BlockProcessorCaughtUp ==
    /\ vfpc = "lag"
    /\ vfpc' = "poll"
    /\ UNCHANGED <<sink, start_hash, pending, channel, ppc, workVars, tables,
                   vcp_checkpoint, tip_distance, shutdown, restarts, history>>

FetcherStop ==
    /\ shutdown
    /\ vfpc \in {"poll", "lag"}
    /\ vfpc' = "done"
    /\ UNCHANGED <<sink, start_hash, pending, channel, ppc, workVars, tables,
                   vcp_checkpoint, tip_distance, shutdown, restarts, history>>

Fetcher ==
    \/ GetVirtualChain
    \/ Send
    \/ SendFails
    \/ BlockProcessorCaughtUp
    \/ FetcherStop

-----------------------------------------------------------------------------
(***************************************************************************)
(* process_virtual_chain                                                   *)
(***************************************************************************)
Receive ==
    /\ ppc = "recv"
    /\ channel # <<>>
    /\ channel' = <<>>
    /\ LET r == Head(channel)
       IN  /\ added' = r.added
           /\ last' = r.last
           /\ removed' = r.removed
           /\ unsaved' = unsaved \cup r.removed \cup r.added
    /\ ppc' = "remove"
    /\ UNCHANGED <<sink, fetcherVars, rowVars, tables, vcp_checkpoint,
                   tip_distance, shutdown, restarts, pos, skipped, lost>>

\* One DELETE of remove_chain_blocks.
RemoveChainBlocks ==
    /\ ppc = "remove"
    /\ \E chunk \in SUBSET removed \ {{}} :
          /\ acceptances' =
                [tx \in Txs |-> IF acceptances[tx] \in chunk
                                THEN NoBlock ELSE acceptances[tx]]
          /\ chain_rows' =
                [b \in Blocks |-> IF b \in chunk THEN 0 ELSE chain_rows[b]]
          /\ removed' = removed \ chunk
    /\ UNCHANGED <<sink, fetcherVars, channel, ppc, added, last, rowVars,
                   inputs, addresses, vcp_checkpoint, tip_distance, shutdown,
                   restarts, history>>

\* What accept_transactions, or else add_chain_blocks, is going to write.
CollectRows ==
    /\ acc_rows' = IF On("TransactionAcceptance") THEN Accepted(added) ELSE {}
    /\ tx_rows' = IF On("TransactionAcceptance") /\ On("TransactionsTable")
                  THEN Accepted(added) ELSE {}
    /\ addr_rows' =
          IF On("TransactionAcceptance") /\ On("AddressesTransactionsTable")
          THEN Accepted(added) ELSE {}
    /\ mark_rows' = IF On("TransactionAcceptance") THEN {} ELSE added

\* Faulty: remove_chain_blocks is not awaited and dropped.
ChainBlocksRemovedEarly ==
    /\ ppc = "remove"
    /\ removed' = {}
    /\ CollectRows
    /\ ppc' = "accept"
    /\ UNCHANGED <<sink, fetcherVars, channel, added, last, tables,
                   vcp_checkpoint, tip_distance, shutdown, restarts, history>>

\* All removed chain blocks are deleted.
ChainBlocksRemoved ==
    /\ ppc = "remove"
    /\ removed = {}
    /\ CollectRows
    /\ ppc' = "accept"
    /\ UNCHANGED <<sink, fetcherVars, channel, added, last, removed, tables,
                   vcp_checkpoint, tip_distance, shutdown, restarts, history>>

\* The chain block of the response that accepts tx.
AcceptingBlock(tx) == CHOOSE b \in added : tx \in Accepts[b]

\* One INSERT of insert_transaction_acceptances.  transaction_id is unique and
\* a conflict keeps the old row.
InsertTransactionAcceptances ==
    /\ ppc = "accept"
    /\ \E chunk \in SUBSET acc_rows \ {{}} :
          /\ acceptances' =
                [tx \in Txs |->
                    IF tx \in chunk /\ acceptances[tx] = NoBlock
                    THEN AcceptingBlock(tx) ELSE acceptances[tx]]
          /\ acc_rows' = acc_rows \ chunk
    /\ UNCHANGED <<sink, fetcherVars, channel, ppc, added, last, removed,
                   tx_rows, addr_rows, mark_rows, chain_rows, inputs,
                   addresses, vcp_checkpoint, tip_distance, shutdown,
                   restarts, history>>

\* Faulty: insert_txs without upsert_inputs.
InsertTransactionsOnly ==
    /\ ppc = "accept"
    /\ \E chunk \in SUBSET tx_rows \ {{}} :
          /\ inputs' = [tx \in Txs |->
                          IF tx \in chunk /\ inputs[tx] = "none"
                          THEN "resolved" ELSE inputs[tx]]
          /\ tx_rows' = tx_rows \ chunk
    /\ UNCHANGED <<sink, fetcherVars, channel, ppc, added, last, removed,
                   acc_rows, addr_rows, mark_rows, acceptances, chain_rows,
                   addresses, vcp_checkpoint, tip_distance, shutdown,
                   restarts, history>>

\* One INSERT of insert_txs with upsert_inputs: the resolved inputs replace
\* those of a row that process_transactions wrote.
UpsertTransactions ==
    /\ ppc = "accept"
    /\ \E chunk \in SUBSET tx_rows \ {{}} :
          /\ inputs' = [tx \in Txs |-> IF tx \in chunk THEN "resolved"
                                                       ELSE inputs[tx]]
          /\ tx_rows' = tx_rows \ chunk
    /\ UNCHANGED <<sink, fetcherVars, channel, ppc, added, last, removed,
                   acc_rows, addr_rows, mark_rows, acceptances, chain_rows,
                   addresses, vcp_checkpoint, tip_distance, shutdown,
                   restarts, history>>

\* One INSERT of insert_tx_addr or insert_tx_script.
InsertAddressTransactions ==
    /\ ppc = "accept"
    /\ \E chunk \in SUBSET addr_rows \ {{}} :
          /\ addresses' = addresses \cup chunk
          /\ addr_rows' = addr_rows \ chunk
    /\ UNCHANGED <<sink, fetcherVars, channel, ppc, added, last, removed,
                   acc_rows, tx_rows, mark_rows, acceptances, chain_rows,
                   inputs, vcp_checkpoint, tip_distance, shutdown, restarts,
                   history>>

\* One INSERT of add_chain_blocks.  The transaction id is NULL, so that no two
\* rows conflict.
AddChainBlocks ==
    /\ ppc = "accept"
    /\ \E chunk \in SUBSET mark_rows \ {{}} :
          /\ chain_rows' =
                [b \in Blocks |-> IF b \in chunk THEN chain_rows[b] + 1
                                                 ELSE chain_rows[b]]
          /\ mark_rows' = mark_rows \ chunk
    /\ UNCHANGED <<sink, fetcherVars, channel, ppc, added, last, removed,
                   acc_rows, tx_rows, addr_rows, acceptances, inputs,
                   addresses, vcp_checkpoint, tip_distance, shutdown,
                   restarts, history>>

\* Faulty: acceptances_handle is not awaited and its rows are lost.
ResponseAppliedEarly ==
    /\ ppc = "accept"
    /\ tx_rows = {} /\ addr_rows = {} /\ mark_rows = {}
    /\ acc_rows' = {}
    /\ ppc' = "save"
    /\ UNCHANGED <<sink, fetcherVars, channel, added, last, removed, tx_rows,
                   addr_rows, mark_rows, tables, vcp_checkpoint, tip_distance,
                   shutdown, restarts, history>>

\* Every handle was awaited and the metrics show the new position and the tip
\* distance, which this response may have moved by one.
ResponseApplied ==
    /\ ppc = "accept"
    /\ acc_rows = {} /\ tx_rows = {} /\ addr_rows = {} /\ mark_rows = {}
    /\ ppc' = "save"
    /\ \E d \in TipDistances :
          /\ d <= tip_distance + 1 /\ tip_distance <= d + 1
          /\ tip_distance' = d
    /\ UNCHANGED <<sink, fetcherVars, channel, workVars, tables,
                   vcp_checkpoint, shutdown, restarts, history>>

\* save_vcp_checkpoint; a failure is logged and forgotten.
SaveVcpCheckpoint(ok) ==
    /\ ppc = "save"
    /\ ok \/ SaveFails
    /\ pos' = last
    /\ IF ok THEN /\ vcp_checkpoint' = last
                  /\ skipped' = skipped \ unsaved
                  /\ unsaved' = {}
             ELSE UNCHANGED <<vcp_checkpoint, skipped, unsaved>>
    /\ lost' = lost \ unsaved
    /\ ppc' = IF shutdown THEN "done" ELSE "recv"
    /\ UNCHANGED <<sink, fetcherVars, channel, workVars, tables, tip_distance,
                   shutdown, restarts>>

\* recv returns None: the sender was dropped and the channel is drained.
ProcessorStop ==
    /\ ppc = "recv"
    /\ vfpc = "done"
    /\ channel = <<>>
    /\ ppc' = "done"
    /\ UNCHANGED <<sink, fetcherVars, channel, workVars, tables,
                   vcp_checkpoint, tip_distance, shutdown, restarts, history>>

Processor ==
    \/ Receive
    \/ RemoveChainBlocks
    \/ ChainBlocksRemoved
    \/ InsertTransactionAcceptances
    \/ UpsertTransactions
    \/ InsertAddressTransactions
    \/ AddChainBlocks
    \/ ResponseApplied
    \/ \E ok \in BOOLEAN : SaveVcpCheckpoint(ok)
    \/ ProcessorStop

(***************************************************************************)
(* process_transactions writes the same tables: its rows carry no resolved *)
(* inputs and leave an existing row alone.                                 *)
(***************************************************************************)
InsertUnresolved(tx) ==
    /\ On("TransactionsTable")
    /\ inputs[tx] = "none"
    /\ inputs' = [inputs EXCEPT ![tx] = "raw"]
    /\ UNCHANGED <<sink, fetcherVars, channel, ppc, workVars, acceptances,
                   chain_rows, addresses, vcp_checkpoint, tip_distance,
                   shutdown, restarts, history>>

-----------------------------------------------------------------------------
Next ==
    \/ \E b \in Blocks : VirtualChange(b)
    \/ Fetcher
    \/ Processor
    \/ \E tx \in Txs : InsertUnresolved(tx)
    \/ Shutdown
    \/ \E start \in Blocks : Restart(start)

Spec == Init /\ [][Next]_vars

\* The two tasks are loops the runtime keeps polling; statements return.
FairSpec == Spec /\ WF_vars(Fetcher) /\ WF_vars(Processor)

-----------------------------------------------------------------------------
(***************************************************************************)
(* Properties                                                              *)
(***************************************************************************)

\* Every variable has its type.
TypeOK ==
    /\ sink \in Blocks
    /\ vfpc \in {"poll", "send", "lag", "done"}
    /\ start_hash \in Blocks
    /\ pending \in Seq(Response) /\ Len(pending) <= 1
    /\ channel \in Seq(Response) /\ Len(channel) <= 1
    /\ ppc \in {"recv", "remove", "accept", "save", "done"}
    /\ added \subseteq Blocks /\ last \in Blocks /\ removed \subseteq Blocks
    /\ acc_rows \subseteq Txs /\ tx_rows \subseteq Txs /\ addr_rows \subseteq Txs
    /\ mark_rows \subseteq Blocks
    /\ acceptances \in [Txs -> Blocks \cup {NoBlock}]
    /\ chain_rows \in [Blocks -> Nat]
    /\ inputs \in [Txs -> {"none", "raw", "resolved"}]
    /\ addresses \subseteq Txs
    /\ vcp_checkpoint \in Blocks \cup {NoBlock}
    /\ tip_distance \in TipDistances
    /\ shutdown \in BOOLEAN /\ restarts \in 0..MaxRestarts
    /\ pos \in Blocks /\ skipped \subseteq Blocks
    /\ unsaved \subseteq Blocks /\ lost \subseteq Blocks

\* What the index owes for: chain blocks up to pos, but for those that a start
\* passed over and no response has named since.
Indexed == Chain[pos] \ (skipped \ unsaved)

\* Between two responses transactions_acceptances is exactly the acceptance
\* data of the selected chain up to pos: each transaction accepted on it has its
\* accepting block, across any number of reorganisations, and no row names a
\* block that left the chain.  Exempt are the transactions of blocks that were
\* applied and not saved when the process ended, until a later response names
\* them: the restart asks for changes since the older checkpoint, which repairs
\* everything unless a reorganisation in between hides those blocks.  Exempt in
\* the same way are blocks that a start with -i passes over or leaves behind,
\* the inconsistencies that main.rs warns of.
\* (process_virtual_chain, accept_transactions, remove_chain_blocks)
AcceptancesExact ==
    (ppc = "recv" /\ On("TransactionAcceptance")) =>
        \A tx \in Txs \ Accepted(lost) :
            /\ \A b \in Indexed : tx \in Accepts[b] => acceptances[tx] = b
            /\ acceptances[tx] # NoBlock =>
                  /\ acceptances[tx] \in Chain[pos]
                  /\ tx \in Accepts[acceptances[tx]]

\* With transaction acceptance disabled: between two responses each chain block
\* up to pos is marked and no other block is, with the same exemption.  A mark
\* has no key, so a replay after a restart marks a block again: once for each
\* restart and never within one.  (add_chain_blocks, remove_chain_blocks)
MarksExact ==
    (ppc = "recv" /\ ~On("TransactionAcceptance")) =>
        \A b \in Blocks \ lost :
            /\ b \in Indexed => chain_rows[b] > 0
            /\ chain_rows[b] > 0 => b \in Chain[pos]
            /\ chain_rows[b] <= 1 + restarts

\* Every transaction accepted up to pos is stored with resolved inputs and with
\* its addresses, whichever of the two processors wrote the row first, whatever
\* crashed and wherever -i started.
\* (insert_txs with upsert_inputs, accept_transactions)
AcceptedResolved ==
    (ppc = "recv" /\ On("TransactionAcceptance")) =>
        \A tx \in Accepted(Indexed) :
            /\ On("TransactionsTable") => inputs[tx] = "resolved"
            /\ On("AddressesTransactionsTable") => tx \in addresses

\* A saved vcp_checkpoint never claims more than was applied: all transactions
\* accepted up to the checkpoint, but for blocks that a start passed over, have
\* an acceptance row or left with a block of a response that is being applied or
\* was lost.
\* (process_virtual_chain)
VcpCheckpointSafe ==
    (vcp_checkpoint # NoBlock /\ On("TransactionAcceptance")) =>
        \A b \in Chain[vcp_checkpoint] \ (skipped \cup unsaved \cup lost) :
            \A tx \in Accepts[b] \ Accepted(lost \cup unsaved) :
                acceptances[tx] = b

\* With all its statements, responses under way and crashes, the processor is an
\* index that moves along the chain: at every moment, and not only between two
\* responses, a row that appears or goes belongs to the response at hand, and the
\* checkpoint moves only when the table is exact.
\* (process_virtual_chain, with transaction acceptance)
Index == INSTANCE ChainIndex WITH
            rows <- acceptances, position <- pos, target <- last,
            checkpoint <- vcp_checkpoint, forgotten <- lost

ImplementsChainIndex == Index!Spec

\* After a shutdown signal both tasks end, whoever of the two ends first and
\* whatever is in the channel.  (fetch_virtual_chain, process_virtual_chain)
ShutdownCompletes ==
    shutdown ~> ~shutdown \/ (vfpc = "done" /\ ppc = "done")

\* If the selected chain of the node comes to rest, the index reaches the last
\* block with as many confirmations as the tip distance asks for, after any
\* reorganisations, failed saves and restarts.  (fetch_virtual_chain)
ChainFollowed ==
    \A b \in Blocks :
        <>[](sink = b /\ ~shutdown) =>
            <>[](Confirmed(sink, tip_distance) \subseteq Chain[pos])

\* Nothing is left to fetch, to apply or to save.
CaughtUp ==
    /\ start_hash = sink /\ pos = sink /\ vcp_checkpoint = sink
    /\ vfpc = "poll" /\ channel = <<>> /\ ppc = "recv"

\* "Disables transaction acceptance, marks chain blocks": once the index has
\* caught up, a marked block is a chain block.  (cli_args.rs)
MarksAreChainBlocks ==
    CaughtUp => \A b \in Blocks : chain_rows[b] > 0 => b \in Chain[sink]

=============================================================================
