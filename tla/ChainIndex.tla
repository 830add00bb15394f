----------------------------- MODULE ChainIndex -----------------------------
(***************************************************************************)
(* What the virtual chain processor promises to a reader of its tables,    *)
(* with nothing of how it is done: an index that moves from one chain      *)
(* block to the next, writes only rows of the blocks that the move         *)
(* concerns, has arrived only when its rows are exactly what the chain     *)
(* accepts, and saves a checkpoint only there.  A start resumes at the     *)
(* checkpoint, or where its operator wants, and forgets which blocks it    *)
(* moved over since.                                                       *)
(***************************************************************************)
CONSTANTS Blocks, Txs, Chain, Accepts, NoBlock, StartPoints, IgnoreCheckpoints

VARIABLES
    rows,        \* the accepting block of each transaction, or NoBlock
    position,    \* where the index arrived last
    target,      \* where it is going, or position
    checkpoint,  \* where a restart resumes, or NoBlock
    skipped,     \* blocks that a start passed over
    unsaved,     \* blocks it moved over since the checkpoint was saved
    forgotten    \* blocks it moved over and forgot or left behind, not met since

vars == <<rows, position, target, checkpoint, skipped, unsaved, forgotten>>

\* The rows are those of the chain up to b, but for the transactions of some
\* blocks.
Exact(b, except) ==
    \A tx \in Txs : (\A c \in except : tx \notin Accepts[c]) =>
        /\ \A c \in Chain[b] \ (skipped \ unsaved) : tx \in Accepts[c] => rows[tx] = c
        /\ rows[tx] # NoBlock => rows[tx] \in Chain[b] /\ tx \in Accepts[rows[tx]]

Init ==
    /\ rows = [tx \in Txs |-> NoBlock]
    /\ position \in StartPoints \cup IgnoreCheckpoints /\ target = position
    /\ skipped = Chain[position]
    /\ checkpoint = NoBlock
    /\ unsaved = {} /\ forgotten = {}

\* The index leaves for a block that is new to its chain.
Leave(b) ==
    /\ target = position
    /\ b \notin Chain[position]
    /\ target' = b
    /\ unsaved' = unsaved \cup (Chain[position] \ Chain[b]) \cup (Chain[b] \ Chain[position])
    /\ UNCHANGED <<rows, position, checkpoint, skipped, forgotten>>

\* Rows of blocks that are no longer on the chain are deleted.
Delete(bs) ==
    /\ rows' = [tx \in Txs |-> IF rows[tx] \in bs THEN NoBlock ELSE rows[tx]]
    /\ UNCHANGED <<position, target, checkpoint, skipped, unsaved, forgotten>>

\* Transactions get a row of the block that accepts them, if they have none.
Insert(txs) ==
    /\ rows' \in [Txs -> Blocks \cup {NoBlock}]
    /\ \A tx \in Txs :
          IF tx \in txs /\ rows[tx] = NoBlock
          THEN rows'[tx] \in Chain[target] \ Chain[position] /\ tx \in Accepts[rows'[tx]]
          ELSE rows'[tx] = rows[tx]
    /\ UNCHANGED <<position, target, checkpoint, skipped, unsaved, forgotten>>

\* The index is where it was going, and may save that.
Arrive(saved) ==
    /\ target # position
    /\ position' = target
    /\ forgotten' = forgotten \ unsaved
    /\ Exact(target, forgotten')
    /\ IF saved THEN /\ checkpoint' = target
                     /\ skipped' = skipped \ unsaved
                     /\ unsaved' = {}
       ELSE UNCHANGED <<checkpoint, skipped, unsaved>>
    /\ UNCHANGED <<rows, target>>

Restart(b) ==
    /\ \/ b = checkpoint
       \/ checkpoint = NoBlock /\ b \in StartPoints
       \/ b \in IgnoreCheckpoints
    /\ position' = b /\ target' = b
    /\ skipped' = IF b = checkpoint THEN skipped
                  ELSE skipped \cup (Chain[b] \ Chain[position])
    /\ forgotten' = forgotten \cup unsaved \cup (Chain[position] \ Chain[b])
    /\ unsaved' = {}
    /\ UNCHANGED <<rows, checkpoint>>

Next ==
    \/ \E b \in Blocks : Leave(b) \/ Restart(b)
    \/ \E bs \in SUBSET (Chain[position] \ Chain[target]) : Delete(bs)
    \/ \E txs \in SUBSET Txs : Insert(txs)
    \/ \E saved \in BOOLEAN : Arrive(saved)

Spec == Init /\ [][Next]_vars

=============================================================================
