----------------------- MODULE CheckpointSafetyProofs -----------------------
(***************************************************************************)
(* A saved block_checkpoint is safe to resume from, for every DAG, every   *)
(* queue capacity, batch size, cache behaviour and combination of --disable *)
(* flags, and for any number of crashes and restarts.                      *)
(***************************************************************************)
EXTENDS BlockPipelineProofs

-----------------------------------------------------------------------------
(***************************************************************************)
(* What a step leaves alone.                                               *)
(***************************************************************************)
blockSide == <<blockVars, blockTables, blocks_queue, skipped>>
txSide    == <<txVars, txTables, txs_queue, skipped>>
cpSide    == <<cpVars, checkpoint_queue, block_checkpoint>>

\* Steps that leave process_blocks and its tables alone keep its invariant.
LEMMA BlockSideFrame ==
    ASSUME UNCHANGED blockSide
    PROVE  /\ BlockStored' = BlockStored
           /\ BlockReached' = BlockReached
           /\ BlockHanded' = BlockHanded
           /\ BlockBatchInv => BlockBatchInv'
  <1>1. BlockStored' = BlockStored
    BY DEF blockSide, blockTables, BlockStored
  <1>2. BlockReached' = BlockReached
    BY <1>1 DEF blockSide, blockVars, BlockReached, Elems
  <1>3. BlockHanded' = BlockHanded
    BY <1>2 DEF blockSide, BlockHanded, Elems
  <1>4. BlockBatchInv => BlockBatchInv'
    BY <1>2 DEF blockSide, blockVars, blockTables, BlockBatchInv,
                ParentRowsHaveBlock, Covered, Elems
  <1> QED BY <1>1, <1>2, <1>3, <1>4

\* Steps that leave process_transactions and its tables alone keep its invariant.
LEMMA TxSideFrame ==
    ASSUME UNCHANGED txSide
    PROVE  /\ TxsStored' = TxsStored
           /\ TxsReached' = TxsReached
           /\ TxsHanded' = TxsHanded
           /\ TxBatchInv => TxBatchInv'
  <1>1. TxsStored' = TxsStored
    BY DEF txSide, txTables, TxsStored
  <1>2. TxsReached' = TxsReached
    BY <1>1 DEF txSide, txVars, TxsReached, Elems
  <1>3. TxsHanded' = TxsHanded
    BY <1>2 DEF txSide, TxsHanded, Elems
  <1>4. TxBatchInv => TxBatchInv'
    BY <1>2 DEF txSide, txVars, txTables, TxBatchInv, Covered, Elems
  <1> QED BY <1>1, <1>2, <1>3, <1>4

\* The fetcher's facts survive whatever the processors do, as long as blocks
\* only move forward.
LEMMA FetcherFrame ==
    ASSUME FetcherInv, UNCHANGED fetcherVars,
           BlockHanded \subseteq BlockHanded', TxsHanded \subseteq TxsHanded'
    PROVE  FetcherInv'
  BY DEF FetcherInv, fetcherVars

\* What was announced stays stored.
LEMMA CheckpointFrame ==
    ASSUME CheckpointInv, UNCHANGED cpSide,
           BlockStored \subseteq BlockStored', TxsStored \subseteq TxsStored',
           skipped \subseteq skipped'
    PROVE  CheckpointInv'
  BY DEF CheckpointInv, CheckpointSafe, Stored, BelowIn, cpSide, cpVars

\* Rows are never removed, so a stored block stays stored.
LEMMA BlockStoredGrows ==
    ASSUME blocks \subseteq blocks', block_parent \subseteq block_parent'
    PROVE  BlockStored \subseteq BlockStored'
  BY DEF BlockStored

\* Rows are never deleted: the blocks with all transaction rows only grow.
LEMMA TxsStoredGrows ==
    ASSUME transactions \subseteq transactions',
           addresses_transactions \subseteq addresses_transactions'
    PROVE  TxsStored \subseteq TxsStored'
  BY DEF TxsStored

-----------------------------------------------------------------------------
(***************************************************************************)
(* The initial states.                                                     *)
(***************************************************************************)
LEMMA InitInv == Init => IndInv
  <1> SUFFICES ASSUME Init PROVE IndInv
    OBVIOUS
  <1>1. TypeOK
    BY TypeInit
  <1>2. Elems(<<>>) = {} /\ Len(<<>>) = 0
    BY ElemsEmpty, EmptyFacts
  <1>3. BlockBatchInv
    BY <1>2 DEF Init, BlockBatchInv, ParentRowsHaveBlock, Covered
  <1>4. TxBatchInv
    BY <1>2 DEF Init, TxBatchInv, Covered
  <1>5. FetcherInv
    BY DEF Init, FetcherInv, BlockHanded, BlockReached, TxsHanded, TxsReached
  <1>6. CheckpointInv
    BY <1>2 DEF Init, CheckpointInv, CheckpointSafe
  <1> QED BY <1>1, <1>3, <1>4, <1>5, <1>6 DEF IndInv

-----------------------------------------------------------------------------
(***************************************************************************)
(* The fetcher hands blocks over in an order that respects their past.     *)
(***************************************************************************)
LEMMA InvGetBlocks == IndInv /\ GetBlocks => IndInv'
  <1> SUFFICES ASSUME IndInv, GetBlocks PROVE IndInv'
    OBVIOUS
  <1>1. TypeOK'
    BY TypeFetcher DEF IndInv, Fetcher
  <1>2. UNCHANGED blockSide /\ UNCHANGED txSide /\ UNCHANGED cpSide
    BY DEF GetBlocks, blockSide, txSide, cpSide, processVars
  <1>3. FetcherInv'
    <2>1. PICK S \in GetBlocksResponses(low_hash) : todo' = S \cup {low_hash}
      BY DEF GetBlocks
    <2>2. \A b \in S : Past[b] \subseteq S \cup Past[low_hash] \cup {low_hash}
      BY <2>1 DEF GetBlocksResponses
    <2>3. Past[low_hash] \subseteq BlockHanded \cap TxsHanded
      BY DEF GetBlocks, IndInv, FetcherInv
    <2>4. \A b \in todo' : Past[b] \subseteq todo' \cup (BlockHanded \cap TxsHanded)
      BY <2>1, <2>2, <2>3
    <2> QED
      BY <1>2, <2>4, BlockSideFrame, TxSideFrame
      DEF GetBlocks, IndInv, FetcherInv
  <1> QED
    BY <1>1, <1>2, <1>3, BlockSideFrame, TxSideFrame, CheckpointFrame
    DEF IndInv, blockSide

\* The block that is handled next has its past handed over already.
LEMMA NextIsCovered ==
    ASSUME IndInv, NEW b \in Blocks, NextInResponse(b)
    PROVE  Past[b] \subseteq BlockHanded \cap TxsHanded
  BY DEF IndInv, FetcherInv, NextInResponse

\* Once block b is handed over to both branches the loop may go on.
LEMMA BlockHandledInv ==
    ASSUME IndInv, NEW b \in Blocks, BlockHandled(b),
           Past[b] \subseteq BlockHanded \cap TxsHanded,
           b \in BlockHanded' \cap TxsHanded',
           BlockHanded \subseteq BlockHanded', TxsHanded \subseteq TxsHanded',
           block_cache' \subseteq block_cache \cup {b}
    PROVE  FetcherInv'
  <1>1. \A c \in todo' :
           Past[c] \subseteq todo' \cup (BlockHanded' \cap TxsHanded')
    BY DEF IndInv, FetcherInv, BlockHandled
  <1>2. fpc' = "poll" =>
           Past[low_hash'] \subseteq BlockHanded' \cap TxsHanded'
    BY DEF BlockHandled
  <1>3. fpc' # "tx"
    BY DEF BlockHandled
  <1>4. block_cache' \subseteq BlockHanded' \cap TxsHanded'
    BY DEF IndInv, FetcherInv
  <1> QED BY <1>1, <1>2, <1>3, <1>4 DEF FetcherInv

\* Skipping a block of block_cache loses nothing: it was handed over before.
LEMMA InvSkipKnownBlock ==
    ASSUME IndInv, NEW b \in Blocks, SkipKnownBlock(b)
    PROVE  IndInv'
  <1>1. TypeOK'
    BY TypeFetcher DEF IndInv, Fetcher
  <1>2. UNCHANGED blockSide /\ UNCHANGED txSide /\ UNCHANGED cpSide
    BY DEF SkipKnownBlock, blockSide, txSide, cpSide, processVars
  <1>3. FetcherInv'
    <2>1. b \in BlockHanded \cap TxsHanded
      BY DEF SkipKnownBlock, IndInv, FetcherInv
    <2>2. Past[b] \subseteq BlockHanded \cap TxsHanded
      BY NextIsCovered DEF SkipKnownBlock
    <2> QED
      BY <1>2, <2>1, <2>2, BlockSideFrame, TxSideFrame, BlockHandledInv
      DEF SkipKnownBlock
  <1> QED
    BY <1>1, <1>2, <1>3, BlockSideFrame, TxSideFrame, CheckpointFrame
    DEF IndInv, blockSide

\* The block pushed has its past ahead of it in blocks_queue or stored.
LEMMA InvPushBlock ==
    ASSUME IndInv, NEW b \in Blocks, PushBlock(b)
    PROVE  IndInv'
  <1>1. TypeOK'
    BY TypeFetcher DEF IndInv, Fetcher
  <1>2. /\ UNCHANGED txSide /\ UNCHANGED cpSide
        /\ UNCHANGED <<blockVars, blockTables, skipped>>
    BY DEF PushBlock, txSide, cpSide, processVars
  <1>3. Past[b] \subseteq BlockHanded \cap TxsHanded
    BY NextIsCovered DEF PushBlock
  <1>4. BlockStored' = BlockStored
    BY <1>2 DEF BlockStored, blockTables
  <1>5. BlockReached' = BlockReached
    BY <1>2, <1>4 DEF BlockReached, blockVars, Elems
  <1>6. blocks_queue \in Seq(Blocks) /\ blocks_queue' = Append(blocks_queue, b)
    BY DEF PushBlock, IndInv, TypeOK, QueueType
  <1>7. Elems(blocks_queue') = Elems(blocks_queue) \cup {b}
    BY <1>6, AppendFacts
  <1>8. BlockHanded' = BlockHanded \cup {b}
    BY <1>5, <1>7 DEF BlockHanded, Elems
  <1>9. Covered(blocks_queue', BlockReached)
    BY <1>3, <1>6, CoveredPush DEF IndInv, BlockBatchInv, BlockHanded
  <1>10. BlockBatchInv'
    BY <1>2, <1>5, <1>9
    DEF IndInv, BlockBatchInv, ParentRowsHaveBlock, blockVars, blockTables,
        Elems, Covered
  <1>11. FetcherInv'
    BY <1>2, <1>8, TxSideFrame
    DEF PushBlock, NextInResponse, IndInv, FetcherInv
  <1> QED
    BY <1>1, <1>2, <1>4, <1>10, <1>11, TxSideFrame, CheckpointFrame
    DEF IndInv

\* The same for txs_queue, and low_hash moves only after the last block.
LEMMA InvPushTransactions == IndInv /\ PushTransactions => IndInv'
  <1> SUFFICES ASSUME IndInv, PushTransactions PROVE IndInv'
    OBVIOUS
  <1> DEFINE b == block_hash
  <1>1. TypeOK'
    BY TypeFetcher DEF IndInv, Fetcher
  <1>2. /\ UNCHANGED blockSide /\ UNCHANGED cpSide
        /\ UNCHANGED <<txVars, txTables, skipped>>
    BY DEF PushTransactions, blockSide, cpSide, processVars
  <1>3. /\ b \in Blocks
        /\ b \in BlockHanded
        /\ Past[b] \subseteq BlockHanded \cap TxsHanded
    BY DEF PushTransactions, IndInv, FetcherInv, TypeOK, FetcherType
  <1>4. TxsStored' = TxsStored
    BY <1>2 DEF TxsStored, txTables
  <1>5. TxsReached' = TxsReached
    BY <1>2, <1>4 DEF TxsReached, txVars, Elems
  <1>6. txs_queue \in Seq(Blocks) /\ txs_queue' = Append(txs_queue, b)
    BY DEF PushTransactions, IndInv, TypeOK, QueueType
  <1>7. Elems(txs_queue') = Elems(txs_queue) \cup {b}
    BY <1>3, <1>6, AppendFacts
  <1>8. TxsHanded' = TxsHanded \cup {b}
    BY <1>5, <1>7 DEF TxsHanded, Elems
  <1>9. Covered(txs_queue', TxsReached)
    BY <1>3, <1>6, CoveredPush DEF IndInv, TxBatchInv, TxsHanded
  <1>10. TxBatchInv'
    BY <1>2, <1>5, <1>9
    DEF IndInv, TxBatchInv, txVars, txTables, Elems, Covered
  <1>11. FetcherInv'
    <2>1. BlockHandled(b) /\ block_cache' \subseteq block_cache \cup {b}
      BY DEF PushTransactions
    <2> QED BY <1>2, <1>3, <1>8, <2>1, BlockSideFrame, BlockHandledInv
  <1> QED
    BY <1>1, <1>2, <1>4, <1>10, <1>11, BlockSideFrame, CheckpointFrame
    DEF IndInv

\* Dropping the rest of a response leaves low_hash where it was.
LEMMA InvFetcherStop == IndInv /\ FetcherStop => IndInv'
  <1> SUFFICES ASSUME IndInv, FetcherStop PROVE IndInv'
    OBVIOUS
  <1>1. TypeOK'
    BY TypeFetcher DEF IndInv, Fetcher
  <1>2. UNCHANGED blockSide /\ UNCHANGED txSide /\ UNCHANGED cpSide
    BY DEF FetcherStop, blockSide, txSide, cpSide, processVars
  <1>3. FetcherInv'
    BY <1>2, BlockSideFrame, TxSideFrame DEF FetcherStop, IndInv, FetcherInv
  <1> QED
    BY <1>1, <1>2, <1>3, BlockSideFrame, TxSideFrame, CheckpointFrame
    DEF IndInv, blockSide

-----------------------------------------------------------------------------
(***************************************************************************)
(* process_blocks: a block is announced after its rows and those of its    *)
(* past are written.                                                       *)
(***************************************************************************)
LEMMA InvPopBlock ==
    ASSUME IndInv, NEW commit \in BOOLEAN, PopBlock(commit)
    PROVE  IndInv'
  <1> DEFINE b == Head(blocks_queue)
  <1>1. TypeOK'
    BY TypeBlockProcessor DEF IndInv, BlockProcessor
  <1>2. /\ UNCHANGED txSide /\ UNCHANGED cpSide /\ UNCHANGED fetcherVars
        /\ UNCHANGED <<blockTables, skipped>>
    BY DEF PopBlock, txSide, cpSide, processVars
  <1>3. /\ b \in Blocks
        /\ Elems(blocks_queue) = {b} \cup Elems(blocks_queue')
        /\ Elems(bcheckpoints') = Elems(bcheckpoints) \cup {b}
    BY TailFacts, AppendFacts
    DEF PopBlock, IndInv, TypeOK, QueueType, BlockProcessorType
  <1>4. BlockStored' = BlockStored
    BY <1>2 DEF BlockStored, blockTables
  <1>5. BlockReached' = BlockReached \cup {b}
    BY <1>2, <1>3, <1>4 DEF BlockReached, Elems
  <1>6. BlockHanded' = BlockHanded
    BY <1>3, <1>5 DEF BlockHanded, Elems
  <1>7. /\ Past[b] \subseteq BlockReached
        /\ Covered(blocks_queue', BlockReached')
    BY <1>5, CoveredPop DEF PopBlock, IndInv, BlockBatchInv, TypeOK, QueueType
  <1>8. BlockBatchInv'
    <2> HIDE DEF b
    <2>1. \A c \in Elems(bcheckpoints') :
             /\ On("BlocksTable") => c \in blocks' \cup brows'
             /\ On("BlockParentTable") => c \in block_parent' \cup prows'
             /\ Past[c] \subseteq BlockReached'
      BY <1>2, <1>3, <1>5, <1>7
      DEF PopBlock, IndInv, BlockBatchInv, blockTables, b
    <2>2. On("BlocksTable") =>
             block_parent' \cup prows' \subseteq blocks' \cup brows'
      BY <1>2 DEF PopBlock, IndInv, BlockBatchInv, blockTables
    <2>3. ParentRowsHaveBlock'
      BY <1>2 DEF IndInv, BlockBatchInv, ParentRowsHaveBlock, blockTables
    <2>4. bpc' # "push"
      BY DEF PopBlock
    <2> QED BY <1>7, <2>1, <2>2, <2>3, <2>4 DEF BlockBatchInv, Elems, Covered
  <1>9. FetcherInv'
    BY <1>2, <1>6, TxSideFrame, FetcherFrame DEF IndInv
  <1> QED
    BY <1>1, <1>2, <1>4, <1>8, <1>9, TxSideFrame, CheckpointFrame DEF IndInv

\* Writing rows only adds to what is stored.
LEMMA InvBlockRows ==
    ASSUME IndInv, TypeOK', UNCHANGED txSide, UNCHANGED cpSide,
           UNCHANGED <<fetcherVars, blocks_queue, bpc, bcheckpoints, skipped>>,
           blocks \subseteq blocks', block_parent \subseteq block_parent',
           blocks \cup brows = blocks' \cup brows',
           block_parent \cup prows = block_parent' \cup prows',
           brows' \subseteq brows, prows' \subseteq prows,
           ParentRowsHaveBlock'
    PROVE  IndInv'
  <1>1. BlockStored \subseteq BlockStored'
    BY BlockStoredGrows
  <1>2. BlockReached \subseteq BlockReached'
    BY <1>1 DEF BlockReached, Elems
  <1>3. BlockHanded \subseteq BlockHanded'
    BY <1>2 DEF BlockHanded, Elems
  <1>4. Covered(blocks_queue, BlockReached')
    BY <1>2, CoveredGrows DEF IndInv, BlockBatchInv
  <1>5. BlockBatchInv'
    BY <1>2, <1>4 DEF IndInv, BlockBatchInv, Elems, Covered
  <1>6. FetcherInv'
    BY <1>3, TxSideFrame, FetcherFrame DEF IndInv
  <1> QED
    BY <1>1, <1>5, <1>6, TxSideFrame, CheckpointFrame DEF IndInv

\* A chunk of insert_blocks moves rows from the batch to the table.
LEMMA InvInsertBlocks == IndInv /\ InsertBlocks => IndInv'
  <1> SUFFICES ASSUME IndInv, InsertBlocks PROVE IndInv'
    OBVIOUS
  <1>1. TypeOK'
    BY TypeBlockProcessor DEF IndInv, BlockProcessor
  <1>2. /\ UNCHANGED txSide /\ UNCHANGED cpSide
        /\ UNCHANGED <<fetcherVars, blocks_queue, bpc, bcheckpoints, skipped>>
        /\ UNCHANGED <<block_parent, prows>>
    BY DEF InsertBlocks, txSide, cpSide, processVars
  <1>3. /\ blocks \subseteq blocks'
        /\ blocks \cup brows = blocks' \cup brows'
        /\ brows' \subseteq brows
    BY DEF InsertBlocks
  <1>4. ParentRowsHaveBlock'
    BY <1>2, <1>3 DEF IndInv, BlockBatchInv, ParentRowsHaveBlock
  <1> QED BY <1>1, <1>2, <1>3, <1>4, InvBlockRows

\* A chunk of insert_block_parents comes after all rows of blocks.
LEMMA InvInsertBlockParents == IndInv /\ InsertBlockParents => IndInv'
  <1> SUFFICES ASSUME IndInv, InsertBlockParents PROVE IndInv'
    OBVIOUS
  <1>1. TypeOK'
    BY TypeBlockProcessor DEF IndInv, BlockProcessor
  <1>2. /\ UNCHANGED txSide /\ UNCHANGED cpSide
        /\ UNCHANGED <<fetcherVars, blocks_queue, bpc, bcheckpoints, skipped>>
        /\ UNCHANGED <<blocks, brows>>
    BY DEF InsertBlockParents, txSide, cpSide, processVars
  <1>3. /\ block_parent \subseteq block_parent'
        /\ block_parent \cup prows = block_parent' \cup prows'
        /\ prows' \subseteq prows
    BY DEF InsertBlockParents
  <1>4. ParentRowsHaveBlock'
    BY <1>2, <1>3 DEF InsertBlockParents, IndInv, BlockBatchInv,
                      ParentRowsHaveBlock
  <1> QED BY <1>1, <1>2, <1>3, <1>4, InvBlockRows

\* A change of pc that neither claims that rows are written nor moves any.
LEMMA InvBlockControl ==
    ASSUME IndInv, TypeOK', UNCHANGED txSide, UNCHANGED cpSide,
           UNCHANGED <<fetcherVars, blockTables, blocks_queue, bcheckpoints,
                       brows, prows, skipped>>,
           bpc' = "push" => brows = {} /\ prows = {}
    PROVE  IndInv'
  <1>1. BlockStored' = BlockStored
    BY DEF BlockStored, blockTables
  <1>2. BlockReached' = BlockReached
    BY <1>1 DEF BlockReached, Elems
  <1>3. BlockHanded' = BlockHanded
    BY <1>2 DEF BlockHanded, Elems
  <1>4. BlockBatchInv'
    BY <1>2 DEF IndInv, BlockBatchInv, ParentRowsHaveBlock, blockTables,
                Elems, Covered
  <1>5. FetcherInv'
    BY <1>3, TxSideFrame, FetcherFrame DEF IndInv
  <1> QED
    BY <1>1, <1>4, <1>5, TxSideFrame, CheckpointFrame DEF IndInv

\* A block is announced only when it and its past are in the tables.
LEMMA InvPushBlockCheckpoint == IndInv /\ PushBlockCheckpoint => IndInv'
  <1> SUFFICES ASSUME IndInv, PushBlockCheckpoint PROVE IndInv'
    OBVIOUS
  <1> DEFINE b == Head(bcheckpoints)
             e == [origin |-> "Blocks", hash |-> b]
  <1>1. TypeOK'
    BY TypeBlockProcessor DEF IndInv, BlockProcessor
  <1>2. /\ UNCHANGED txSide /\ UNCHANGED fetcherVars
        /\ UNCHANGED <<blockTables, blocks_queue, brows, prows, skipped,
                       cpVars, block_checkpoint>>
    BY DEF PushBlockCheckpoint, txSide, processVars
  <1>3. brows = {} /\ prows = {}
    BY DEF PushBlockCheckpoint, IndInv, BlockBatchInv
  <1>4. /\ b \in Blocks
        /\ Elems(bcheckpoints) = {b} \cup Elems(bcheckpoints')
        /\ Elems(bcheckpoints) \subseteq Blocks
    BY TailFacts, ElemsType
    DEF PushBlockCheckpoint, IndInv, TypeOK, BlockProcessorType
  <1>5. Elems(bcheckpoints) \subseteq BlockStored
    BY <1>3, <1>4 DEF IndInv, BlockBatchInv, BlockStored
  <1>6. BlockStored' = BlockStored
    BY <1>2 DEF BlockStored, blockTables
  <1>7. /\ BlockReached = BlockStored \cup skipped
        /\ BlockReached' = BlockReached
    BY <1>2, <1>4, <1>5, <1>6 DEF BlockReached, Elems
  <1>8. BlockHanded' = BlockHanded
    BY <1>2, <1>7 DEF BlockHanded, Elems
  <1>9. BelowIn(b, BlockStored \cup skipped)
    BY <1>4, <1>5, <1>7 DEF BelowIn, IndInv, BlockBatchInv
  <1>10. BlockBatchInv'
    <2>1. \A c \in Elems(bcheckpoints') :
             /\ On("BlocksTable") => c \in blocks' \cup brows'
             /\ On("BlockParentTable") => c \in block_parent' \cup prows'
             /\ Past[c] \subseteq BlockReached'
      BY <1>2, <1>4, <1>7 DEF IndInv, BlockBatchInv, blockTables
    <2>2. Covered(blocks_queue', BlockReached')
      BY <1>2, <1>7 DEF IndInv, BlockBatchInv
    <2>3. /\ On("BlocksTable") =>
               block_parent' \cup prows' \subseteq blocks' \cup brows'
          /\ ParentRowsHaveBlock'
          /\ brows' = {} /\ prows' = {}
      BY <1>2, <1>3
      DEF IndInv, BlockBatchInv, ParentRowsHaveBlock, blockTables
    <2> QED BY <2>1, <2>2, <2>3 DEF BlockBatchInv, Elems, Covered
  <1>11. FetcherInv'
    BY <1>2, <1>8, TxSideFrame, FetcherFrame DEF IndInv
  <1>12. CheckpointInv'
    <2>1. /\ checkpoint_queue \in Seq(Event)
          /\ e \in Event
          /\ checkpoint_queue' = Append(checkpoint_queue, e)
      BY <1>4 DEF PushBlockCheckpoint, IndInv, TypeOK, QueueType, Event
    <2>2. /\ Len(checkpoint_queue') = Len(checkpoint_queue) + 1
          /\ Len(checkpoint_queue) \in Nat
          /\ \A i \in 1..Len(checkpoint_queue) :
                checkpoint_queue'[i] = checkpoint_queue[i]
          /\ checkpoint_queue'[Len(checkpoint_queue) + 1] = e
      BY <2>1, AppendFacts
    <2>3. \A i \in 1..Len(checkpoint_queue') :
             \/ i \in 1..Len(checkpoint_queue)
             \/ i = Len(checkpoint_queue) + 1
      BY <2>2
    <2>4. e.origin = "Blocks" /\ e.hash = b
      OBVIOUS
    <2> HIDE DEF e, b
    <2>5. TxsStored' = TxsStored
      BY <1>2, TxSideFrame
    <2>6. \A i \in 1..Len(checkpoint_queue') :
            /\ checkpoint_queue'[i].origin = "Blocks" =>
                  BelowIn(checkpoint_queue'[i].hash, BlockStored \cup skipped)
            /\ checkpoint_queue'[i].origin = "Transactions" =>
                  BelowIn(checkpoint_queue'[i].hash, TxsStored \cup skipped)
      BY <1>9, <2>2, <2>3, <2>4 DEF IndInv, CheckpointInv
    <2> QED
      BY <1>2, <1>6, <2>5, <2>6
      DEF IndInv, CheckpointInv, CheckpointSafe, Stored, BelowIn, cpVars
  <1> QED BY <1>1, <1>2, <1>10, <1>11, <1>12, TxSideFrame DEF IndInv

\* process_blocks preserves the invariant.
LEMMA InvBlockProcessor == IndInv /\ BlockProcessor => IndInv'
  <1> SUFFICES ASSUME IndInv, BlockProcessor PROVE IndInv'
    OBVIOUS
  <1> USE DEF txSide, cpSide, processVars
  <1>1. TypeOK'
    BY TypeBlockProcessor DEF IndInv
  <1>2. CASE BlocksCommitted
    BY <1>1, <1>2, InvBlockControl DEF BlocksCommitted
  <1>3. CASE BlockProcessorStop
    BY <1>1, <1>3, InvBlockControl DEF BlockProcessorStop
  <1> QED
    BY <1>2, <1>3, InvPopBlock, InvInsertBlocks, InvInsertBlockParents,
       InvPushBlockCheckpoint
    DEF BlockProcessor

-----------------------------------------------------------------------------
(***************************************************************************)
(* process_transactions: the same, where a transaction that tx_id_cache    *)
(* knows is left out because it is written or waits to be written.         *)
(***************************************************************************)
LEMMA InvPopTransactions ==
    ASSUME IndInv, NEW commit \in BOOLEAN, PopTransactions(commit)
    PROVE  IndInv'
  <1> DEFINE b == Head(txs_queue)
  <1>1. TypeOK'
    BY TypeTransactionProcessor DEF IndInv, TransactionProcessor
  <1>2. /\ UNCHANGED blockSide /\ UNCHANGED cpSide /\ UNCHANGED fetcherVars
        /\ UNCHANGED <<txTables, skipped>>
    BY DEF PopTransactions, blockSide, cpSide, processVars
  <1>3. /\ b \in Blocks
        /\ Elems(txs_queue) = {b} \cup Elems(txs_queue')
        /\ Elems(tcheckpoints') = Elems(tcheckpoints) \cup {b}
    BY TailFacts, AppendFacts
    DEF PopTransactions, IndInv, TypeOK, QueueType, TransactionProcessorType
  <1>4. TxsStored' = TxsStored
    BY <1>2 DEF TxsStored, txTables
  <1>5. TxsReached' = TxsReached \cup {b}
    BY <1>2, <1>3, <1>4 DEF TxsReached, Elems
  <1>6. TxsHanded' = TxsHanded
    BY <1>3, <1>5 DEF TxsHanded, Elems
  <1>7. /\ Past[b] \subseteq TxsReached
        /\ Covered(txs_queue', TxsReached')
    BY <1>5, CoveredPop
    DEF PopTransactions, IndInv, TxBatchInv, TypeOK, QueueType
  <1>8. TxBatchInv'
    <2>1. /\ trows \subseteq trows' /\ arows \subseteq arows'
          /\ ~On("RejectedTransactions") => trows' = trows /\ arows' = arows
      BY DEF PopTransactions
    <2>2. ASSUME TxWrites("TransactionsTable")
          PROVE  /\ TxsOf[b] \subseteq transactions' \cup trows'
                 /\ tx_id_cache' \subseteq transactions' \cup trows'
      BY <1>2, <2>2
      DEF TxWrites, PopTransactions, CacheHits, IndInv, TxBatchInv, txTables
    <2>3. ASSUME TxWrites("AddressesTransactionsTable")
          PROVE  /\ TxsOf[b] \subseteq addresses_transactions' \cup arows'
                 /\ tx_id_cache' \subseteq addresses_transactions' \cup arows'
      BY <1>2, <2>3
      DEF TxWrites, PopTransactions, CacheHits, IndInv, TxBatchInv, txTables
    <2> HIDE DEF b
    <2>4. \A c \in Elems(tcheckpoints') :
             /\ TxWrites("TransactionsTable")
                  => TxsOf[c] \subseteq transactions' \cup trows'
             /\ TxWrites("AddressesTransactionsTable")
                  => TxsOf[c] \subseteq addresses_transactions' \cup arows'
             /\ Past[c] \subseteq TxsReached'
      BY <1>2, <1>3, <1>5, <1>7, <2>1, <2>2, <2>3
      DEF IndInv, TxBatchInv, txTables
    <2>5. tpc' = "push" \/ ~On("RejectedTransactions")
             => trows' = {} /\ arows' = {}
      BY <2>1 DEF PopTransactions, IndInv, TxBatchInv
    <2> QED
      BY <1>7, <2>2, <2>3, <2>4, <2>5 DEF TxBatchInv, TxWrites, Elems, Covered
  <1>9. FetcherInv'
    BY <1>2, <1>6, BlockSideFrame, FetcherFrame DEF IndInv
  <1> QED
    BY <1>1, <1>2, <1>4, <1>8, <1>9, BlockSideFrame, CheckpointFrame DEF IndInv

\* A change of pc that neither claims that rows are written nor moves any.
LEMMA InvTxControl ==
    ASSUME IndInv, TypeOK', UNCHANGED blockSide, UNCHANGED cpSide,
           UNCHANGED <<fetcherVars, txTables, txs_queue, tcheckpoints, trows,
                       arows, tx_id_cache, skipped>>,
           tpc' = "push" => trows = {} /\ arows = {}
    PROVE  IndInv'
  <1>1. TxsStored' = TxsStored
    BY DEF TxsStored, txTables
  <1>2. TxsReached' = TxsReached
    BY <1>1 DEF TxsReached, Elems
  <1>3. TxsHanded' = TxsHanded
    BY <1>2 DEF TxsHanded, Elems
  <1>4. TxBatchInv'
    BY <1>2 DEF IndInv, TxBatchInv, TxWrites, txTables, Elems, Covered
  <1>5. FetcherInv'
    BY <1>3, BlockSideFrame, FetcherFrame DEF IndInv
  <1> QED
    BY <1>1, <1>4, <1>5, BlockSideFrame, CheckpointFrame DEF IndInv

\* Writing rows only adds to what is stored.
LEMMA InvTxRows ==
    ASSUME IndInv, TypeOK', UNCHANGED blockSide, UNCHANGED cpSide,
           UNCHANGED <<fetcherVars, txs_queue, tpc, tcheckpoints, tx_id_cache,
                       skipped>>,
           transactions \subseteq transactions',
           addresses_transactions \subseteq addresses_transactions',
           transactions \cup trows = transactions' \cup trows',
           addresses_transactions \cup arows
             = addresses_transactions' \cup arows',
           trows' \subseteq trows, arows' \subseteq arows
    PROVE  IndInv'
  <1>1. TxsStored \subseteq TxsStored'
    BY TxsStoredGrows
  <1>2. TxsReached \subseteq TxsReached'
    BY <1>1 DEF TxsReached, Elems
  <1>3. TxsHanded \subseteq TxsHanded'
    BY <1>2 DEF TxsHanded, Elems
  <1>4. Covered(txs_queue, TxsReached')
    BY <1>2, CoveredGrows DEF IndInv, TxBatchInv
  <1>5. TxBatchInv'
    BY <1>2, <1>4 DEF IndInv, TxBatchInv, TxWrites, Elems, Covered
  <1>6. FetcherInv'
    BY <1>3, BlockSideFrame, FetcherFrame DEF IndInv
  <1> QED
    BY <1>1, <1>5, <1>6, BlockSideFrame, CheckpointFrame DEF IndInv

\* Transactions are announced only when they and those below are stored.
LEMMA InvPushTransactionsCheckpoint ==
    IndInv /\ PushTransactionsCheckpoint => IndInv'
  <1> SUFFICES ASSUME IndInv, PushTransactionsCheckpoint PROVE IndInv'
    OBVIOUS
  <1> DEFINE b == Head(tcheckpoints)
             e == [origin |-> "Transactions", hash |-> b]
  <1>1. TypeOK'
    BY TypeTransactionProcessor DEF IndInv, TransactionProcessor
  <1>2. /\ UNCHANGED blockSide /\ UNCHANGED fetcherVars
        /\ UNCHANGED <<txTables, txs_queue, trows, arows, tx_id_cache, skipped,
                       cpVars, block_checkpoint>>
    BY DEF PushTransactionsCheckpoint, blockSide, processVars
  <1>3. trows = {} /\ arows = {}
    BY DEF PushTransactionsCheckpoint, IndInv, TxBatchInv
  <1>4. /\ b \in Blocks
        /\ Elems(tcheckpoints) = {b} \cup Elems(tcheckpoints')
        /\ Elems(tcheckpoints) \subseteq Blocks
    BY TailFacts, ElemsType
    DEF PushTransactionsCheckpoint, IndInv, TypeOK, TransactionProcessorType
  <1>5. Elems(tcheckpoints) \subseteq TxsStored
    BY <1>3, <1>4 DEF IndInv, TxBatchInv, TxsStored, TxWrites
  <1>6. TxsStored' = TxsStored
    BY <1>2 DEF TxsStored, txTables
  <1>7. /\ TxsReached = TxsStored \cup skipped
        /\ TxsReached' = TxsReached
    BY <1>2, <1>4, <1>5, <1>6 DEF TxsReached, Elems
  <1>8. TxsHanded' = TxsHanded
    BY <1>2, <1>7 DEF TxsHanded, Elems
  <1>9. BelowIn(b, TxsStored \cup skipped)
    BY <1>4, <1>5, <1>7 DEF BelowIn, IndInv, TxBatchInv
  <1>10. TxBatchInv'
    <2>1. \A c \in Elems(tcheckpoints') :
             /\ TxWrites("TransactionsTable")
                  => TxsOf[c] \subseteq transactions' \cup trows'
             /\ TxWrites("AddressesTransactionsTable")
                  => TxsOf[c] \subseteq addresses_transactions' \cup arows'
             /\ Past[c] \subseteq TxsReached'
      BY <1>2, <1>4, <1>7 DEF IndInv, TxBatchInv, txTables
    <2>2. Covered(txs_queue', TxsReached')
      BY <1>2, <1>7 DEF IndInv, TxBatchInv
    <2>3. /\ TxWrites("TransactionsTable")
               => tx_id_cache' \subseteq transactions' \cup trows'
          /\ TxWrites("AddressesTransactionsTable")
               => tx_id_cache' \subseteq addresses_transactions' \cup arows'
          /\ trows' = {} /\ arows' = {}
      BY <1>2, <1>3 DEF IndInv, TxBatchInv, txTables
    <2> QED BY <2>1, <2>2, <2>3 DEF TxBatchInv, TxWrites, Elems, Covered
  <1>11. FetcherInv'
    BY <1>2, <1>8, BlockSideFrame, FetcherFrame DEF IndInv
  <1>12. CheckpointInv'
    <2>1. /\ checkpoint_queue \in Seq(Event)
          /\ e \in Event
          /\ checkpoint_queue' = Append(checkpoint_queue, e)
      BY <1>4 DEF PushTransactionsCheckpoint, IndInv, TypeOK, QueueType, Event
    <2>2. /\ Len(checkpoint_queue') = Len(checkpoint_queue) + 1
          /\ Len(checkpoint_queue) \in Nat
          /\ \A i \in 1..Len(checkpoint_queue) :
                checkpoint_queue'[i] = checkpoint_queue[i]
          /\ checkpoint_queue'[Len(checkpoint_queue) + 1] = e
      BY <2>1, AppendFacts
    <2>3. \A i \in 1..Len(checkpoint_queue') :
             \/ i \in 1..Len(checkpoint_queue)
             \/ i = Len(checkpoint_queue) + 1
      BY <2>2
    <2>4. e.origin = "Transactions" /\ e.hash = b
      OBVIOUS
    <2> HIDE DEF e, b
    <2>5. BlockStored' = BlockStored
      BY <1>2, BlockSideFrame
    <2>6. \A i \in 1..Len(checkpoint_queue') :
            /\ checkpoint_queue'[i].origin = "Blocks" =>
                  BelowIn(checkpoint_queue'[i].hash, BlockStored \cup skipped)
            /\ checkpoint_queue'[i].origin = "Transactions" =>
                  BelowIn(checkpoint_queue'[i].hash, TxsStored \cup skipped)
      BY <1>9, <2>2, <2>3, <2>4 DEF IndInv, CheckpointInv
    <2> QED
      BY <1>2, <1>6, <2>5, <2>6
      DEF IndInv, CheckpointInv, CheckpointSafe, Stored, BelowIn, cpVars
  <1> QED BY <1>1, <1>2, <1>10, <1>11, <1>12, BlockSideFrame DEF IndInv

\* process_transactions preserves the invariant.
LEMMA InvTransactionProcessor == IndInv /\ TransactionProcessor => IndInv'
  <1> SUFFICES ASSUME IndInv, TransactionProcessor PROVE IndInv'
    OBVIOUS
  <1> USE DEF blockSide, cpSide, processVars
  <1>1. TypeOK'
    BY TypeTransactionProcessor DEF IndInv
  <1>2. CASE VcpCaughtUp
    BY <1>1, <1>2, InvTxControl DEF VcpCaughtUp
  <1>3. CASE InsertTransactions
    <2>1. /\ transactions \subseteq transactions'
          /\ transactions \cup trows = transactions' \cup trows'
          /\ trows' \subseteq trows
      BY <1>3 DEF InsertTransactions
    <2> QED BY <1>1, <1>3, <2>1, InvTxRows DEF InsertTransactions
  <1>4. CASE InsertAddressTransactions
    <2>1. /\ addresses_transactions \subseteq addresses_transactions'
          /\ addresses_transactions \cup arows
                = addresses_transactions' \cup arows'
          /\ arows' \subseteq arows
      BY <1>4 DEF InsertAddressTransactions
    <2> QED BY <1>1, <1>4, <2>1, InvTxRows DEF InsertAddressTransactions
  <1>5. CASE TransactionsCommitted
    BY <1>1, <1>5, InvTxControl DEF TransactionsCommitted
  <1>6. CASE TransactionProcessorStop
    BY <1>1, <1>6, InvTxControl DEF TransactionProcessorStop
  <1> QED
    BY <1>2, <1>3, <1>4, <1>5, <1>6, InvPopTransactions,
       InvPushTransactionsCheckpoint
    DEF TransactionProcessor

-----------------------------------------------------------------------------
(***************************************************************************)
(* process_checkpoints: a checkpoint is saved only when both processors    *)
(* announced it.                                                           *)
(***************************************************************************)
LEMMA InvCheckpointEvent ==
    ASSUME IndInv, NEW due \in BOOLEAN, NEW warn \in BOOLEAN,
           CheckpointEvent(due, warn)
    PROVE  IndInv'
  <1> DEFINE e == Head(checkpoint_queue)
             B == BlockStored \cup skipped
             T == TxsStored \cup skipped
             cand == CandidateAfter(e, due)
  <1>1. TypeOK'
    BY TypeCheckpointProcessor DEF IndInv, CheckpointProcessor
  <1>2. UNCHANGED blockSide /\ UNCHANGED txSide /\ UNCHANGED fetcherVars
    BY DEF CheckpointEvent, blockSide, txSide, processVars
  <1>3. /\ BlockStored' = BlockStored /\ BlockHanded' = BlockHanded
        /\ TxsStored' = TxsStored /\ TxsHanded' = TxsHanded
        /\ skipped' = skipped
        /\ BlockBatchInv' /\ TxBatchInv'
    BY <1>2, BlockSideFrame, TxSideFrame DEF IndInv, blockSide
  <1>4. /\ checkpoint_queue \in Seq(Event)
        /\ checkpoint_queue # <<>>
        /\ checkpoint_queue' = Tail(checkpoint_queue)
    BY DEF CheckpointEvent, IndInv, TypeOK, QueueType
  <1>5. /\ e \in Event
        /\ e = checkpoint_queue[1]
        /\ Len(checkpoint_queue) \in Nat \ {0}
        /\ Len(checkpoint_queue') = Len(checkpoint_queue) - 1
        /\ \A i \in 1..Len(checkpoint_queue') :
              checkpoint_queue'[i] = checkpoint_queue[i + 1]
    BY <1>4, TailFacts
  <1>6. /\ e.hash \in Blocks
        /\ e.origin = "Blocks" => BelowIn(e.hash, B)
        /\ e.origin = "Transactions" => BelowIn(e.hash, T)
    <2>1. 1 \in 1..Len(checkpoint_queue)
      BY <1>5
    <2> QED BY <1>5, <2>1 DEF IndInv, CheckpointInv, Event
  <1>7. \A i \in 1..Len(checkpoint_queue') :
           /\ checkpoint_queue'[i].origin = "Blocks"
                => BelowIn(checkpoint_queue'[i].hash, B)
           /\ checkpoint_queue'[i].origin = "Transactions"
                => BelowIn(checkpoint_queue'[i].hash, T)
    <2>1. \A i \in 1..Len(checkpoint_queue') : i + 1 \in 1..Len(checkpoint_queue)
      BY <1>5
    <2> QED BY <1>5, <2>1 DEF IndInv, CheckpointInv
  <1>8. Decide(e, due, warn)
    BY DEF CheckpointEvent
  <1>9. candidate \in Blocks \cup {NoBlock} /\ cp_ok_txs \in BOOLEAN
    BY DEF IndInv, TypeOK, CheckpointProcessorType
  <1> HIDE DEF e
  <1>10. cand # NoBlock => cand \in Blocks /\ BelowIn(cand, B)
    BY <1>6, <1>9 DEF CandidateAfter, Picks, IndInv, CheckpointInv
  <1>11. \A b \in TxsProcessedAfter(e) : BelowIn(b, T)
    BY <1>6 DEF TxsProcessedAfter, IndInv, CheckpointInv
  <1>12. CpOkAfter(e, due) /\ cand # NoBlock => BelowIn(cand, T)
    <2>1. CASE ~On("TransactionProcessing")
      <3>1. TxsStored = Blocks
        BY <2>1 DEF TxsStored
      <3> QED BY <1>10, <3>1, PastAssumption DEF BelowIn
    <2>2. CASE cand \in TxsProcessedAfter(e)
      BY <1>11, <2>2
    <2>3. CASE ~Picks(e, due) /\ cp_ok_txs
      BY <2>3 DEF CandidateAfter, IndInv, CheckpointInv
    <2> QED BY <2>1, <2>2, <2>3 DEF CpOkAfter
  <1> HIDE DEF cand, B, T
  <1>13. \/ /\ candidate' = NoBlock
            /\ txs_processed' = TxsProcessedAfter(e)
            /\ block_checkpoint' = block_checkpoint
         \/ /\ candidate' = NoBlock
            /\ txs_processed' = {}
            /\ block_checkpoint' = cand
            /\ BelowIn(cand, B) /\ BelowIn(cand, T)
         \/ /\ candidate' = NoBlock \/ (candidate' = cand /\ BelowIn(cand, B))
            /\ cp_ok_txs' = FALSE
            /\ txs_processed' = {}
            /\ block_checkpoint' = block_checkpoint
    <2>1. CASE cand = NoBlock
      <3>1. candidate = NoBlock
        BY <1>6, <2>1, DataAssumption DEF cand, CandidateAfter
      <3> QED BY <1>8, <2>1, <3>1 DEF Decide, cand
    <2>2. CASE cand # NoBlock /\ CpOkAfter(e, due)
      <3>1. /\ candidate' = NoBlock
            /\ txs_processed' = {}
            /\ block_checkpoint' = cand
        BY <1>8, <2>2 DEF Decide, cand
      <3> QED BY <1>10, <1>12, <2>2, <3>1
    <2>3. CASE cand # NoBlock /\ ~CpOkAfter(e, due)
      <3>1. /\ candidate' = NoBlock \/ candidate' = cand
            /\ cp_ok_txs' = FALSE
            /\ txs_processed' = {}
            /\ block_checkpoint' = block_checkpoint
        BY <1>8, <2>3 DEF Decide, cand
      <3> QED BY <1>10, <2>3, <3>1
    <2> QED BY <2>1, <2>2, <2>3
  <1>14. CheckpointSafe'
    <2>1. CASE block_checkpoint' = block_checkpoint
      BY <1>3, <2>1 DEF IndInv, CheckpointInv, CheckpointSafe, Stored
    <2>2. CASE block_checkpoint' = cand /\ BelowIn(cand, B) /\ BelowIn(cand, T)
      BY <1>3, <2>2 DEF CheckpointSafe, Stored, BelowIn, B, T
    <2> QED BY <1>13, <2>1, <2>2
  <1>15. CheckpointInv'
    <2>1. \A b \in txs_processed' : BelowIn(b, T)
      BY <1>11, <1>13
    <2>2. candidate' # NoBlock => candidate' = cand /\ BelowIn(cand, B)
      BY <1>13
    <2>3. candidate' # NoBlock => ~cp_ok_txs'
      BY <1>13
    <2> QED
      BY <1>3, <1>7, <1>14, <2>1, <2>2, <2>3
      DEF CheckpointInv, BelowIn, B, T
  <1>16. FetcherInv'
    BY <1>2, <1>3, FetcherFrame DEF IndInv
  <1> QED BY <1>1, <1>3, <1>15, <1>16 DEF IndInv

\* process_checkpoints preserves the invariant.
LEMMA InvCheckpointProcessor == IndInv /\ CheckpointProcessor => IndInv'
  <1> SUFFICES ASSUME IndInv, CheckpointProcessor PROVE IndInv'
    OBVIOUS
  <1>1. CASE CheckpointProcessorStop
    <2>1. TypeOK'
      BY TypeCheckpointProcessor DEF IndInv
    <2>2. UNCHANGED blockSide /\ UNCHANGED txSide /\ UNCHANGED fetcherVars
      BY <1>1 DEF CheckpointProcessorStop, blockSide, txSide, processVars
    <2>3. /\ BlockStored' = BlockStored /\ BlockHanded' = BlockHanded
          /\ TxsStored' = TxsStored /\ TxsHanded' = TxsHanded
          /\ skipped' = skipped
          /\ BlockBatchInv' /\ TxBatchInv'
      BY <2>2, BlockSideFrame, TxSideFrame DEF IndInv, blockSide
    <2>4. CheckpointInv'
      BY <1>1, <2>3
      DEF CheckpointProcessorStop, IndInv, CheckpointInv, CheckpointSafe,
          Stored, BelowIn
    <2>5. FetcherInv'
      BY <2>2, <2>3, FetcherFrame DEF IndInv
    <2> QED BY <2>1, <2>3, <2>4, <2>5 DEF IndInv
  <1> QED BY <1>1, InvCheckpointEvent DEF CheckpointProcessor

-----------------------------------------------------------------------------
(***************************************************************************)
(* A crash loses the queues and the batches; the checkpoint and what was   *)
(* given up account for everything below the block the process resumes at. *)
(***************************************************************************)
LEMMA InvBoot ==
    ASSUME IndInv, TypeOK', NEW start \in Blocks, Boot(start),
           UNCHANGED <<blockTables, txTables, block_checkpoint>>,
           skipped \subseteq skipped',
           Past[start] \subseteq Stored \cup skipped'
    PROVE  IndInv'
  <1>1. Elems(<<>>) = {} /\ Len(<<>>) = 0
    BY ElemsEmpty, EmptyFacts
  <1>2. BlockStored' = BlockStored /\ TxsStored' = TxsStored
    BY DEF BlockStored, TxsStored, blockTables, txTables
  <1>3. BlockBatchInv'
    BY <1>1 DEF Boot, IndInv, BlockBatchInv, ParentRowsHaveBlock, blockTables,
                Covered, Elems
  <1>4. TxBatchInv'
    BY <1>1 DEF Boot, TxBatchInv, Covered, Elems
  <1>5. Past[start] \subseteq BlockHanded' /\ Past[start] \subseteq TxsHanded'
    BY <1>2 DEF Stored, BlockHanded, BlockReached, TxsHanded, TxsReached
  <1>6. FetcherInv'
    BY <1>5 DEF Boot, FetcherInv
  <1>7. CheckpointInv'
    BY <1>1, <1>2
    DEF Boot, IndInv, CheckpointInv, CheckpointSafe, Stored
  <1> QED BY <1>3, <1>4, <1>6, <1>7 DEF IndInv

\* A signal and a restart preserve the invariant.
LEMMA InvProcess == IndInv /\ (Shutdown \/ Restart) => IndInv'
  <1> SUFFICES ASSUME IndInv, Shutdown \/ Restart PROVE IndInv'
    OBVIOUS
  <1>1. TypeOK'
    BY TypeProcess DEF IndInv
  <1>2. CASE Shutdown
    <2>1. UNCHANGED blockSide /\ UNCHANGED txSide /\ UNCHANGED cpSide
          /\ UNCHANGED fetcherVars
      BY <1>2 DEF Shutdown, blockSide, txSide, cpSide
    <2>2. FetcherInv'
      BY <2>1, BlockSideFrame, TxSideFrame, FetcherFrame DEF IndInv
    <2> QED
      BY <1>1, <2>1, <2>2, BlockSideFrame, TxSideFrame, CheckpointFrame
      DEF IndInv, blockSide
  <1>3. CASE RestartFromCheckpoint
    <2>1. block_checkpoint \in Blocks /\ Boot(block_checkpoint)
      BY <1>3 DEF RestartFromCheckpoint, IndInv, TypeOK, DatabaseType
    <2>2. Past[block_checkpoint] \subseteq Stored \cup skipped
      BY <1>3 DEF RestartFromCheckpoint, IndInv, CheckpointInv, CheckpointSafe
    <2> QED BY <1>1, <1>3, <2>1, <2>2, InvBoot DEF RestartFromCheckpoint
  <1>4. ASSUME NEW start \in StartPoints, RestartFromStartPoint(start)
        PROVE  IndInv'
    <2>1. start \in Blocks
      BY DataAssumption
    <2> QED BY <1>1, <1>4, <2>1, InvBoot DEF RestartFromStartPoint
  <1> QED BY <1>2, <1>3, <1>4 DEF Restart

-----------------------------------------------------------------------------
\* Every step preserves the invariant.
LEMMA InvStep == IndInv /\ [Next]_vars => IndInv'
  <1> SUFFICES ASSUME IndInv, [Next]_vars PROVE IndInv'
    OBVIOUS
  <1>1. CASE Fetcher
    BY <1>1, InvGetBlocks, InvSkipKnownBlock, InvPushBlock,
       InvPushTransactions, InvFetcherStop
    DEF Fetcher
  <1>2. CASE UNCHANGED vars
    <2>1. UNCHANGED blockSide /\ UNCHANGED txSide /\ UNCHANGED cpSide
          /\ UNCHANGED fetcherVars
      BY <1>2 DEF vars, blockSide, txSide, cpSide, processVars
    <2>2. TypeOK'
      BY <1>2, TypeStep DEF IndInv
    <2>3. FetcherInv'
      BY <2>1, BlockSideFrame, TxSideFrame, FetcherFrame DEF IndInv
    <2> QED
      BY <2>1, <2>2, <2>3, BlockSideFrame, TxSideFrame, CheckpointFrame
      DEF IndInv, blockSide
  <1> QED
    BY <1>1, <1>2, InvBlockProcessor, InvTransactionProcessor,
       InvCheckpointProcessor, InvProcess
    DEF Next

\* The inductive invariant holds in every reachable state.
LEMMA InductiveInvariant == Spec => []IndInv
  BY InitInv, InvStep, PTL DEF Spec

\* Whatever crashes, restarts, duplicates and batch boundaries happen, a saved
\* block_checkpoint has its whole past in every enabled table, apart from what
\* a start at a named block gave up.
THEOREM CheckpointIsSafe == Spec => []CheckpointSafe
  <1>1. IndInv => CheckpointSafe
    BY DEF IndInv, CheckpointInv
  <1> QED BY <1>1, InductiveInvariant, PTL

\* low_hash never runs ahead of what was handed over to both processors.
THEOREM LowHashIsCovered == Spec => []LowHashCovered
  <1>1. IndInv => LowHashCovered
    BY DEF IndInv, FetcherInv, LowHashCovered
  <1> QED BY <1>1, InductiveInvariant, PTL

\* No crash leaves rows of block_parent without their row of blocks.
THEOREM ParentRowsFollowBlocks == Spec => []ParentRowsHaveBlock
  <1>1. IndInv => ParentRowsHaveBlock
    BY DEF IndInv, BlockBatchInv
  <1> QED BY <1>1, InductiveInvariant, PTL

-----------------------------------------------------------------------------
(***************************************************************************)
(* The pipeline implements CheckpointedIndex.                              *)
(***************************************************************************)

\* A step that only writes rows, or none, is a Store step or a stutter.
LEMMA StoreStep ==
    ASSUME BlockStored \subseteq BlockStored', TxsStored \subseteq TxsStored',
           UNCHANGED <<block_checkpoint, skipped>>
    PROVE  Index!Next
  <1>1. Stored \subseteq Stored' /\ Stored' \subseteq Blocks
    BY DEF Stored, BlockStored
  <1> QED BY <1>1 DEF Index!Next, Index!Store

\* Every step of the pipeline is a step of the index or leaves it unchanged.
LEMMA RefinementStep == IndInv /\ [Next]_vars => [Index!Next]_(Index!vars)
  <1> SUFFICES ASSUME IndInv, [Next]_vars PROVE [Index!Next]_(Index!vars)
    OBVIOUS
  <1>1. CASE \/ Fetcher \/ BlockProcessor \/ TransactionProcessor \/ Shutdown
             \/ CheckpointProcessorStop \/ UNCHANGED vars
    <2>1. /\ blocks \subseteq blocks' /\ block_parent \subseteq block_parent'
          /\ transactions \subseteq transactions'
          /\ addresses_transactions \subseteq addresses_transactions'
          /\ UNCHANGED <<block_checkpoint, skipped>>
      <3> USE DEF blockTables, txTables, processVars
      <3>1. CASE Fetcher
        BY <3>1 DEF Fetcher, GetBlocks, SkipKnownBlock, PushBlock,
                    PushTransactions, FetcherStop
      <3>2. CASE BlockProcessor
        BY <3>2 DEF BlockProcessor, PopBlock, InsertBlocks, InsertBlockParents,
                    BlocksCommitted, PushBlockCheckpoint, BlockProcessorStop
      <3>3. CASE TransactionProcessor
        BY <3>3 DEF TransactionProcessor, PopTransactions, VcpCaughtUp,
                    InsertTransactions, InsertAddressTransactions,
                    TransactionsCommitted, PushTransactionsCheckpoint,
                    TransactionProcessorStop
      <3>4. CASE Shutdown
        BY <3>4 DEF Shutdown
      <3>5. CASE CheckpointProcessorStop
        BY <3>5 DEF CheckpointProcessorStop
      <3>6. CASE UNCHANGED vars
        BY <3>6 DEF vars
      <3> QED BY <1>1, <3>1, <3>2, <3>3, <3>4, <3>5, <3>6
    <2> QED BY <2>1, BlockStoredGrows, TxsStoredGrows, StoreStep
  <1>2. ASSUME NEW due \in BOOLEAN, NEW warn \in BOOLEAN,
               CheckpointEvent(due, warn)
        PROVE  [Index!Next]_(Index!vars)
    <2>1. /\ BlockStored' = BlockStored /\ TxsStored' = TxsStored
          /\ skipped' = skipped
      BY <1>2 DEF CheckpointEvent, BlockStored, TxsStored, blockTables,
                  txTables, processVars
    <2>2. Decide(Head(checkpoint_queue), due, warn)
      BY <1>2 DEF CheckpointEvent
    <2>3. block_checkpoint' = block_checkpoint \/ block_checkpoint' # NoBlock
      BY <2>2 DEF Decide
    <2>4. CASE block_checkpoint' = block_checkpoint
      BY <2>1, <2>4, StoreStep
    <2>5. CASE block_checkpoint' # NoBlock
      <3>1. IndInv'
        BY <1>2, InvCheckpointEvent
      <3>2. block_checkpoint' \in Blocks
        BY <2>5, <3>1 DEF IndInv, TypeOK, DatabaseType
      <3>3. {block_checkpoint'} \cup Past[block_checkpoint']
              \subseteq Stored \cup skipped
        BY <2>1, <2>5, <3>1 DEF IndInv, CheckpointInv, CheckpointSafe, Stored
      <3>4. UNCHANGED <<Stored, skipped>>
        BY <2>1 DEF Stored
      <3>5. Index!Save(block_checkpoint')
        BY <3>3, <3>4 DEF Index!Save
      <3> QED BY <3>2, <3>5 DEF Index!Next
    <2> QED BY <2>3, <2>4, <2>5
  <1>3. CASE RestartFromCheckpoint
    <2>1. BlockStored' = BlockStored /\ TxsStored' = TxsStored
      BY <1>3 DEF RestartFromCheckpoint, BlockStored, TxsStored, blockTables,
                  txTables
    <2> QED BY <1>3, <2>1, StoreStep DEF RestartFromCheckpoint
  <1>4. ASSUME NEW start \in StartPoints, RestartFromStartPoint(start)
        PROVE  [Index!Next]_(Index!vars)
    <2>1. BlockStored' = BlockStored /\ TxsStored' = TxsStored
      BY <1>4 DEF RestartFromStartPoint, BlockStored, TxsStored, blockTables,
                  txTables
    <2>2. UNCHANGED <<Stored, block_checkpoint>>
      BY <1>4, <2>1 DEF RestartFromStartPoint, Stored
    <2>3. Index!StartAt(start)
      BY <1>4, <2>2 DEF RestartFromStartPoint, Index!StartAt
    <2> QED BY <2>3 DEF Index!Next
  <1> QED
    BY <1>1, <1>2, <1>3, <1>4 DEF Next, CheckpointProcessor, Restart

\* The pipeline, with its queues, batches, caches and crashes, implements an
\* index that only grows and whose checkpoint never claims more than it holds.
THEOREM PipelineImplementsIndex == Spec => ImplementsIndex
  <1>1. Init => Index!Init
    BY DEF Init, Index!Init, Stored, BlockStored
  <1> QED
    BY <1>1, RefinementStep, InductiveInvariant, PTL
    DEF Spec, ImplementsIndex, Index!Spec
=============================================================================
