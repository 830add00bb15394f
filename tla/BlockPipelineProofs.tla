------------------------ MODULE BlockPipelineProofs ------------------------
(***************************************************************************)
(* TLAPS proofs about BlockPipeline.                                       *)
(***************************************************************************)
EXTENDS BlockPipeline, TLAPS

-----------------------------------------------------------------------------
(***************************************************************************)
(* Sequences as FIFO queues.                                               *)
(***************************************************************************)

\* Appending adds one element (ArrayQueue::push, Vec::push).
LEMMA AppendFacts ==
    ASSUME NEW S, NEW q \in Seq(S), NEW e \in S
    PROVE  /\ Append(q, e) \in Seq(S)
           /\ Len(Append(q, e)) = Len(q) + 1
           /\ Append(q, e) # <<>>
           /\ \A i \in 1..Len(q) : Append(q, e)[i] = q[i]
           /\ Append(q, e)[Len(q) + 1] = e
           /\ Elems(Append(q, e)) = Elems(q) \cup {e}
  <1>1. /\ Append(q, e) \in Seq(S)
        /\ Len(Append(q, e)) = Len(q) + 1
        /\ Append(q, e) # <<>>
        /\ \A i \in 1..Len(q) : Append(q, e)[i] = q[i]
        /\ Append(q, e)[Len(q) + 1] = e
    OBVIOUS
  <1>2. Elems(Append(q, e)) = Elems(q) \cup {e}
    <2>1. 1..(Len(q) + 1) = (1..Len(q)) \cup {Len(q) + 1}
      OBVIOUS
    <2> QED BY <1>1, <2>1 DEF Elems
  <1> QED BY <1>1, <1>2

\* Popping splits the head from the rest (ArrayQueue::pop).
LEMMA TailFacts ==
    ASSUME NEW S, NEW q \in Seq(S), q # <<>>
    PROVE  /\ Head(q) \in S
           /\ Head(q) = q[1]
           /\ Tail(q) \in Seq(S)
           /\ Len(q) \in Nat \ {0}
           /\ Len(Tail(q)) = Len(q) - 1
           /\ \A i \in 1..Len(Tail(q)) : Tail(q)[i] = q[i + 1]
           /\ Elems(q) = {Head(q)} \cup Elems(Tail(q))
  <1>1. /\ Head(q) \in S
        /\ Head(q) = q[1]
        /\ Tail(q) \in Seq(S)
        /\ Len(q) \in Nat \ {0}
        /\ Len(Tail(q)) = Len(q) - 1
        /\ \A i \in 1..Len(Tail(q)) : Tail(q)[i] = q[i + 1]
    OBVIOUS
  <1>2. Elems(q) = {Head(q)} \cup Elems(Tail(q))
    <2>1. ASSUME NEW i \in 1..Len(q), i # 1
          PROVE  i - 1 \in 1..Len(Tail(q)) /\ q[i] = Tail(q)[i - 1]
      BY <1>1, <2>1
    <2>2. ASSUME NEW i \in 1..Len(Tail(q))
          PROVE  i + 1 \in 1..Len(q) /\ Tail(q)[i] = q[i + 1]
      BY <1>1
    <2>3. 1 \in 1..Len(q)
      BY <1>1
    <2>4. Elems(q) \subseteq {Head(q)} \cup Elems(Tail(q))
      <3>1. ASSUME NEW i \in 1..Len(q)
            PROVE  q[i] \in {Head(q)} \cup Elems(Tail(q))
        BY <1>1, <2>1 DEF Elems
      <3> QED BY <3>1 DEF Elems
    <2>5. {Head(q)} \cup Elems(Tail(q)) \subseteq Elems(q)
      <3>1. Head(q) \in Elems(q)
        BY <1>1, <2>3 DEF Elems
      <3>2. Elems(Tail(q)) \subseteq Elems(q)
        BY <2>2 DEF Elems
      <3> QED BY <3>1, <3>2
    <2> QED BY <2>4, <2>5
  <1> QED BY <1>1, <1>2

\* What a queue holds is of the type of the queue.
LEMMA ElemsType ==
    ASSUME NEW S, NEW q \in Seq(S)
    PROVE  Elems(q) \subseteq S
  BY DEF Elems

\* The empty queue.
LEMMA EmptyFacts ==
    ASSUME NEW S
    PROVE  <<>> \in Seq(S) /\ Len(<<>>) = 0
  OBVIOUS

\* An empty queue holds nothing.
LEMMA ElemsEmpty == Elems(<<>>) = {}
  BY DEF Elems

\* A queue stays covered when more is known, when a covered block is pushed
\* and when its head moves to what is known.
LEMMA CoveredGrows ==
    ASSUME NEW q, NEW X, NEW Y, X \subseteq Y, Covered(q, X)
    PROVE  Covered(q, Y)
  BY DEF Covered

\* Pushing a block whose past is already ahead of it keeps a queue covered.
LEMMA CoveredPush ==
    ASSUME NEW q \in Seq(Blocks), NEW X, NEW b \in Blocks,
           Covered(q, X), Past[b] \subseteq X \cup Elems(q)
    PROVE  Covered(Append(q, b), X)
  <1> DEFINE r == Append(q, b)
  <1>1. SUFFICES ASSUME NEW i \in 1..Len(r)
                 PROVE  Past[r[i]] \subseteq X \cup {r[j] : j \in 1..(i-1)}
    BY DEF Covered
  <1>2. /\ Len(q) \in Nat
        /\ Len(r) = Len(q) + 1
        /\ \A j \in 1..Len(q) : r[j] = q[j]
        /\ r[Len(q) + 1] = b
    BY AppendFacts
  <1> HIDE DEF r
  <1>3. {r[j] : j \in 1..(i-1)} = {q[j] : j \in 1..(i-1)}
    <2>1. \A j \in 1..(i-1) : r[j] = q[j]
      BY <1>2
    <2> QED BY <2>1
  <1>4. CASE i \in 1..Len(q)
    BY <1>2, <1>3, <1>4 DEF Covered
  <1>5. CASE i = Len(q) + 1
    BY <1>2, <1>3, <1>5 DEF Elems
  <1> QED BY <1>2, <1>4, <1>5

\* Popping keeps a queue covered when the popped block counts as reached.
LEMMA CoveredPop ==
    ASSUME NEW q \in Seq(Blocks), NEW X, q # <<>>, Covered(q, X)
    PROVE  /\ Past[Head(q)] \subseteq X
           /\ Covered(Tail(q), X \cup {Head(q)})
  <1>1. /\ Head(q) = q[1]
        /\ Len(q) \in Nat \ {0}
        /\ Len(Tail(q)) = Len(q) - 1
        /\ \A i \in 1..Len(Tail(q)) : Tail(q)[i] = q[i + 1]
    BY TailFacts
  <1>2. Past[Head(q)] \subseteq X
    <2>1. 1 \in 1..Len(q) /\ 1..(1-1) = {}
      BY <1>1
    <2> QED BY <1>1, <2>1 DEF Covered
  <1>3. ASSUME NEW i \in 1..Len(Tail(q))
        PROVE  Past[Tail(q)[i]] \subseteq
                 (X \cup {Head(q)}) \cup {Tail(q)[j] : j \in 1..(i-1)}
    <2>1. i + 1 \in 1..Len(q) /\ Tail(q)[i] = q[i + 1]
      BY <1>1
    <2>2. Past[q[i + 1]] \subseteq X \cup {q[j] : j \in 1..((i + 1) - 1)}
      BY <2>1 DEF Covered
    <2>3. ASSUME NEW j \in 1..((i + 1) - 1)
          PROVE  q[j] \in {Head(q)} \cup {Tail(q)[k] : k \in 1..(i-1)}
      <3>1. CASE j = 1
        BY <1>1, <3>1
      <3>2. CASE j # 1
        <4>1. j - 1 \in 1..(i - 1) /\ q[j] = Tail(q)[j - 1]
          BY <1>1, <3>2
        <4> QED BY <4>1
      <3> QED BY <3>1, <3>2
    <2> QED BY <2>1, <2>2, <2>3
  <1> QED BY <1>2, <1>3 DEF Covered

-----------------------------------------------------------------------------
(***************************************************************************)
(* Type correctness                                                        *)
(***************************************************************************)
LEMMA TypeInit == Init => TypeOK
  <1> SUFFICES ASSUME Init PROVE TypeOK
    OBVIOUS
  <1>1. low_hash \in Blocks /\ Past[low_hash] \subseteq Blocks
    BY PastAssumption, DataAssumption DEF Init
  <1>2. FetcherType
    BY <1>1 DEF Init, FetcherType
  <1>3. QueueType
    BY EmptyFacts, ConfigAssumption DEF Init, QueueType
  <1>4. BlockProcessorType
    BY EmptyFacts, ConfigAssumption DEF Init, BlockProcessorType
  <1>5. TransactionProcessorType
    BY EmptyFacts, ConfigAssumption DEF Init, TransactionProcessorType
  <1>6. CheckpointProcessorType
    BY DEF Init, CheckpointProcessorType
  <1>7. DatabaseType
    BY DEF Init, DatabaseType
  <1>8. ProcessType
    <2>1. restarts \in 0..MaxRestarts
      BY ConfigAssumption DEF Init
    <2>2. skipped \subseteq Blocks
      BY <1>1 DEF Init
    <2> QED BY <2>1, <2>2 DEF Init, ProcessType
  <1> QED BY <1>2, <1>3, <1>4, <1>5, <1>6, <1>7, <1>8 DEF TypeOK

\* A step that leaves a task's variables alone keeps their types.
LEMMA TypeFrame ==
    /\ FetcherType /\ UNCHANGED fetcherVars => FetcherType'
    /\ QueueType /\ UNCHANGED <<blocks_queue, txs_queue, checkpoint_queue>>
          => QueueType'
    /\ BlockProcessorType /\ UNCHANGED blockVars => BlockProcessorType'
    /\ TransactionProcessorType /\ UNCHANGED txVars
          => TransactionProcessorType'
    /\ CheckpointProcessorType /\ UNCHANGED cpVars => CheckpointProcessorType'
    /\ DatabaseType /\ UNCHANGED <<blockTables, txTables, block_checkpoint>>
          => DatabaseType'
    /\ ProcessType /\ UNCHANGED processVars => ProcessType'
  BY DEF FetcherType, QueueType, BlockProcessorType, TransactionProcessorType,
         CheckpointProcessorType, DatabaseType, ProcessType, fetcherVars,
         blockVars, txVars, cpVars, blockTables, txTables, processVars

\* fetch_blocks preserves the types and the capacity of its queues.
LEMMA TypeFetcher == TypeOK /\ Fetcher => TypeOK'
  <1> SUFFICES ASSUME TypeOK, Fetcher PROVE TypeOK'
    OBVIOUS
  <1>1. CASE GetBlocks
    <2>1. FetcherType'
      BY <1>1 DEF GetBlocks, GetBlocksResponses, TypeOK, FetcherType
    <2> QED BY <1>1, <2>1, TypeFrame DEF GetBlocks, TypeOK
  <1>2. ASSUME NEW b \in Blocks, SkipKnownBlock(b) PROVE TypeOK'
    <2>1. FetcherType'
      BY <1>2 DEF SkipKnownBlock, BlockHandled, TypeOK, FetcherType
    <2> QED BY <1>2, <2>1, TypeFrame DEF SkipKnownBlock, TypeOK
  <1>3. ASSUME NEW b \in Blocks, PushBlock(b) PROVE TypeOK'
    <2>1. FetcherType'
      BY <1>3 DEF PushBlock, TypeOK, FetcherType
    <2>2. QueueType'
      BY <1>3, AppendFacts, ConfigAssumption DEF PushBlock, TypeOK, QueueType
    <2> QED BY <1>3, <2>1, <2>2, TypeFrame DEF PushBlock, TypeOK
  <1>4. CASE PushTransactions
    <2>1. FetcherType'
      BY <1>4 DEF PushTransactions, BlockHandled, TypeOK, FetcherType
    <2>2. QueueType'
      BY <1>4, AppendFacts, ConfigAssumption
      DEF PushTransactions, TypeOK, QueueType, FetcherType
    <2> QED BY <1>4, <2>1, <2>2, TypeFrame DEF PushTransactions, TypeOK
  <1>5. CASE FetcherStop
    <2>1. FetcherType'
      BY <1>5 DEF FetcherStop, TypeOK, FetcherType
    <2> QED BY <1>5, <2>1, TypeFrame DEF FetcherStop, TypeOK
  <1> QED BY <1>1, <1>2, <1>3, <1>4, <1>5 DEF Fetcher

\* process_blocks preserves the types and the size of its batch.
LEMMA TypeBlockProcessor == TypeOK /\ BlockProcessor => TypeOK'
  <1> SUFFICES ASSUME TypeOK, BlockProcessor PROVE TypeOK'
    OBVIOUS
  <1>1. ASSUME NEW commit \in BOOLEAN, PopBlock(commit) PROVE TypeOK'
    <2>1. Head(blocks_queue) \in Blocks /\ QueueType'
      BY <1>1, TailFacts, ConfigAssumption DEF PopBlock, TypeOK, QueueType
    <2>2. /\ bcheckpoints' \in Seq(Blocks)
          /\ Len(bcheckpoints') = Len(bcheckpoints) + 1
          /\ bcheckpoints' # <<>>
      BY <1>1, <2>1, AppendFacts DEF PopBlock, TypeOK, BlockProcessorType
    <2>3. BlockProcessorType'
      BY <1>1, <2>1, <2>2, ConfigAssumption
      DEF PopBlock, TypeOK, BlockProcessorType
    <2> QED BY <1>1, <2>1, <2>3, TypeFrame DEF PopBlock, TypeOK
  <1>2. CASE InsertBlocks
    <2>1. BlockProcessorType' /\ DatabaseType'
      BY <1>2 DEF InsertBlocks, TypeOK, BlockProcessorType, DatabaseType,
                  txTables
    <2> QED BY <1>2, <2>1, TypeFrame DEF InsertBlocks, TypeOK
  <1>3. CASE InsertBlockParents
    <2>1. BlockProcessorType' /\ DatabaseType'
      BY <1>3 DEF InsertBlockParents, TypeOK, BlockProcessorType, DatabaseType,
                  txTables
    <2> QED BY <1>3, <2>1, TypeFrame DEF InsertBlockParents, TypeOK
  <1>4. CASE BlocksCommitted
    <2>1. BlockProcessorType'
      BY <1>4 DEF BlocksCommitted, TypeOK, BlockProcessorType
    <2> QED BY <1>4, <2>1, TypeFrame DEF BlocksCommitted, TypeOK
  <1>5. CASE PushBlockCheckpoint
    <2>1. /\ Head(bcheckpoints) \in Blocks
          /\ bcheckpoints' \in Seq(Blocks)
          /\ Len(bcheckpoints') < BlockBatch
      BY <1>5, TailFacts, ConfigAssumption
      DEF PushBlockCheckpoint, TypeOK, BlockProcessorType
    <2>2. [origin |-> "Blocks", hash |-> Head(bcheckpoints)] \in Event
      BY <2>1 DEF Event
    <2>3. QueueType'
      BY <1>5, <2>2, AppendFacts, ConfigAssumption
      DEF PushBlockCheckpoint, TypeOK, QueueType
    <2>4. BlockProcessorType'
      BY <1>5, <2>1, ConfigAssumption
      DEF PushBlockCheckpoint, TypeOK, BlockProcessorType
    <2> QED BY <1>5, <2>3, <2>4, TypeFrame DEF PushBlockCheckpoint, TypeOK
  <1>6. CASE BlockProcessorStop
    <2>1. BlockProcessorType'
      BY <1>6 DEF BlockProcessorStop, TypeOK, BlockProcessorType
    <2> QED BY <1>6, <2>1, TypeFrame DEF BlockProcessorStop, TypeOK
  <1> QED BY <1>1, <1>2, <1>3, <1>4, <1>5, <1>6 DEF BlockProcessor

\* process_transactions preserves the types and the size of its batch.
LEMMA TypeTransactionProcessor == TypeOK /\ TransactionProcessor => TypeOK'
  <1> SUFFICES ASSUME TypeOK, TransactionProcessor PROVE TypeOK'
    OBVIOUS
  <1>1. ASSUME NEW commit \in BOOLEAN, PopTransactions(commit) PROVE TypeOK'
    <2>1. Head(txs_queue) \in Blocks /\ QueueType'
      BY <1>1, TailFacts, ConfigAssumption
      DEF PopTransactions, TypeOK, QueueType
    <2>2. /\ tcheckpoints' \in Seq(Blocks)
          /\ Len(tcheckpoints') = Len(tcheckpoints) + 1
          /\ tcheckpoints' # <<>>
      BY <1>1, <2>1, AppendFacts
      DEF PopTransactions, TypeOK, TransactionProcessorType
    <2>3. trows' \subseteq Txs /\ arows' \subseteq Txs /\ tx_id_cache' \subseteq Txs
      BY <1>1, <2>1, DataAssumption
      DEF PopTransactions, TypeOK, TransactionProcessorType
    <2>4. /\ tpc' \in {"pop", "wait", "push"}
          /\ Len(tcheckpoints) < TxBatch
          /\ tpc' = "pop" => ~(Len(tcheckpoints') >= TxBatch)
      BY <1>1 DEF PopTransactions, TypeOK, TransactionProcessorType
    <2>5. TransactionProcessorType'
      BY <2>2, <2>3, <2>4, ConfigAssumption
      DEF TypeOK, TransactionProcessorType
    <2> QED BY <1>1, <2>1, <2>5, TypeFrame DEF PopTransactions, TypeOK
  <1>2. CASE VcpCaughtUp
    <2>1. TransactionProcessorType'
      BY <1>2 DEF VcpCaughtUp, TypeOK, TransactionProcessorType
    <2> QED BY <1>2, <2>1, TypeFrame DEF VcpCaughtUp, TypeOK
  <1>3. CASE InsertTransactions
    <2>1. TransactionProcessorType' /\ DatabaseType'
      BY <1>3 DEF InsertTransactions, TypeOK, TransactionProcessorType,
                  DatabaseType, blockTables
    <2> QED BY <1>3, <2>1, TypeFrame DEF InsertTransactions, TypeOK
  <1>4. CASE InsertAddressTransactions
    <2>1. TransactionProcessorType' /\ DatabaseType'
      BY <1>4 DEF InsertAddressTransactions, TypeOK, TransactionProcessorType,
                  DatabaseType, blockTables
    <2> QED BY <1>4, <2>1, TypeFrame DEF InsertAddressTransactions, TypeOK
  <1>5. CASE TransactionsCommitted
    <2>1. TransactionProcessorType'
      BY <1>5 DEF TransactionsCommitted, TypeOK, TransactionProcessorType
    <2> QED BY <1>5, <2>1, TypeFrame DEF TransactionsCommitted, TypeOK
  <1>6. CASE PushTransactionsCheckpoint
    <2>1. /\ Head(tcheckpoints) \in Blocks
          /\ tcheckpoints' \in Seq(Blocks)
          /\ Len(tcheckpoints') < TxBatch
      BY <1>6, TailFacts, ConfigAssumption
      DEF PushTransactionsCheckpoint, TypeOK, TransactionProcessorType
    <2>2. [origin |-> "Transactions", hash |-> Head(tcheckpoints)] \in Event
      BY <2>1 DEF Event
    <2>3. QueueType'
      BY <1>6, <2>2, AppendFacts, ConfigAssumption
      DEF PushTransactionsCheckpoint, TypeOK, QueueType
    <2>4. TransactionProcessorType'
      BY <1>6, <2>1, ConfigAssumption
      DEF PushTransactionsCheckpoint, TypeOK, TransactionProcessorType
    <2> QED
      BY <1>6, <2>3, <2>4, TypeFrame DEF PushTransactionsCheckpoint, TypeOK
  <1>7. CASE TransactionProcessorStop
    <2>1. TransactionProcessorType'
      BY <1>7 DEF TransactionProcessorStop, TypeOK, TransactionProcessorType
    <2> QED BY <1>7, <2>1, TypeFrame DEF TransactionProcessorStop, TypeOK
  <1> QED
    BY <1>1, <1>2, <1>3, <1>4, <1>5, <1>6, <1>7 DEF TransactionProcessor

\* process_checkpoints preserves the types.
LEMMA TypeCheckpointProcessor == TypeOK /\ CheckpointProcessor => TypeOK'
  <1> SUFFICES ASSUME TypeOK, CheckpointProcessor PROVE TypeOK'
    OBVIOUS
  <1>1. ASSUME NEW due \in BOOLEAN, NEW warn \in BOOLEAN,
               CheckpointEvent(due, warn)
        PROVE  TypeOK'
    <2> DEFINE e == Head(checkpoint_queue)
    <2>1. e \in Event /\ QueueType'
      BY <1>1, TailFacts, ConfigAssumption
      DEF CheckpointEvent, TypeOK, QueueType
    <2>2. e.hash \in Blocks /\ e.origin \in {"Blocks", "Transactions"}
      BY <2>1 DEF Event
    <2>3. last_block_blue' \in Nat /\ last_tx_blue' \in Nat
      BY <1>1, <2>2, DataAssumption
      DEF CheckpointEvent, TypeOK, CheckpointProcessorType
    <2>4. CandidateAfter(e, due) \in Blocks \cup {NoBlock}
      BY <2>2 DEF CandidateAfter, TypeOK, CheckpointProcessorType
    <2>5. TxsProcessedAfter(e) \subseteq Blocks
      BY <2>2 DEF TxsProcessedAfter, TypeOK, CheckpointProcessorType
    <2>6. Decide(e, due, warn)
      BY <1>1 DEF CheckpointEvent
    <2> HIDE DEF e
    <2>7. /\ candidate' \in Blocks \cup {NoBlock}
          /\ cp_ok_txs' \in BOOLEAN
          /\ txs_processed' \subseteq Blocks
          /\ block_checkpoint' \in Blocks \cup {NoBlock}
      BY <2>4, <2>5, <2>6
      DEF Decide, TypeOK, CheckpointProcessorType, DatabaseType
    <2>8. CheckpointProcessorType' /\ DatabaseType'
      BY <1>1, <2>3, <2>7
      DEF CheckpointEvent, TypeOK, CheckpointProcessorType, DatabaseType,
          blockTables, txTables
    <2> QED BY <1>1, <2>1, <2>8, TypeFrame DEF CheckpointEvent, TypeOK
  <1>2. CASE CheckpointProcessorStop
    <2>1. CheckpointProcessorType'
      BY <1>2 DEF CheckpointProcessorStop, TypeOK, CheckpointProcessorType
    <2> QED BY <1>2, <2>1, TypeFrame DEF CheckpointProcessorStop, TypeOK
  <1> QED BY <1>1, <1>2 DEF CheckpointProcessor

\* What start_processing builds is well typed.
LEMMA TypeBoot ==
    ASSUME NEW start \in Blocks, Boot(start)
    PROVE  /\ FetcherType' /\ QueueType' /\ BlockProcessorType'
           /\ TransactionProcessorType' /\ CheckpointProcessorType'
  <1>1. FetcherType'
    BY DEF Boot, FetcherType
  <1>2. QueueType'
    BY EmptyFacts, ConfigAssumption DEF Boot, QueueType
  <1>3. BlockProcessorType'
    BY EmptyFacts, ConfigAssumption DEF Boot, BlockProcessorType
  <1>4. TransactionProcessorType'
    BY EmptyFacts, ConfigAssumption DEF Boot, TransactionProcessorType
  <1>5. CheckpointProcessorType'
    BY DEF Boot, CheckpointProcessorType
  <1> QED BY <1>1, <1>2, <1>3, <1>4, <1>5

\* A signal and a restart preserve the types.
LEMMA TypeProcess == TypeOK /\ (Shutdown \/ Restart) => TypeOK'
  <1> SUFFICES ASSUME TypeOK, Shutdown \/ Restart PROVE TypeOK'
    OBVIOUS
  <1>1. CASE Shutdown
    <2>1. ProcessType'
      BY <1>1 DEF Shutdown, TypeOK, ProcessType
    <2> QED BY <1>1, <2>1, TypeFrame DEF Shutdown, TypeOK
  <1>2. CASE RestartFromCheckpoint
    <2>1. block_checkpoint \in Blocks /\ Boot(block_checkpoint)
      BY <1>2 DEF RestartFromCheckpoint, TypeOK, DatabaseType
    <2>2. ProcessType'
      <3>1. restarts' \in 0..MaxRestarts
        BY <1>2, ConfigAssumption DEF RestartFromCheckpoint, TypeOK, ProcessType
      <3>2. skipped' \subseteq Blocks
        BY <1>2 DEF RestartFromCheckpoint, TypeOK, ProcessType
      <3>3. shutdown' \in BOOLEAN
        BY <2>1 DEF Boot
      <3> QED BY <3>1, <3>2, <3>3 DEF ProcessType
    <2>3. DatabaseType'
      BY <1>2, TypeFrame DEF RestartFromCheckpoint, TypeOK
    <2> QED BY <2>1, <2>2, <2>3, TypeBoot DEF TypeOK
  <1>3. ASSUME NEW start \in StartPoints, RestartFromStartPoint(start)
        PROVE  TypeOK'
    <2>1. start \in Blocks /\ Boot(start)
      BY <1>3, DataAssumption DEF RestartFromStartPoint
    <2>2. ProcessType'
      <3>1. restarts' \in 0..MaxRestarts
        BY <1>3, ConfigAssumption DEF RestartFromStartPoint, TypeOK, ProcessType
      <3>2. skipped' \subseteq Blocks
        BY <1>3, <2>1, PastAssumption
        DEF RestartFromStartPoint, TypeOK, ProcessType
      <3>3. shutdown' \in BOOLEAN
        BY <2>1 DEF Boot
      <3> QED BY <3>1, <3>2, <3>3 DEF ProcessType
    <2>3. DatabaseType'
      BY <1>3, TypeFrame DEF RestartFromStartPoint, TypeOK
    <2> QED BY <2>1, <2>2, <2>3, TypeBoot DEF TypeOK
  <1> QED BY <1>1, <1>2, <1>3 DEF Restart

\* Every step preserves the types.
LEMMA TypeStep == TypeOK /\ [Next]_vars => TypeOK'
  <1>1. TypeOK /\ UNCHANGED vars => TypeOK'
    BY TypeFrame DEF TypeOK, vars
  <1> QED
    BY <1>1, TypeFetcher, TypeBlockProcessor, TypeTransactionProcessor,
       TypeCheckpointProcessor, TypeProcess
    DEF Next

\* Every variable of the pipeline keeps its type, and no queue and no batch
\* grows beyond its capacity.
THEOREM TypeCorrect == Spec => []TypeOK
  BY TypeInit, TypeStep, PTL DEF Spec
=============================================================================
