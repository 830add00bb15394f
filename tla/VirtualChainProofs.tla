------------------------- MODULE VirtualChainProofs -------------------------
(***************************************************************************)
(* transactions_acceptances follows the selected chain, for every forest   *)
(* of chains, every combination of --disable flags and any number of       *)
(* reorganisations, failed saves, crashes and restarts.                    *)
(***************************************************************************)
EXTENDS VirtualChain, TLAPS

USE ChainAssumption, AcceptsAssumption, ConfigAssumption

-----------------------------------------------------------------------------
(***************************************************************************)
(* The inductive invariant                                                 *)
(***************************************************************************)

Applying == ppc \in {"remove", "accept", "save"}

\* The chain blocks that the response at hand takes away and brings.
Leaving  == Chain[pos] \ Chain[last]
Entering == Chain[last] \ Chain[pos]

\* The chain blocks that stay, but for those that a start passed over.
Kept == (Chain[pos] \cap Chain[last]) \ (skipped \ unsaved)

\* r leads from the chain of s to the chain of its own last block, which is new.
LeadsFrom(s, r) ==
    /\ r.removed = Chain[s] \ Chain[r.last]
    /\ r.added = Chain[r.last] \ Chain[s]
    /\ r.last \notin Chain[s]

\* Where the response in the channel ends.
ChannelEnd == IF channel = <<>> THEN last ELSE channel[1].last

\* Responses under way are changes one after the other: the one being applied,
\* the one in the channel and the one being sent.
LinkInv ==
    /\ channel # <<>> => LeadsFrom(last, channel[1])
    /\ pending # <<>> => LeadsFrom(ChannelEnd, pending[1])
    /\ start_hash = IF pending = <<>> THEN ChannelEnd ELSE pending[1].last
    /\ vfpc \in {"poll", "lag"} => pending = <<>>

\* How far the response at hand is applied.
WorkInv ==
    /\ ~Applying => last = pos
    /\ Applying => added = Entering /\ last \in Entering
    /\ removed \subseteq Leaving
    /\ ppc # "remove" => removed = {}
    /\ ppc # "accept" =>
          acc_rows = {} /\ tx_rows = {} /\ addr_rows = {} /\ mark_rows = {}
    /\ acc_rows \subseteq Accepted(Entering)
    /\ mark_rows \subseteq Entering

\* What a restart would forget: the saved chain has left pos only in blocks of
\* responses applied since or in lost ones, and a block that was lost before is
\* named again only by the response at hand.
SavedInv ==
    /\ Leaving \cup Entering \subseteq unsaved
    /\ lost \cap unsaved \subseteq Leaving \cup Entering
    /\ vcp_checkpoint # NoBlock =>
          Chain[vcp_checkpoint] \ Chain[pos] \subseteq unsaved \cup lost

\* A row names a block that accepts its transaction and that is on the chain,
\* or was lost; rows of blocks that leave are those still to be deleted.
RowsInv ==
    \A tx \in Txs : acceptances[tx] # NoBlock =>
        /\ tx \in Accepts[acceptances[tx]]
        /\ acceptances[tx] \in Chain[pos] \cup Chain[last] \cup lost
        /\ acceptances[tx] \in Leaving => acceptances[tx] \in removed

\* The transactions of a block that stays, or that was inserted, have their row,
\* unless that block was lost or a lost block still holds the row.
AcceptedInv ==
    \A tx \in Txs :
        /\ \A b \in Kept :
              tx \in Accepts[b] =>
                  acceptances[tx] = b \/ b \in lost \/ acceptances[tx] \in lost
        /\ ppc \in {"accept", "save"} =>
              \A b \in Entering : tx \in Accepts[b] \ acc_rows =>
                  acceptances[tx] = b \/ acceptances[tx] \in lost

\* Has tx been stored as an accepted transaction?
Stored(tx) ==
    /\ On("TransactionsTable") => inputs[tx] = "resolved"
    /\ On("AddressesTransactionsTable") => tx \in addresses

\* The transactions of the chain up to pos, up to the saved position and of the
\* response at hand are stored, as far as their rows are not still to come and no
\* start passed over their blocks.
StoredInv ==
    /\ \A b \in Kept \cup (Chain[pos] \ skipped) :
          \A tx \in Accepts[b] : Stored(tx)
    /\ vcp_checkpoint # NoBlock =>
          \A b \in Chain[vcp_checkpoint] \ skipped :
              \A tx \in Accepts[b] : Stored(tx)
    /\ ppc \in {"accept", "save"} =>
          \A b \in Entering : \A tx \in Accepts[b] :
              /\ tx \notin tx_rows /\ On("TransactionsTable") =>
                    inputs[tx] = "resolved"
              /\ tx \notin addr_rows /\ On("AddressesTransactionsTable") =>
                    tx \in addresses

\* The same for marks, which are counted: a block that is not on the chain has
\* at most one for each life of the process before this one.
MarksInv ==
    \A b \in Blocks :
        /\ chain_rows[b] > 0 =>
              /\ b \in Chain[pos] \cup Chain[last] \cup lost
              /\ b \in Leaving => b \in removed
        /\ b \in Kept => chain_rows[b] > 0 \/ b \in lost
        /\ (ppc \in {"accept", "save"} /\ b \in Entering \ mark_rows) =>
              chain_rows[b] > 0
        /\ chain_rows[b] <= restarts + 1
        /\ (b \notin Chain[pos]
              /\ (b \notin Chain[last] \/ ppc = "remove" \/ b \in mark_rows)) =>
              chain_rows[b] <= restarts

IndInv ==
    /\ TypeOK /\ LinkInv /\ WorkInv /\ SavedInv
    /\ On("TransactionAcceptance") => RowsInv /\ AcceptedInv /\ StoredInv
    /\ ~On("TransactionAcceptance") => MarksInv

-----------------------------------------------------------------------------
(***************************************************************************)
(* Chains, acceptance and responses                                        *)
(***************************************************************************)

\* A transaction has one accepting block on a chain.
LEMMA OneAcceptingBlock ==
    ASSUME NEW c \in Blocks, NEW a \in Chain[c], NEW b \in Chain[c], NEW tx,
           tx \in Accepts[a], tx \in Accepts[b]
    PROVE  a = b
  OBVIOUS

\* What Accepted collects.
LEMMA AcceptedMember ==
    ASSUME NEW bs
    PROVE  \A tx : tx \in Accepted(bs) <=> \E b \in bs : tx \in Accepts[b]
  BY DEF Accepted

\* The accepted transactions of blocks are transactions.
LEMMA AcceptedTxs ==
    ASSUME NEW bs \in SUBSET Blocks
    PROVE  Accepted(bs) \subseteq Txs
  BY AcceptedMember

\* kaspad names the blocks of start's chain that are not on the sink's; none of
\* them is missing or wrong for a response that ends below the sink, since it
\* ends outside start's chain.
LEMMA ResponseLeads ==
    ASSUME NEW start \in Blocks, sink \in Blocks,
           NEW b \in Chain[sink] \ Chain[start]
    PROVE  /\ VirtualChainFromBlock(start, b) \in Response
           /\ VirtualChainFromBlock(start, b).last = b
           /\ LeadsFrom(start, VirtualChainFromBlock(start, b))
<1>1. b \in Blocks /\ Chain[b] \subseteq Chain[sink]
  OBVIOUS
<1>2. ASSUME NEW x \in Chain[start], x \in Chain[sink]
      PROVE  x \in Chain[b]
  <2>1. x \in Blocks
    OBVIOUS
  <2>2. x \in Chain[b] \/ b \in Chain[x]
    BY <1>2
  <2>3. b \notin Chain[x]
    BY <1>2, <2>1
  <2> QED
    BY <2>2, <2>3
<1>3. Chain[start] \ Chain[sink] = Chain[start] \ Chain[b]
  BY <1>1, <1>2
<1> QED
  BY <1>1, <1>3 DEF VirtualChainFromBlock, Response, LeadsFrom

\* The response in a channel or in the hands of the sender.
LEMMA FirstResponse ==
    ASSUME NEW s \in Seq(Response), s # <<>>
    PROVE  /\ Head(s) = s[1]
           /\ s[1] \in Response
           /\ s[1].removed \subseteq Blocks /\ s[1].added \subseteq Blocks
           /\ s[1].last \in Blocks
<1>1. Head(s) = s[1] /\ s[1] \in Response
  OBVIOUS
<1> QED
  BY <1>1 DEF Response

-----------------------------------------------------------------------------
(***************************************************************************)
(* Process start and fetcher                                               *)
(***************************************************************************)

\* The initial state satisfies the invariant.
LEMMA InitIndInv == Init => IndInv
<1> SUFFICES ASSUME Init PROVE IndInv
  OBVIOUS
<1>1. TypeOK
  <2>1. shutdown \in BOOLEAN
    BY Zenon DEF Init
  <2>2. /\ acceptances \in [Txs -> Blocks \cup {NoBlock}]
        /\ chain_rows \in [Blocks -> Nat]
        /\ inputs \in [Txs -> {"none", "raw", "resolved"}]
        /\ restarts \in 0..MaxRestarts
    BY DEF Init
  <2>3. /\ pending \in Seq(Response) /\ Len(pending) <= 1
        /\ channel \in Seq(Response) /\ Len(channel) <= 1
    BY DEF Init
  <2>4. /\ sink \in Blocks /\ start_hash \in Blocks /\ last \in Blocks
        /\ pos \in Blocks /\ skipped \subseteq Blocks
        /\ tip_distance \in TipDistances
        /\ vfpc \in {"poll", "send", "lag", "done"}
        /\ ppc \in {"recv", "remove", "accept", "save", "done"}
        /\ added \subseteq Blocks /\ removed \subseteq Blocks
        /\ acc_rows \subseteq Txs /\ tx_rows \subseteq Txs
        /\ addr_rows \subseteq Txs /\ mark_rows \subseteq Blocks
        /\ addresses \subseteq Txs
        /\ vcp_checkpoint \in Blocks \cup {NoBlock}
        /\ unsaved \subseteq Blocks /\ lost \subseteq Blocks
    BY DEF Init
  <2> QED
    BY <2>1, <2>2, <2>3, <2>4, Zenon DEF TypeOK
<1>2. LinkInv
  BY DEF Init, LinkInv, ChannelEnd
<1>3. WorkInv /\ SavedInv
  BY DEF Init, WorkInv, SavedInv, Applying, Leaving, Entering
<1>4. RowsInv /\ AcceptedInv /\ StoredInv
  BY DEF Init, RowsInv, AcceptedInv, StoredInv, Kept
<1>5. MarksInv
  BY DEF Init, MarksInv, Entering, Kept
<1> QED
  BY <1>1, <1>2, <1>3, <1>4, <1>5 DEF IndInv

\* What the processor, its tables and the saved position are.
processorVars == <<ppc, workVars, tables, vcp_checkpoint, restarts, history>>

\* Steps that leave the processor and its tables alone keep what is said of them.
LEMMA ProcessorFrame ==
    ASSUME IndInv, UNCHANGED processorVars
    PROVE  /\ WorkInv' /\ SavedInv'
           /\ On("TransactionAcceptance") => RowsInv' /\ AcceptedInv' /\ StoredInv'
           /\ ~On("TransactionAcceptance") => MarksInv'
<1>1. /\ ppc' = ppc /\ added' = added /\ last' = last /\ removed' = removed
      /\ acc_rows' = acc_rows /\ tx_rows' = tx_rows /\ addr_rows' = addr_rows
      /\ mark_rows' = mark_rows
      /\ acceptances' = acceptances /\ chain_rows' = chain_rows
      /\ inputs' = inputs /\ addresses' = addresses
      /\ vcp_checkpoint' = vcp_checkpoint /\ restarts' = restarts
      /\ pos' = pos /\ skipped' = skipped /\ unsaved' = unsaved /\ lost' = lost
  BY DEF processorVars, workVars, rowVars, tables, history
<1>2. Leaving' = Leaving /\ Entering' = Entering /\ (Applying' <=> Applying)
      /\ Kept' = Kept
  BY <1>1 DEF Leaving, Entering, Applying, Kept
<1>3. WorkInv' /\ SavedInv'
  BY <1>1, <1>2 DEF IndInv, WorkInv, SavedInv
<1>4. On("TransactionAcceptance") => RowsInv' /\ AcceptedInv'
  BY <1>1, <1>2 DEF IndInv, RowsInv, AcceptedInv
<1>5. On("TransactionAcceptance") => StoredInv'
  BY <1>1, <1>2 DEF IndInv, StoredInv, Stored
<1>6. ~On("TransactionAcceptance") => MarksInv'
  BY <1>1, <1>2 DEF IndInv, MarksInv
<1> QED
  BY <1>3, <1>4, <1>5, <1>6

\* The sink moves, a signal arrives: nothing of the processor or the fetcher.
LEMMA EnvironmentInv ==
    ASSUME IndInv, (\E b \in Blocks : VirtualChange(b)) \/ Shutdown
    PROVE  IndInv'
<1>1. UNCHANGED processorVars /\ UNCHANGED <<fetcherVars, channel, last>>
  BY DEF VirtualChange, Shutdown, processorVars, workVars
<1>2. TypeOK'
  <2>1. sink' \in Blocks /\ shutdown' \in BOOLEAN /\ tip_distance' = tip_distance
    <3>1. CASE Shutdown
      BY <3>1, Zenon DEF IndInv, TypeOK, Shutdown
    <3>2. CASE \E b \in Blocks : VirtualChange(b)
      BY <3>2, Zenon DEF IndInv, TypeOK, VirtualChange
    <3> QED
      BY <3>1, <3>2
  <2> QED
    BY <1>1, <2>1 DEF IndInv, TypeOK, processorVars, fetcherVars, workVars,
                      rowVars, tables, history
<1>3. LinkInv'
  BY <1>1 DEF IndInv, LinkInv, ChannelEnd, fetcherVars
<1> QED
  BY <1>1, <1>2, <1>3, ProcessorFrame DEF IndInv

\* The fetcher hands on changes, each from where the one before ended.
LEMMA FetcherInv ==
    ASSUME IndInv, Fetcher
    PROVE  IndInv'
<1>1. UNCHANGED processorVars /\ UNCHANGED <<sink, tip_distance, shutdown>>
  BY DEF Fetcher, GetVirtualChain, Send, SendFails, BlockProcessorCaughtUp,
         FetcherStop, processorVars
<1>2. /\ vfpc' \in {"poll", "send", "lag", "done"} /\ start_hash' \in Blocks
      /\ pending' \in Seq(Response) /\ Len(pending') <= 1
      /\ channel' \in Seq(Response) /\ Len(channel') <= 1
      /\ LinkInv'
  <2>0. TypeOK /\ LinkInv /\ last' = last
    BY <1>1 DEF IndInv, processorVars, workVars
  <2> USE <2>0
  <2>1. CASE GetVirtualChain
    <3>1. PICK b \in Chain[sink] \ Chain[start_hash] :
             /\ pending' = <<VirtualChainFromBlock(start_hash, b)>>
             /\ start_hash' = b
      BY <2>1 DEF GetVirtualChain, Confirmed
    <3>2. /\ vfpc = "poll" /\ vfpc' = "send" /\ channel' = channel
      BY <2>1 DEF GetVirtualChain
    <3> DEFINE r == VirtualChainFromBlock(start_hash, b)
    <3>3. r \in Response /\ r.last = b /\ LeadsFrom(start_hash, r) /\ b \in Blocks
      BY ResponseLeads DEF TypeOK
    <3> HIDE DEF r
    <3>4. pending = <<>> /\ start_hash = ChannelEnd
      BY <3>2 DEF LinkInv
    <3>5. ChannelEnd' = ChannelEnd
      BY <3>2 DEF ChannelEnd
    <3>6. /\ pending' = <<r>> /\ pending' # <<>> /\ pending'[1] = r
          /\ pending' \in Seq(Response) /\ Len(pending') = 1
      BY <3>1, <3>3 DEF r
    <3>7. LinkInv'
      BY <3>1, <3>2, <3>3, <3>4, <3>5, <3>6 DEF LinkInv, LeadsFrom
    <3> QED
      BY <3>1, <3>2, <3>3, <3>6, <3>7 DEF TypeOK
  <2>2. CASE Send
    <3>1. /\ channel = <<>> /\ channel' = pending /\ pending' = <<>>
          /\ vfpc' = "lag" /\ start_hash' = start_hash
      BY <2>2 DEF Send
    <3>2. ChannelEnd = last
      BY <3>1 DEF ChannelEnd
    <3>3. LinkInv'
      BY <3>1, <3>2 DEF LinkInv, ChannelEnd, LeadsFrom
    <3> QED
      BY <3>1, <3>3 DEF TypeOK
  <2>3. CASE SendFails \/ BlockProcessorCaughtUp \/ FetcherStop
    <3>1. /\ UNCHANGED <<start_hash, pending, channel>>
          /\ \/ vfpc' = "done"
             \/ vfpc = "lag" /\ vfpc' = "poll"
      BY <2>3 DEF SendFails, BlockProcessorCaughtUp, FetcherStop
    <3> QED
      BY <3>1 DEF TypeOK, LinkInv, ChannelEnd, LeadsFrom
  <2> QED
    BY <2>1, <2>2, <2>3 DEF Fetcher
<1>3. TypeOK'
  BY <1>1, <1>2 DEF IndInv, TypeOK, processorVars, workVars, rowVars, tables,
                    history
<1> QED
  BY <1>1, <1>2, <1>3, ProcessorFrame DEF IndInv

-----------------------------------------------------------------------------
(***************************************************************************)
(* process_virtual_chain                                                   *)
(***************************************************************************)

\* The responses under way do not change while one is applied.
LEMMA LinkFrame ==
    ASSUME LinkInv, UNCHANGED <<fetcherVars, channel, last>>
    PROVE  LinkInv'
  BY DEF LinkInv, ChannelEnd, LeadsFrom, fetcherVars

\* A response starts where the last one ended.
LEMMA ReceiveInv ==
    ASSUME IndInv, Receive
    PROVE  IndInv'
<1> DEFINE r == channel[1]
<1> USE DEF IndInv
<1>1. /\ ppc = "recv" /\ ppc' = "remove"
      /\ channel # <<>> /\ channel' = <<>>
      /\ added' = r.added /\ last' = r.last /\ removed' = r.removed
      /\ unsaved' = unsaved \cup r.removed \cup r.added
  <2>1. channel # <<>> /\ Head(channel) = r
    BY FirstResponse DEF Receive, TypeOK
  <2> QED
    BY <2>1 DEF Receive
<1>2. UNCHANGED <<sink, vfpc, start_hash, pending, acc_rows, tx_rows, addr_rows,
                  mark_rows, acceptances, chain_rows, inputs, addresses,
                  vcp_checkpoint, tip_distance, shutdown, restarts, pos, skipped, lost>>
  BY DEF Receive, fetcherVars, rowVars, tables
<1>3. /\ r.removed \subseteq Blocks /\ r.added \subseteq Blocks
      /\ r.last \in Blocks
  BY <1>1, FirstResponse DEF TypeOK
<1>4. last = pos /\ Leaving = {} /\ Entering = {}
  BY <1>1 DEF WorkInv, Applying, Leaving, Entering
<1>5. removed' = Leaving' /\ added' = Entering' /\ last' \in Entering'
      /\ Kept' \subseteq Kept
  BY <1>1, <1>2, <1>3, <1>4 DEF LinkInv, LeadsFrom, Leaving, Entering, Kept
<1>6. TypeOK'
  BY <1>1, <1>2, <1>3 DEF TypeOK
<1>7. LinkInv'
  BY <1>1, <1>2 DEF LinkInv, ChannelEnd, LeadsFrom
<1>8. /\ acc_rows = {} /\ tx_rows = {} /\ addr_rows = {} /\ mark_rows = {}
  BY <1>1 DEF WorkInv
<1>9. WorkInv'
  BY <1>1, <1>2, <1>5, <1>8 DEF WorkInv, Applying
<1>10. SavedInv'
  BY <1>1, <1>2, <1>4, <1>5 DEF SavedInv
<1>11. ASSUME On("TransactionAcceptance") PROVE RowsInv' /\ AcceptedInv' /\ StoredInv'
  <2>1. RowsInv /\ AcceptedInv /\ StoredInv
    BY <1>11
  <2>2. RowsInv'
    BY <1>1, <1>2, <1>4, <1>5, <2>1 DEF RowsInv
  <2>3. AcceptedInv'
    BY <1>1, <1>2, <1>4, <1>5, <2>1 DEF AcceptedInv
  <2>4. StoredInv'
    BY <1>1, <1>2, <1>5, <2>1 DEF StoredInv, Stored
  <2> QED
    BY <2>2, <2>3, <2>4
<1>12. ASSUME ~On("TransactionAcceptance") PROVE MarksInv'
  <2>1. MarksInv
    BY <1>12
  <2> QED
    BY <1>1, <1>2, <1>4, <1>5, <1>8, <2>1 DEF MarksInv
<1> QED
  BY <1>6, <1>7, <1>9, <1>10, <1>11, <1>12

\* A DELETE of remove_chain_blocks takes the rows of blocks that leave, and no
\* row of a block that stays.
LEMMA RemoveChainBlocksInv ==
    ASSUME IndInv, RemoveChainBlocks
    PROVE  IndInv'
<1> USE DEF IndInv
<1>1. PICK chunk \in SUBSET removed :
         /\ acceptances' = [tx \in Txs |-> IF acceptances[tx] \in chunk
                                           THEN NoBlock ELSE acceptances[tx]]
         /\ chain_rows' = [b \in Blocks |-> IF b \in chunk THEN 0
                                                           ELSE chain_rows[b]]
         /\ removed' = removed \ chunk
  BY DEF RemoveChainBlocks
<1>2. /\ ppc = "remove" /\ UNCHANGED <<fetcherVars, channel, last>>
      /\ UNCHANGED <<sink, vfpc, start_hash, pending, channel, ppc, added, last,
                     acc_rows, tx_rows, addr_rows, mark_rows, inputs, addresses,
                     vcp_checkpoint, tip_distance, shutdown, restarts, pos, skipped, unsaved, lost>>
  BY DEF RemoveChainBlocks, fetcherVars, rowVars, history
<1>3. Leaving' = Leaving /\ Entering' = Entering /\ Applying /\ Applying'
      /\ Kept' = Kept
  BY <1>2 DEF Leaving, Entering, Applying, Kept
<1>4. chunk \subseteq Leaving /\ chunk \subseteq Chain[pos]
      /\ chunk \cap Chain[last] = {} /\ NoBlock \notin chunk
  BY <1>1 DEF WorkInv, Leaving, TypeOK
<1>5. TypeOK'
  <2>1. /\ acceptances' \in [Txs -> Blocks \cup {NoBlock}]
        /\ chain_rows' \in [Blocks -> Nat] /\ removed' \subseteq Blocks
    BY <1>1 DEF TypeOK
  <2> QED
    BY <1>2, <2>1 DEF TypeOK
<1>6. LinkInv'
  BY <1>2, LinkFrame
<1>7. WorkInv' /\ SavedInv'
  BY <1>1, <1>2, <1>3 DEF WorkInv, SavedInv
<1>8. ASSUME On("TransactionAcceptance") PROVE RowsInv' /\ AcceptedInv' /\ StoredInv'
  <2>1. RowsInv /\ AcceptedInv /\ StoredInv
    BY <1>8
  <2>2. \A tx \in Txs : acceptances'[tx] =
           IF acceptances[tx] \in chunk THEN NoBlock ELSE acceptances[tx]
    BY <1>1
  <2>3. RowsInv'
    BY <1>1, <1>2, <1>3, <2>1, <2>2 DEF RowsInv
  <2>4. AcceptedInv'
    <3> SUFFICES ASSUME NEW tx \in Txs,
                        NEW b \in Kept,
                        tx \in Accepts[b]
                 PROVE  \/ acceptances'[tx] = b \/ b \in lost
                        \/ acceptances'[tx] \in lost
      BY <1>2, <1>3 DEF AcceptedInv
    <3>1. acceptances[tx] = b \/ b \in lost \/ acceptances[tx] \in lost
      BY <2>1 DEF AcceptedInv
    <3>2. acceptances[tx] \notin chunk
      <4> SUFFICES ASSUME acceptances[tx] \in chunk
                   PROVE  FALSE
        OBVIOUS
      <4>1. acceptances[tx] \in Chain[pos] /\ acceptances[tx] # NoBlock
            /\ acceptances[tx] \notin Chain[last]
        BY <1>4
      <4>2. tx \in Accepts[acceptances[tx]] /\ pos \in Blocks
        BY <2>1, <4>1 DEF RowsInv, TypeOK
      <4>3. b \in Chain[pos] /\ b \in Chain[last]
        BY DEF Kept
      <4>4. acceptances[tx] = b
        BY <4>1, <4>2, <4>3, OneAcceptingBlock
      <4> QED
        BY <4>1, <4>3, <4>4
    <3> QED
      BY <2>2, <3>1, <3>2
  <2>5. StoredInv'
    BY <1>2, <1>3, <2>1 DEF StoredInv, Stored
  <2> QED
    BY <2>3, <2>4, <2>5
<1>9. ASSUME ~On("TransactionAcceptance") PROVE MarksInv'
  <2>1. MarksInv
    BY <1>9
  <2>2. \A b \in Blocks : /\ chain_rows'[b] = IF b \in chunk THEN 0
                                                             ELSE chain_rows[b]
                          /\ chain_rows[b] \in Nat /\ restarts \in Nat
    BY <1>1 DEF TypeOK
  <2> QED
    BY <1>1, <1>2, <1>3, <1>4, <2>1, <2>2 DEF MarksInv, Kept
<1> QED
  BY <1>5, <1>6, <1>7, <1>8, <1>9

\* Nothing that leaves is left; the rows to come are all those of the response.
LEMMA ChainBlocksRemovedInv ==
    ASSUME IndInv, ChainBlocksRemoved
    PROVE  IndInv'
<1> USE DEF IndInv
<1>1. /\ ppc = "remove" /\ ppc' = "accept" /\ removed = {}
      /\ UNCHANGED <<fetcherVars, channel, last>>
      /\ UNCHANGED <<sink, vfpc, start_hash, pending, channel, added, last, removed,
                     acceptances, chain_rows, inputs, addresses, vcp_checkpoint,
                     tip_distance, shutdown, restarts, pos, skipped, unsaved, lost>>
  BY DEF ChainBlocksRemoved, fetcherVars, tables, history
<1>2. Leaving' = Leaving /\ Entering' = Entering /\ Applying /\ Applying'
      /\ Kept' = Kept
      /\ added = Entering
  BY <1>1 DEF Leaving, Entering, Applying, Kept, WorkInv
<1>3. /\ acc_rows' = IF On("TransactionAcceptance") THEN Accepted(Entering) ELSE {}
      /\ (On("TransactionAcceptance") /\ On("TransactionsTable")) =>
            tx_rows' = Accepted(Entering)
      /\ (On("TransactionAcceptance") /\ On("AddressesTransactionsTable")) =>
            addr_rows' = Accepted(Entering)
      /\ tx_rows' \in {Accepted(Entering), {}}
      /\ addr_rows' \in {Accepted(Entering), {}}
      /\ mark_rows' = IF On("TransactionAcceptance") THEN {} ELSE Entering
  BY <1>2, Zenon DEF ChainBlocksRemoved, CollectRows
<1>4. Entering \subseteq Blocks
  BY DEF Entering, TypeOK
<1>5. Accepted(Entering) \subseteq Txs
  BY <1>4, AcceptedTxs
<1>6. TypeOK'
  BY <1>1, <1>3, <1>4, <1>5 DEF TypeOK
<1>7. LinkInv'
  BY <1>1, LinkFrame
<1>8. WorkInv' /\ SavedInv'
  BY <1>1, <1>2, <1>3 DEF WorkInv, SavedInv
<1>9. ASSUME On("TransactionAcceptance") PROVE RowsInv' /\ AcceptedInv' /\ StoredInv'
  <2>1. RowsInv /\ AcceptedInv /\ StoredInv
    BY <1>9
  <2>2. \A b \in Entering : \A tx \in Accepts[b] : tx \in Accepted(Entering)
    BY AcceptedMember
  <2>3. RowsInv' /\ AcceptedInv'
    BY <1>1, <1>2, <1>3, <1>9, <2>1, <2>2 DEF RowsInv, AcceptedInv
  <2>4. StoredInv'
    BY <1>1, <1>2, <1>3, <1>9, <2>1, <2>2 DEF StoredInv, Stored
  <2> QED
    BY <2>3, <2>4
<1>10. ASSUME ~On("TransactionAcceptance") PROVE MarksInv'
  <2>1. MarksInv
    BY <1>10
  <2> QED
    BY <1>1, <1>2, <1>3, <1>10, <2>1 DEF MarksInv, Entering
<1> QED
  BY <1>6, <1>7, <1>8, <1>9, <1>10

\* An INSERT of insert_transaction_acceptances: a row that is there already is
\* the right one, or that of a lost block.
LEMMA InsertTransactionAcceptancesInv ==
    ASSUME IndInv, InsertTransactionAcceptances
    PROVE  IndInv'
<1> USE DEF IndInv
<1>1. PICK chunk \in SUBSET acc_rows :
         /\ acceptances' = [tx \in Txs |->
                              IF tx \in chunk /\ acceptances[tx] = NoBlock
                              THEN AcceptingBlock(tx) ELSE acceptances[tx]]
         /\ acc_rows' = acc_rows \ chunk
  BY DEF InsertTransactionAcceptances
<1>2. /\ ppc = "accept" /\ UNCHANGED <<fetcherVars, channel, last>>
      /\ UNCHANGED <<sink, vfpc, start_hash, pending, channel, ppc, added, last,
                     removed, tx_rows, addr_rows, mark_rows, chain_rows, inputs,
                     addresses, vcp_checkpoint, tip_distance, shutdown, restarts, pos, skipped,
                     unsaved, lost>>
  BY DEF InsertTransactionAcceptances, fetcherVars, history
<1>3. Leaving' = Leaving /\ Entering' = Entering /\ Applying /\ Applying'
      /\ Kept' = Kept
      /\ added = Entering /\ removed = {}
  BY <1>2 DEF Leaving, Entering, Applying, Kept, WorkInv
<1>4. \A tx \in chunk : /\ AcceptingBlock(tx) \in Entering
                        /\ tx \in Accepts[AcceptingBlock(tx)]
  <2> SUFFICES ASSUME NEW tx \in chunk
               PROVE  /\ AcceptingBlock(tx) \in added
                      /\ tx \in Accepts[AcceptingBlock(tx)]
    BY <1>3
  <2>1. \E b \in added : tx \in Accepts[b]
    BY <1>1, <1>3, AcceptedMember DEF WorkInv
  <2> QED
    BY <2>1 DEF AcceptingBlock
<1>5. Entering \subseteq Chain[last] /\ Entering \subseteq Blocks
      /\ Chain[last] \subseteq Blocks /\ last \in Blocks
  BY DEF Entering, TypeOK
<1>6. \A tx \in Txs : acceptances'[tx] =
         IF tx \in chunk /\ acceptances[tx] = NoBlock
         THEN AcceptingBlock(tx) ELSE acceptances[tx]
  BY <1>1
<1>7. TypeOK'
  <2>1. acceptances' \in [Txs -> Blocks \cup {NoBlock}] /\ acc_rows' \subseteq Txs
    BY <1>1, <1>4, <1>5 DEF TypeOK
  <2> QED
    BY <1>2, <2>1 DEF TypeOK
<1>8. LinkInv'
  BY <1>2, LinkFrame
<1>9. WorkInv' /\ SavedInv'
  BY <1>1, <1>2, <1>3 DEF WorkInv, SavedInv
<1>10. ASSUME On("TransactionAcceptance") PROVE RowsInv' /\ AcceptedInv' /\ StoredInv'
  <2>1. RowsInv /\ AcceptedInv /\ StoredInv
    BY <1>10
  <2>2. RowsInv'
    <3> SUFFICES ASSUME NEW tx \in Txs, acceptances'[tx] # NoBlock
                 PROVE  /\ tx \in Accepts[acceptances'[tx]]
                        /\ acceptances'[tx] \in Chain[pos] \cup Chain[last] \cup lost
                        /\ acceptances'[tx] \in Leaving => acceptances'[tx] \in removed
      BY <1>2, <1>3 DEF RowsInv
    <3>1. CASE acceptances'[tx] = acceptances[tx]
      BY <2>1, <3>1 DEF RowsInv
    <3>2. CASE tx \in chunk /\ acceptances'[tx] = AcceptingBlock(tx)
      <4>1. acceptances'[tx] \in Entering /\ tx \in Accepts[acceptances'[tx]]
        BY <1>4, <3>2
      <4>2. acceptances'[tx] \in Chain[last] /\ acceptances'[tx] \notin Leaving
            /\ acceptances'[tx] \in unsaved
        BY <4>1 DEF Entering, Leaving, SavedInv
      <4> QED
        BY <4>1, <4>2
    <3> QED
      BY <1>6, <3>1, <3>2
  <2>3. AcceptedInv'
    <3> SUFFICES ASSUME NEW tx \in Txs
                 PROVE  /\ \A b \in Kept :
                              tx \in Accepts[b] => \/ acceptances'[tx] = b
                                                   \/ b \in lost
                                                   \/ acceptances'[tx] \in lost
                        /\ \A b \in Entering : tx \in Accepts[b] \ acc_rows' =>
                              acceptances'[tx] = b \/ acceptances'[tx] \in lost
      BY <1>2, <1>3 DEF AcceptedInv
    <3>1. NoBlock \notin lost
      BY DEF TypeOK
    <3>2. ASSUME NEW b \in Kept,
                 tx \in Accepts[b]
          PROVE  acceptances'[tx] = b \/ b \in lost \/ acceptances'[tx] \in lost
      <4>1. acceptances[tx] = b \/ b \in lost \/ acceptances[tx] \in lost
        BY <2>1, <3>2 DEF AcceptedInv
      <4>2. b # NoBlock
        BY <1>5, <3>2 DEF Kept
      <4> QED
        BY <1>6, <3>1, <4>1, <4>2
    <3>3. ASSUME NEW b \in Entering, tx \in Accepts[b], tx \notin acc_rows'
          PROVE  acceptances'[tx] = b \/ acceptances'[tx] \in lost
      <4>1. CASE tx \notin acc_rows
        <5>1. acceptances[tx] = b \/ acceptances[tx] \in lost
          BY <1>2, <2>1, <3>3, <4>1 DEF AcceptedInv
        <5>2. b # NoBlock
          BY <1>5, <3>3
        <5> QED
          BY <1>6, <3>1, <5>1, <5>2
      <4>2. CASE tx \in chunk /\ acceptances[tx] = NoBlock
        <5>1. acceptances'[tx] \in Chain[last] /\ tx \in Accepts[acceptances'[tx]]
          BY <1>4, <1>5, <1>6, <4>2
        <5> QED
          BY <1>5, <3>3, <5>1, OneAcceptingBlock
      <4>3. CASE tx \in chunk /\ acceptances[tx] # NoBlock
        <5>1. acceptances'[tx] = acceptances[tx]
          BY <1>6, <4>3
        <5>2. tx \in Accepts[acceptances[tx]]
          BY <2>1, <4>3 DEF RowsInv
        <5>3. acceptances[tx] \in Chain[last] \cup lost
          BY <1>3, <2>1, <4>3 DEF RowsInv, Leaving
        <5>4. acceptances[tx] \in Chain[last] => acceptances[tx] = b
          BY <1>5, <3>3, <5>2, OneAcceptingBlock
        <5> QED
          BY <5>1, <5>3, <5>4
      <4> QED
        BY <1>1, <3>3, <4>1, <4>2, <4>3
    <3> QED
      BY <3>2, <3>3
  <2>4. StoredInv'
    BY <1>2, <1>3, <2>1 DEF StoredInv, Stored
  <2> QED
    BY <2>2, <2>3, <2>4
<1>11. ASSUME ~On("TransactionAcceptance") PROVE MarksInv'
  <2>1. MarksInv
    BY <1>11
  <2> QED
    BY <1>2, <1>3, <2>1 DEF MarksInv
<1> QED
  BY <1>7, <1>8, <1>9, <1>10, <1>11

\* Inputs and addresses are only ever completed: an upsert, an insert of
\* addresses and a row of process_transactions keep everything stored.
LEMMA StoreInv ==
    ASSUME IndInv,
           \/ UpsertTransactions
           \/ InsertAddressTransactions
           \/ \E tx \in Txs : InsertUnresolved(tx)
    PROVE  IndInv'
<1> USE DEF IndInv
<1>1. /\ UNCHANGED <<fetcherVars, channel, last>>
      /\ UNCHANGED <<sink, vfpc, start_hash, pending, channel, ppc, added, last,
                     removed, acc_rows, mark_rows, acceptances, chain_rows,
                     vcp_checkpoint, tip_distance, shutdown, restarts, pos, skipped, unsaved, lost>>
  BY DEF UpsertTransactions, InsertAddressTransactions, InsertUnresolved,
         fetcherVars, workVars, rowVars, history
<1>2. Leaving' = Leaving /\ Entering' = Entering /\ (Applying' <=> Applying)
      /\ Kept' = Kept
  BY <1>1 DEF Leaving, Entering, Applying, Kept
<1>3. /\ inputs' \in [Txs -> {"none", "raw", "resolved"}]
      /\ addresses' \subseteq Txs
      /\ tx_rows' \subseteq tx_rows /\ addr_rows' \subseteq addr_rows
      /\ \A tx \in Txs : inputs[tx] = "resolved" => inputs'[tx] = "resolved"
      /\ \A tx \in tx_rows \ tx_rows' : inputs'[tx] = "resolved"
      /\ addresses \subseteq addresses'
      /\ addr_rows \ addr_rows' \subseteq addresses'
  <2>1. CASE UpsertTransactions
    BY <2>1 DEF UpsertTransactions, TypeOK
  <2>2. CASE InsertAddressTransactions
    BY <2>2 DEF InsertAddressTransactions, TypeOK
  <2>3. CASE \E tx \in Txs : InsertUnresolved(tx)
    BY <2>3 DEF InsertUnresolved, TypeOK, workVars, rowVars
  <2> QED
    BY <2>1, <2>2, <2>3
<1>4. TypeOK'
  BY <1>1, <1>3 DEF TypeOK
<1>5. LinkInv'
  BY <1>1, LinkFrame
<1>6. WorkInv' /\ SavedInv'
  BY <1>1, <1>2, <1>3 DEF WorkInv, SavedInv
<1>7. ASSUME On("TransactionAcceptance") PROVE RowsInv' /\ AcceptedInv' /\ StoredInv'
  <2>1. RowsInv /\ AcceptedInv /\ StoredInv
    BY <1>7
  <2>2. RowsInv' /\ AcceptedInv'
    BY <1>1, <1>2, <2>1 DEF RowsInv, AcceptedInv
  <2>3. \A b \in Blocks : Accepts[b] \subseteq Txs
    OBVIOUS
  <2>4. \A tx \in Txs : Stored(tx) => Stored(tx)'
    BY <1>3 DEF Stored
  <2>5. StoredInv'
    <3>1. /\ pos \in Blocks /\ last \in Blocks
          /\ vcp_checkpoint # NoBlock => vcp_checkpoint \in Blocks
      BY DEF TypeOK
    <3>2. \A b \in Kept \cup (Chain[pos] \ skipped) :
             \A tx \in Accepts[b] : Stored(tx)'
      BY <2>1, <2>3, <2>4, <3>1 DEF StoredInv, Kept
    <3>3. vcp_checkpoint # NoBlock =>
             \A b \in Chain[vcp_checkpoint] \ skipped :
                 \A tx \in Accepts[b] : Stored(tx)'
      BY <2>1, <2>3, <2>4, <3>1 DEF StoredInv
    <3>4. ASSUME ppc \in {"accept", "save"}, NEW b \in Entering,
                 NEW tx \in Accepts[b]
          PROVE  /\ tx \notin tx_rows' /\ On("TransactionsTable") =>
                       inputs'[tx] = "resolved"
                 /\ tx \notin addr_rows' /\ On("AddressesTransactionsTable") =>
                       tx \in addresses'
      <4>1. tx \in Txs
        BY <2>3, <3>1, <3>4 DEF Entering
      <4> QED
        BY <1>3, <2>1, <3>4, <4>1 DEF StoredInv
    <3> QED
      BY <1>1, <1>2, <3>2, <3>3, <3>4 DEF StoredInv
  <2> QED
    BY <2>2, <2>5
<1>8. ASSUME ~On("TransactionAcceptance") PROVE MarksInv'
  <2>1. MarksInv
    BY <1>8
  <2> QED
    BY <1>1, <1>2, <2>1 DEF MarksInv
<1> QED
  BY <1>4, <1>5, <1>6, <1>7, <1>8

\* An INSERT of add_chain_blocks marks blocks that enter, for the first time in
\* this life of the process.
LEMMA AddChainBlocksInv ==
    ASSUME IndInv, AddChainBlocks
    PROVE  IndInv'
<1> USE DEF IndInv
<1>1. PICK chunk \in SUBSET mark_rows :
         /\ chain_rows' = [b \in Blocks |-> IF b \in chunk THEN chain_rows[b] + 1
                                                           ELSE chain_rows[b]]
         /\ mark_rows' = mark_rows \ chunk
  BY DEF AddChainBlocks
<1>2. /\ ppc = "accept" /\ UNCHANGED <<fetcherVars, channel, last>>
      /\ UNCHANGED <<sink, vfpc, start_hash, pending, channel, ppc, added, last,
                     removed, acc_rows, tx_rows, addr_rows, acceptances, inputs,
                     addresses, vcp_checkpoint, tip_distance, shutdown, restarts, pos, skipped,
                     unsaved, lost>>
  BY DEF AddChainBlocks, fetcherVars, history
<1>3. Leaving' = Leaving /\ Entering' = Entering /\ Applying /\ Applying'
      /\ Kept' = Kept
  BY <1>2 DEF Leaving, Entering, Applying, Kept
<1>4. chunk \subseteq Entering
  BY <1>1 DEF WorkInv
<1>5. TypeOK'
  <2>1. chain_rows' \in [Blocks -> Nat] /\ mark_rows' \subseteq Blocks
    BY <1>1 DEF TypeOK
  <2> QED
    BY <1>2, <2>1 DEF TypeOK
<1>6. LinkInv'
  BY <1>2, LinkFrame
<1>7. WorkInv' /\ SavedInv'
  BY <1>1, <1>2, <1>3 DEF WorkInv, SavedInv
<1>8. ASSUME On("TransactionAcceptance") PROVE RowsInv' /\ AcceptedInv' /\ StoredInv'
  <2>1. RowsInv /\ AcceptedInv /\ StoredInv
    BY <1>8
  <2> QED
    BY <1>2, <1>3, <2>1 DEF RowsInv, AcceptedInv, StoredInv, Stored
<1>9. ASSUME ~On("TransactionAcceptance") PROVE MarksInv'
  <2>1. MarksInv /\ SavedInv
    BY <1>9
  <2>2. \A b \in Blocks :
           /\ chain_rows'[b] = IF b \in chunk THEN chain_rows[b] + 1
                                              ELSE chain_rows[b]
           /\ chain_rows[b] \in Nat /\ restarts \in Nat
    BY <1>1 DEF TypeOK
  <2>3. \A b \in chunk : /\ b \in Chain[last] /\ b \notin Chain[pos]
                         /\ b \in mark_rows /\ b \in unsaved /\ b \notin mark_rows'
    BY <1>1, <1>4, <2>1 DEF Entering, SavedInv
  <2> SUFFICES ASSUME NEW b \in Blocks
               PROVE  /\ chain_rows'[b] > 0 =>
                            /\ b \in Chain[pos] \cup Chain[last] \cup lost
                            /\ b \in Leaving => b \in removed
                      /\ b \in Kept =>
                            chain_rows'[b] > 0 \/ b \in lost
                      /\ b \in Entering \ mark_rows' => chain_rows'[b] > 0
                      /\ chain_rows'[b] <= restarts + 1
                      /\ (b \notin Chain[pos]
                            /\ (b \notin Chain[last] \/ b \in mark_rows')) =>
                            chain_rows'[b] <= restarts
    BY <1>2, <1>3 DEF MarksInv
  <2>4. CASE b \in chunk
    <3>1. chain_rows[b] <= restarts
      BY <2>1, <2>3, <2>4 DEF MarksInv
    <3> QED
      BY <2>2, <2>3, <2>4, <3>1 DEF Leaving
  <2>5. CASE b \notin chunk
    BY <1>1, <1>2, <2>1, <2>2, <2>5 DEF MarksInv
  <2> QED
    BY <2>4, <2>5
<1> QED
  BY <1>5, <1>6, <1>7, <1>8, <1>9

\* All rows of the response are there; or the sender is gone.  Only ppc moves.
LEMMA ResponseAppliedInv ==
    ASSUME IndInv, ResponseApplied \/ ProcessorStop
    PROVE  IndInv'
<1> USE DEF IndInv
<1>1. /\ UNCHANGED <<fetcherVars, channel, last>>
      /\ UNCHANGED <<sink, vfpc, start_hash, pending, channel, added, last, removed,
                     acc_rows, tx_rows, addr_rows, mark_rows, acceptances,
                     chain_rows, inputs, addresses, vcp_checkpoint, shutdown,
                     restarts, pos, skipped, unsaved, lost>>
      /\ tip_distance' \in TipDistances
      /\ \/ /\ ppc = "accept" /\ ppc' = "save"
            /\ acc_rows = {} /\ tx_rows = {} /\ addr_rows = {} /\ mark_rows = {}
         \/ ppc = "recv" /\ ppc' = "done"
  BY DEF ResponseApplied, ProcessorStop, fetcherVars, workVars, rowVars, tables,
         history, TypeOK
<1>2. Leaving' = Leaving /\ Entering' = Entering /\ (Applying' <=> Applying)
      /\ Kept' = Kept
  BY <1>1 DEF Leaving, Entering, Applying, Kept
<1>3. TypeOK'
  BY <1>1 DEF TypeOK
<1>4. LinkInv'
  BY <1>1, LinkFrame
<1>5. WorkInv' /\ SavedInv'
  BY <1>1, <1>2 DEF WorkInv, SavedInv
<1>6. On("TransactionAcceptance") => RowsInv' /\ AcceptedInv' /\ StoredInv'
  BY <1>1, <1>2 DEF RowsInv, AcceptedInv, StoredInv, Stored
<1>7. ~On("TransactionAcceptance") => MarksInv'
  BY <1>1, <1>2 DEF MarksInv
<1> QED
  BY <1>3, <1>4, <1>5, <1>6, <1>7

\* The response at hand becomes part of the chain up to pos.  Blocks it named are
\* no longer lost: their rows were deleted or inserted again.
LEMMA SaveVcpCheckpointInv ==
    ASSUME IndInv, NEW ok \in BOOLEAN, SaveVcpCheckpoint(ok)
    PROVE  IndInv'
<1> USE DEF IndInv
<1>1. /\ ppc = "save" /\ ppc' \in {"recv", "done"}
      /\ UNCHANGED <<fetcherVars, channel, last>>
      /\ pos' = last /\ lost' = lost \ unsaved
      /\ \/ /\ vcp_checkpoint' = last /\ unsaved' = {}
            /\ skipped' = skipped \ unsaved
         \/ UNCHANGED <<vcp_checkpoint, skipped, unsaved>>
      /\ UNCHANGED <<sink, vfpc, start_hash, pending, channel, added, last, removed,
                     acc_rows, tx_rows, addr_rows, mark_rows, acceptances,
                     chain_rows, inputs, addresses, tip_distance, shutdown,
                     restarts>>
  BY DEF SaveVcpCheckpoint, fetcherVars, workVars, rowVars, tables
<1>2. Leaving' = {} /\ Entering' = {} /\ ~Applying' /\ Applying
      /\ skipped' \ unsaved' = skipped \ unsaved
      /\ Kept' = Chain[last] \ (skipped \ unsaved)
  BY <1>1 DEF Leaving, Entering, Applying, Kept
<1>3. /\ acc_rows = {} /\ tx_rows = {} /\ addr_rows = {} /\ mark_rows = {}
      /\ removed = {}
  BY <1>1 DEF WorkInv
<1>4. last \in Blocks /\ pos \in Blocks /\ NoBlock \notin Blocks
      /\ (vcp_checkpoint' # vcp_checkpoint => vcp_checkpoint' # NoBlock)
  BY <1>1 DEF TypeOK
<1>5. TypeOK'
  BY <1>1 DEF TypeOK
<1>6. LinkInv'
  BY <1>1, LinkFrame
<1>7. WorkInv'
  BY <1>1, <1>2, <1>3, AcceptedMember DEF WorkInv
<1>8. SavedInv'
  <2>1. lost' \cap unsaved' = {}
    BY <1>1
  <2>2. CASE vcp_checkpoint' = last
    BY <1>1, <1>2, <2>1, <2>2 DEF SavedInv
  <2>3. CASE UNCHANGED <<vcp_checkpoint, unsaved>>
    BY <1>1, <1>2, <2>1, <2>3 DEF SavedInv, Leaving, Entering
  <2> QED
    BY <1>1, <2>2, <2>3
<1>9. ASSUME On("TransactionAcceptance") PROVE RowsInv' /\ AcceptedInv' /\ StoredInv'
  <2>1. RowsInv /\ AcceptedInv /\ StoredInv /\ SavedInv
    BY <1>9
  <2>2. ASSUME NEW tx \in Txs, acceptances[tx] # NoBlock
        PROVE  /\ tx \in Accepts[acceptances[tx]]
               /\ acceptances[tx] \in Chain[last] \cup lost'
    <3>1. /\ tx \in Accepts[acceptances[tx]]
          /\ acceptances[tx] \in Chain[pos] \cup Chain[last] \cup lost
          /\ acceptances[tx] \notin Leaving
      BY <1>3, <2>1, <2>2 DEF RowsInv
    <3> QED
      BY <1>1, <2>1, <3>1 DEF Leaving, Entering, SavedInv
  <2>3. RowsInv'
    BY <1>1, <1>2, <2>2 DEF RowsInv
  <2>4. AcceptedInv'
    <3> SUFFICES ASSUME NEW tx \in Txs,
                        NEW b \in Chain[last] \ (skipped \ unsaved),
                        tx \in Accepts[b]
                 PROVE  \/ acceptances[tx] = b \/ b \in lost'
                        \/ acceptances[tx] \in lost'
      BY <1>1, <1>2 DEF AcceptedInv
    <3>1. NoBlock \notin lost
      BY DEF TypeOK
    <3>2. acceptances[tx] \in lost => acceptances[tx] = b \/ acceptances[tx] \in lost'
      <4> SUFFICES ASSUME acceptances[tx] \in lost, acceptances[tx] \notin lost'
                   PROVE  acceptances[tx] = b
        OBVIOUS
      <4>1. acceptances[tx] # NoBlock
        BY <3>1
      <4>2. acceptances[tx] \in Chain[last] /\ tx \in Accepts[acceptances[tx]]
        BY <2>2, <4>1
      <4> QED
        BY <1>4, <4>2, OneAcceptingBlock
    <3>3. CASE b \in Entering
      <4>1. acceptances[tx] = b \/ acceptances[tx] \in lost
        BY <1>1, <1>3, <2>1, <3>3 DEF AcceptedInv
      <4> QED
        BY <3>2, <4>1
    <3>4. CASE b \in Chain[pos]
      <4>1. acceptances[tx] = b \/ b \in lost \/ acceptances[tx] \in lost
        BY <2>1, <3>4 DEF AcceptedInv, Kept
      <4>2. b \in lost => b \in lost'
        BY <1>1, <2>1, <3>4 DEF SavedInv, Leaving, Entering
      <4> QED
        BY <3>2, <4>1, <4>2
    <3> QED
      BY <3>3, <3>4 DEF Entering
  <2>5. StoredInv'
    <3>1. \A b \in Chain[last] \ (skipped \ unsaved) :
             \A tx \in Accepts[b] : Stored(tx)
      <4> SUFFICES ASSUME NEW b \in Chain[last] \ (skipped \ unsaved),
                          NEW tx \in Accepts[b]
                   PROVE  Stored(tx)
        OBVIOUS
      <4>1. CASE b \in Chain[pos]
        BY <2>1, <4>1 DEF StoredInv, Kept
      <4>2. CASE b \in Entering
        BY <1>1, <1>3, <2>1, <4>2 DEF StoredInv, Stored
      <4> QED
        BY <4>1, <4>2 DEF Entering
    <3>2. \A tx : Stored(tx)' <=> Stored(tx)
      BY <1>1 DEF Stored
    <3>3. \A b \in Kept' \cup (Chain[pos'] \ skipped') :
             b \in Chain[last] \ (skipped \ unsaved)
      BY <1>1, <1>2
    <3>4. vcp_checkpoint' # NoBlock =>
             \A b \in Chain[vcp_checkpoint'] \ skipped' :
                 \A tx \in Accepts[b] : Stored(tx)
      BY <1>1, <2>1, <3>1 DEF StoredInv
    <3> QED
      BY <1>1, <3>1, <3>2, <3>3, <3>4 DEF StoredInv
  <2> QED
    BY <2>3, <2>4, <2>5
<1>10. ASSUME ~On("TransactionAcceptance") PROVE MarksInv'
  <2>1. MarksInv /\ SavedInv
    BY <1>10
  <2>2. \A b \in Blocks : chain_rows[b] \in Nat /\ restarts \in Nat
    BY DEF TypeOK
  <2> SUFFICES ASSUME NEW b \in Blocks
               PROVE  /\ chain_rows[b] > 0 => b \in Chain[last] \cup lost'
                      /\ b \in Chain[last] \ (skipped \ unsaved) =>
                            chain_rows[b] > 0 \/ b \in lost'
                      /\ chain_rows[b] <= restarts + 1
                      /\ b \notin Chain[last] => chain_rows[b] <= restarts
    BY <1>1, <1>2, <1>3 DEF MarksInv
  <2>3. chain_rows[b] > 0 => b \in Chain[last] \cup lost'
    <3>1. chain_rows[b] > 0 =>
             b \in Chain[pos] \cup Chain[last] \cup lost /\ b \notin Leaving
      BY <1>3, <2>1 DEF MarksInv
    <3> QED
      BY <1>1, <2>1, <3>1 DEF SavedInv, Leaving, Entering
  <2>4. b \in Chain[last] \ (skipped \ unsaved) => chain_rows[b] > 0 \/ b \in lost'
    <3>1. CASE b \in Entering
      BY <1>1, <1>3, <2>1, <3>1 DEF MarksInv
    <3>2. CASE b \in Chain[pos] \cap Chain[last]
      BY <1>1, <2>1, <3>2 DEF MarksInv, SavedInv, Leaving, Entering, Kept
    <3> QED
      BY <3>1, <3>2 DEF Entering
  <2>5. b \notin Chain[last] => chain_rows[b] <= restarts
    <3>1. CASE b \in Leaving
      <4>1. ~(chain_rows[b] > 0)
        BY <1>3, <2>1, <3>1 DEF MarksInv
      <4> QED
        BY <2>2, <4>1
    <3>2. CASE b \notin Chain[pos] /\ b \notin Chain[last]
      BY <2>1, <3>2 DEF MarksInv
    <3> QED
      BY <3>1, <3>2 DEF Leaving
  <2> QED
    BY <2>1, <2>3, <2>4, <2>5 DEF MarksInv
<1> QED
  BY <1>5, <1>6, <1>7, <1>8, <1>9, <1>10

\* A start takes another block for pos.  What this passes over is skipped, or at
\* the saved position was applied before; what it leaves behind is lost, as is all
\* that was not saved.
LEMMA RestartInv ==
    ASSUME IndInv, NEW start \in Blocks, Restart(start)
    PROVE  IndInv'
<1> USE DEF IndInv
<1>1. /\ vfpc' = "poll" /\ start_hash' = start /\ pending' = <<>>
      /\ channel' = <<>> /\ ppc' = "recv" /\ added' = {} /\ last' = start
      /\ removed' = {} /\ acc_rows' = {} /\ tx_rows' = {} /\ addr_rows' = {}
      /\ mark_rows' = {} /\ tip_distance' = InitialDistance
      /\ restarts < MaxRestarts /\ restarts' = restarts + 1
      /\ pos' = start /\ unsaved' = {}
      /\ lost' = lost \cup unsaved \cup (Chain[pos] \ Chain[start])
      /\ UNCHANGED <<sink, acceptances, chain_rows, inputs, addresses,
                     vcp_checkpoint>>
  BY DEF Restart, tables
<1>2. \/ vcp_checkpoint # NoBlock /\ start = vcp_checkpoint /\ skipped' = skipped
      \/ skipped' = skipped \cup (Chain[start] \ Chain[pos])
  BY DEF Restart
<1>3. Leaving' = {} /\ Entering' = {} /\ ~Applying'
      /\ Kept' = Chain[start] \ skipped'
  BY <1>1 DEF Leaving, Entering, Applying, Kept
<1>4. TypeOK'
  <2>1. shutdown' \in BOOLEAN
    BY Zenon DEF Restart
  <2>2. pending' \in Seq(Response) /\ Len(pending') <= 1
        /\ channel' \in Seq(Response) /\ Len(channel') <= 1
    BY <1>1
  <2>3. skipped' \subseteq Blocks /\ lost' \subseteq Blocks
    BY <1>1, <1>2 DEF TypeOK
  <2>4. restarts' \in 0..MaxRestarts
    BY <1>1 DEF TypeOK
  <2> QED
    BY <1>1, <2>1, <2>2, <2>3, <2>4 DEF TypeOK
<1>5. LinkInv'
  BY <1>1 DEF LinkInv, ChannelEnd
<1>6. WorkInv' /\ SavedInv'
  BY <1>1, <1>3 DEF WorkInv, SavedInv
<1>7. ASSUME NEW b \in Chain[start] \ skipped', b \notin lost'
      PROVE  b \in Kept
  BY <1>1, <1>2, <1>7 DEF SavedInv, Leaving, Kept
<1>8. Chain[pos] \cup Chain[last] \cup lost \subseteq Chain[start] \cup lost'
  BY <1>1 DEF SavedInv, Entering
<1>9. ASSUME On("TransactionAcceptance") PROVE RowsInv' /\ AcceptedInv' /\ StoredInv'
  <2>1. RowsInv /\ AcceptedInv /\ StoredInv
    BY <1>9
  <2>2. RowsInv'
    BY <1>1, <1>3, <1>8, <2>1 DEF RowsInv
  <2>3. AcceptedInv'
    <3> SUFFICES ASSUME NEW tx \in Txs, NEW b \in Chain[start] \ skipped',
                        tx \in Accepts[b], b \notin lost'
                 PROVE  acceptances[tx] = b \/ acceptances[tx] \in lost'
      BY <1>1, <1>3 DEF AcceptedInv
    <3>1. b \in Kept
      BY <1>7
    <3> QED
      BY <1>1, <2>1, <3>1 DEF AcceptedInv
  <2>4. StoredInv'
    <3>1. \A tx : Stored(tx)' <=> Stored(tx)
      BY <1>1 DEF Stored
    <3>2. \A b \in Chain[start] \ skipped' : \A tx \in Accepts[b] : Stored(tx)
      BY <1>2, <2>1 DEF StoredInv
    <3>3. skipped \subseteq skipped'
      BY <1>2
    <3> QED
      BY <1>1, <1>3, <2>1, <3>1, <3>2, <3>3 DEF StoredInv
  <2> QED
    BY <2>2, <2>3, <2>4
<1>10. ASSUME ~On("TransactionAcceptance") PROVE MarksInv'
  <2>1. MarksInv
    BY <1>10
  <2>2. \A b \in Blocks : chain_rows[b] \in Nat /\ restarts \in Nat
    BY DEF TypeOK
  <2> SUFFICES ASSUME NEW b \in Blocks
               PROVE  /\ chain_rows[b] > 0 => b \in Chain[start] \cup lost'
                      /\ b \in Chain[start] \ skipped' =>
                            chain_rows[b] > 0 \/ b \in lost'
                      /\ chain_rows[b] <= restarts + 1
    BY <1>1, <1>3, <2>2 DEF MarksInv
  <2>3. chain_rows[b] > 0 => b \in Chain[start] \cup lost'
    BY <1>8, <2>1 DEF MarksInv
  <2>4. b \in Chain[start] \ skipped' => chain_rows[b] > 0 \/ b \in lost'
    BY <1>1, <1>7, <2>1 DEF MarksInv
  <2>5. chain_rows[b] <= restarts + 1
    BY <2>1 DEF MarksInv
  <2> QED
    BY <2>3, <2>4, <2>5
<1> QED
  BY <1>4, <1>5, <1>6, <1>9, <1>10

\* Every step preserves the invariant.
LEMMA NextIndInv == IndInv /\ [Next]_vars => IndInv'
<1> SUFFICES ASSUME IndInv, [Next]_vars
             PROVE  IndInv'
  OBVIOUS
<1>1. CASE UNCHANGED vars
  <2>1. UNCHANGED processorVars /\ UNCHANGED <<fetcherVars, channel, last>>
    BY <1>1 DEF vars, processorVars, workVars
  <2>2. TypeOK'
    BY <1>1 DEF IndInv, TypeOK, vars, fetcherVars, workVars, rowVars, tables,
                history
  <2> QED
    BY <2>1, <2>2, ProcessorFrame, LinkFrame DEF IndInv
<1>2. CASE Processor
  BY <1>2, ReceiveInv, RemoveChainBlocksInv, ChainBlocksRemovedInv,
     InsertTransactionAcceptancesInv, StoreInv, AddChainBlocksInv,
     ResponseAppliedInv, SaveVcpCheckpointInv DEF Processor
<1> QED
  BY <1>1, <1>2, EnvironmentInv, FetcherInv, StoreInv, RestartInv DEF Next

-----------------------------------------------------------------------------
(***************************************************************************)
(* The theorems                                                            *)
(***************************************************************************)

\* The inductive invariant holds in every reachable state.
LEMMA IndInvHolds == Spec => []IndInv
  BY InitIndInv, NextIndInv, PTL DEF Spec

\* Every variable keeps its type; in particular the channel and the sender never
\* hold more than one response each.
THEOREM ChainTypeCorrect == Spec => []TypeOK
<1>1. IndInv => TypeOK
  BY DEF IndInv
<1> QED
  BY <1>1, IndInvHolds, PTL

\* What the invariant says of the table when no response is being applied.
LEMMA IndInvExact ==
    (IndInv /\ ~Applying /\ On("TransactionAcceptance")) =>
        \A tx \in Txs \ Accepted(lost) :
            /\ \A b \in Indexed : tx \in Accepts[b] => acceptances[tx] = b
            /\ acceptances[tx] # NoBlock =>
                  /\ acceptances[tx] \in Chain[pos]
                  /\ tx \in Accepts[acceptances[tx]]
<1> SUFFICES ASSUME IndInv, ~Applying, On("TransactionAcceptance"),
                    NEW tx \in Txs \ Accepted(lost)
             PROVE  /\ \A b \in Indexed : tx \in Accepts[b] => acceptances[tx] = b
                    /\ acceptances[tx] # NoBlock =>
                          /\ acceptances[tx] \in Chain[pos]
                          /\ tx \in Accepts[acceptances[tx]]
  OBVIOUS
<1>1. RowsInv /\ AcceptedInv /\ last = pos /\ NoBlock \notin lost
  BY DEF IndInv, WorkInv, Applying, TypeOK
<1>2. \A b \in lost : tx \notin Accepts[b]
  BY AcceptedMember
<1>3. acceptances[tx] # NoBlock => tx \in Accepts[acceptances[tx]]
  BY <1>1 DEF RowsInv
<1>4. acceptances[tx] \notin lost
  BY <1>1, <1>2, <1>3
<1> QED
  BY <1>1, <1>2, <1>3, <1>4 DEF RowsInv, AcceptedInv, Indexed, Kept

\* Between two responses transactions_acceptances is the acceptance data of the
\* selected chain up to pos, but for the transactions of lost blocks: for every
\* sequence of reorganisations, failed saves and crashes in any step of
\* process_virtual_chain.
THEOREM AcceptancesAreExact == Spec => []AcceptancesExact
<1>1. IndInv => AcceptancesExact
  BY IndInvExact DEF Applying, AcceptancesExact
<1> QED
  BY <1>1, IndInvHolds, PTL

\* A saved vcp_checkpoint never claims more than was applied, at any moment.
THEOREM VcpCheckpointIsSafe == Spec => []VcpCheckpointSafe
<1>1. IndInv => VcpCheckpointSafe
  <2> SUFFICES ASSUME IndInv, vcp_checkpoint # NoBlock, On("TransactionAcceptance"),
                      NEW b \in Chain[vcp_checkpoint]
                                  \ (skipped \cup unsaved \cup lost),
                      NEW tx \in Accepts[b] \ Accepted(lost \cup unsaved)
               PROVE  acceptances[tx] = b
    BY DEF VcpCheckpointSafe
  <2>1. /\ RowsInv /\ AcceptedInv /\ SavedInv /\ NoBlock \notin lost
        /\ tx \in Txs
    BY DEF IndInv, TypeOK
  <2>2. b \in Kept
    BY <2>1 DEF SavedInv, Leaving, Kept
  <2>3. acceptances[tx] = b \/ acceptances[tx] \in lost
    BY <2>1, <2>2 DEF AcceptedInv
  <2>4. acceptances[tx] \notin lost
    <3> SUFFICES ASSUME acceptances[tx] \in lost PROVE FALSE
      OBVIOUS
    <3>1. tx \in Accepts[acceptances[tx]]
      BY <2>1 DEF RowsInv
    <3> QED
      BY <3>1, AcceptedMember
  <2> QED
    BY <2>3, <2>4
<1> QED
  BY <1>1, IndInvHolds, PTL

\* Between two responses every transaction accepted up to pos is stored with
\* resolved inputs and its addresses, whichever processor wrote the row first.
THEOREM AcceptedAreResolved == Spec => []AcceptedResolved
<1>1. IndInv => AcceptedResolved
  <2> SUFFICES ASSUME IndInv, ppc = "recv", On("TransactionAcceptance"),
                      NEW tx \in Accepted(Indexed)
               PROVE  Stored(tx)
    BY DEF AcceptedResolved, Stored
  <2>1. PICK b \in Indexed : tx \in Accepts[b]
    BY AcceptedMember
  <2>2. last = pos
    BY DEF IndInv, WorkInv, Applying
  <2> QED
    BY <2>1, <2>2 DEF IndInv, StoredInv, Indexed, Kept
<1> QED
  BY <1>1, IndInvHolds, PTL

\* With acceptance disabled the marks are those of the chain up to pos, but for
\* lost blocks, and a block has at most one for each life of the process.
THEOREM MarksAreExact == Spec => []MarksExact
<1>1. IndInv => MarksExact
  <2> SUFFICES ASSUME IndInv, ppc = "recv", ~On("TransactionAcceptance"),
                      NEW b \in Blocks \ lost
               PROVE  /\ b \in Indexed => chain_rows[b] > 0
                      /\ chain_rows[b] > 0 => b \in Chain[pos]
                      /\ chain_rows[b] <= 1 + restarts
    BY DEF MarksExact
  <2>1. /\ MarksInv /\ last = pos
        /\ chain_rows[b] \in Nat /\ restarts \in Nat
    BY DEF IndInv, WorkInv, Applying, TypeOK
  <2> QED
    BY <2>1 DEF MarksInv, Indexed, Kept
<1> QED
  BY <1>1, IndInvHolds, PTL

-----------------------------------------------------------------------------
(***************************************************************************)
(* The refinement                                                          *)
(***************************************************************************)

\* Steps of kaspad, the fetcher, the transaction processor and the signal handler
\* change nothing that ChainIndex speaks of,
LEMMA ElsewhereStutters ==
    ASSUME \/ \E b \in Blocks : VirtualChange(b)
           \/ Fetcher
           \/ \E tx \in Txs : InsertUnresolved(tx)
           \/ Shutdown
           \/ UNCHANGED vars
    PROVE  UNCHANGED <<acceptances, pos, last, vcp_checkpoint, skipped, unsaved, lost>>
  BY DEF VirtualChange, Fetcher, GetVirtualChain, Send, SendFails,
         BlockProcessorCaughtUp, FetcherStop, InsertUnresolved, Shutdown, vars,
         workVars, tables, history

\* ... and so do those of the processor between two of its statements, and those
\* that write other tables.
LEMMA ProcessorStutters ==
    ASSUME \/ ChainBlocksRemoved \/ UpsertTransactions \/ InsertAddressTransactions
           \/ AddChainBlocks \/ ResponseApplied \/ ProcessorStop
    PROVE  UNCHANGED <<acceptances, pos, last, vcp_checkpoint, skipped, unsaved, lost>>
  BY DEF ChainBlocksRemoved, UpsertTransactions, InsertAddressTransactions,
         AddChainBlocks, ResponseApplied, ProcessorStop, workVars, tables, history

\* A response that is received is where the index goes next.
LEMMA ReceiveLeaves ==
    ASSUME IndInv, Receive
    PROVE  last' \in Blocks /\ Index!Leave(last')
<1> DEFINE r == channel[1]
<1>1. /\ ppc = "recv" /\ channel # <<>> /\ last' = r.last
      /\ unsaved' = unsaved \cup r.removed \cup r.added
  BY FirstResponse DEF Receive, IndInv, TypeOK
<1>2. UNCHANGED <<acceptances, pos, vcp_checkpoint, skipped, lost>>
  BY DEF Receive, tables
<1>3. last = pos /\ r.last \in Blocks
  BY <1>1, FirstResponse DEF IndInv, WorkInv, Applying, TypeOK
<1>4. LeadsFrom(last, r)
  BY <1>1 DEF IndInv, LinkInv
<1> QED
  BY <1>1, <1>2, <1>3, <1>4 DEF LeadsFrom, Index!Leave

\* A DELETE concerns blocks that leave the chain.
LEMMA RemoveDeletes ==
    ASSUME IndInv, RemoveChainBlocks
    PROVE  \E bs \in SUBSET (Chain[pos] \ Chain[last]) : Index!Delete(bs)
<1>1. PICK chunk \in SUBSET removed \ {{}} :
          acceptances' = [tx \in Txs |-> IF acceptances[tx] \in chunk
                                         THEN NoBlock ELSE acceptances[tx]]
  BY DEF RemoveChainBlocks
<1>2. chunk \in SUBSET (Chain[pos] \ Chain[last])
  BY <1>1 DEF IndInv, WorkInv, Leaving
<1>3. UNCHANGED <<pos, last, vcp_checkpoint, skipped, unsaved, lost>>
  BY DEF RemoveChainBlocks, history
<1> QED
  BY <1>1, <1>2, <1>3 DEF Index!Delete

\* An INSERT gives transactions the block of the response that accepts them.
LEMMA AcceptancesInsert ==
    ASSUME IndInv, IndInv', InsertTransactionAcceptances
    PROVE  \E txs \in SUBSET Txs : Index!Insert(txs)
<1>1. PICK chunk \in SUBSET acc_rows \ {{}} :
          acceptances' = [tx \in Txs |-> IF tx \in chunk /\ acceptances[tx] = NoBlock
                                         THEN AcceptingBlock(tx) ELSE acceptances[tx]]
  BY DEF InsertTransactionAcceptances
<1>2. chunk \in SUBSET Txs /\ acceptances' \in [Txs -> Blocks \cup {NoBlock}]
  BY <1>1 DEF IndInv, TypeOK
<1>3. ASSUME NEW tx \in chunk
      PROVE  /\ AcceptingBlock(tx) \in Chain[last] \ Chain[pos]
             /\ tx \in Accepts[AcceptingBlock(tx)]
  <2>1. added = Chain[last] \ Chain[pos]
    BY DEF InsertTransactionAcceptances, IndInv, WorkInv, Applying, Entering
  <2>2. tx \in Accepted(added)
    BY <1>1, <2>1 DEF IndInv, WorkInv, Entering
  <2>3. \E b \in added : tx \in Accepts[b]
    BY <2>2, AcceptedMember
  <2>4. AcceptingBlock(tx) \in added /\ tx \in Accepts[AcceptingBlock(tx)]
    BY <2>3 DEF AcceptingBlock
  <2> QED
    BY <2>1, <2>4
<1>4. UNCHANGED <<pos, last, vcp_checkpoint, skipped, unsaved, lost>>
  BY DEF InsertTransactionAcceptances, history
<1>5. \A tx \in Txs :
         IF tx \in chunk /\ acceptances[tx] = NoBlock
         THEN acceptances'[tx] \in Chain[last] \ Chain[pos] /\ tx \in Accepts[acceptances'[tx]]
         ELSE acceptances'[tx] = acceptances[tx]
  BY <1>1, <1>3
<1> QED
  BY <1>2, <1>4, <1>5 DEF Index!Insert

\* Whether it is saved or not, the position moves when the table is exact.
LEMMA SaveArrives ==
    ASSUME IndInv, IndInv', On("TransactionAcceptance"),
           NEW ok \in BOOLEAN, SaveVcpCheckpoint(ok)
    PROVE  Index!Arrive(ok)
<1>1. /\ ppc = "save" /\ ~Applying'
      /\ pos' = last /\ lost' = lost \ unsaved
      /\ IF ok THEN /\ vcp_checkpoint' = last
                    /\ skipped' = skipped \ unsaved
                    /\ unsaved' = {}
         ELSE UNCHANGED <<vcp_checkpoint, skipped, unsaved>>
      /\ skipped' \ unsaved' = skipped \ unsaved
      /\ UNCHANGED <<acceptances, last>>
  BY DEF SaveVcpCheckpoint, Applying, workVars, tables
<1>2. last # pos
  BY <1>1 DEF IndInv, WorkInv, Applying, Entering
<1>3. (\A tx \in Txs \ Accepted(lost) :
          /\ \A b \in Indexed : tx \in Accepts[b] => acceptances[tx] = b
          /\ acceptances[tx] # NoBlock =>
                /\ acceptances[tx] \in Chain[pos]
                /\ tx \in Accepts[acceptances[tx]])'
  BY <1>1, IndInvExact, PTL
<1>4. \A tx : tx \in Accepted(lost') <=> \E b \in lost' : tx \in Accepts[b]
  BY AcceptedMember
<1>5. Index!Exact(last, lost')
  <2>1. \A tx \in Txs \ Accepted(lost') :
           /\ \A b \in Chain[last] \ (skipped \ unsaved) :
                 tx \in Accepts[b] => acceptances[tx] = b
           /\ acceptances[tx] # NoBlock =>
                 /\ acceptances[tx] \in Chain[last]
                 /\ tx \in Accepts[acceptances[tx]]
    BY <1>1, <1>3 DEF Indexed, Accepted
  <2>2. ASSUME NEW tx \in Txs, \A c \in lost' : tx \notin Accepts[c]
        PROVE  tx \in Txs \ Accepted(lost')
    BY <2>2, <1>4
  <2> QED
    BY <2>1, <2>2 DEF Index!Exact
<1> QED
  BY <1>1, <1>2, <1>5 DEF Index!Arrive

\* A restart is one of the index.
LEMMA RestartRestarts ==
    ASSUME NEW start \in Blocks, Restart(start)
    PROVE  Index!Restart(start)
  BY DEF Restart, tables, Index!Restart

\* Each step is one of the index, or none.
LEMMA RefinementStep ==
    ASSUME On("TransactionAcceptance"), IndInv, IndInv', [Next]_vars
    PROVE  [Index!Next]_(Index!vars)
<1>1. CASE UNCHANGED <<acceptances, pos, last, vcp_checkpoint, skipped, unsaved, lost>>
  BY <1>1 DEF Index!vars
<1>2. CASE Receive
  BY <1>2, ReceiveLeaves DEF Index!Next
<1>3. CASE RemoveChainBlocks
  BY <1>3, RemoveDeletes DEF Index!Next
<1>4. CASE InsertTransactionAcceptances
  BY <1>4, AcceptancesInsert DEF Index!Next
<1>5. CASE \E ok \in BOOLEAN : SaveVcpCheckpoint(ok)
  BY <1>5, SaveArrives DEF Index!Next
<1>6. CASE \E start \in Blocks : Restart(start)
  BY <1>6, RestartRestarts DEF Index!Next
<1> QED
  BY <1>1, <1>2, <1>3, <1>4, <1>5, <1>6, ElsewhereStutters, ProcessorStutters
     DEF Next, Processor

\* The virtual chain processor is an index that moves along the chain: at every
\* moment, in every response and after every crash, rows come and go only with
\* the blocks of the response at hand, and position and checkpoint move only when
\* the table is exact.  (process_virtual_chain)
THEOREM ChainImplementsIndex ==
    ASSUME On("TransactionAcceptance")
    PROVE  Spec => ImplementsChainIndex
<1>1. Init => Index!Init
  BY DEF Init, Index!Init
<1>2. IndInv /\ IndInv' /\ [Next]_vars => [Index!Next]_(Index!vars)
  BY RefinementStep
<1> QED
  BY <1>1, <1>2, IndInvHolds, PTL DEF Spec, ImplementsChainIndex, Index!Spec

=============================================================================
