------------------------- MODULE BackpressureProofs -------------------------
(***************************************************************************)
(* The four waits of module Backpressure cannot close into a cycle, for    *)
(* every queue capacity, batch size and distance within MarginAssumption,  *)
(* and the answer of GET /api/health is truthful for every order of DAA    *)
(* scores, every rate of blocks and all limits of the lag.                 *)
(***************************************************************************)
EXTENDS Health, TLAPS

USE DaaAssumption, MarginAssumption

\* The initial state satisfies the invariant.
LEMMA InitIndInv == Init => IndInv
  BY DEF Init, IndInv, TypeOK, VcpInv, OrderInv, LastInv, Shows

\* What the metrics show is one of the two blocks, and not below either.
LEMMA LastBlock ==
    ASSUME NEW last \in 0..MaxTip, NEW block \in 1..MaxTip
    PROVE  LET new == update_last_block(last, block)
           IN  /\ new \in {last, block} /\ new # 0
               /\ Shows(new, block)
  BY DEF update_last_block, Shows

\* kaspad, the fetcher and the two processors preserve the types.
LEMMA PipelineType ==
    ASSUME TypeOK,
           \/ NewBlock \/ Fetcher \/ BlockProcessor \/ TransactionProcessor
    PROVE  TypeOK'
<1> USE DEF TypeOK, fetcherVars, blockVars, txVars, vcpVars
<1>1. CASE NewBlock
  BY <1>1 DEF NewBlock
<1>2. CASE PushBlock
  BY <1>2 DEF PushBlock
<1>3. CASE PushTransactions
  BY <1>3 DEF PushTransactions
<1>4. CASE \E commit \in BOOLEAN : PopBlock(commit)
  BY <1>4 DEF PopBlock
<1>5. CASE CommitBlocks
  <2>1. b_last' \in {b_last, b_popped}
    BY <1>5 DEF CommitBlocks, update_last_block
  <2> QED BY <1>5, <2>1 DEF CommitBlocks
<1>6. CASE \E commit \in BOOLEAN : PopTransactions(commit)
  BY <1>6 DEF PopTransactions
<1>7. CASE VcpCaughtUp
  BY <1>7 DEF VcpCaughtUp
<1>8. CASE CommitTransactions
  <2>1. t_last' \in {t_last, t_popped}
    BY <1>8 DEF CommitTransactions, update_last_block
  <2> QED BY <1>8, <2>1 DEF CommitTransactions
<1> QED
  BY <1>1, <1>2, <1>3, <1>4, <1>5, <1>6, <1>7, <1>8
     DEF Fetcher, BlockProcessor, TransactionProcessor

\* None of them touches the virtual chain processor.
LEMMA PipelineVcp ==
    ASSUME \/ NewBlock \/ Fetcher \/ BlockProcessor \/ TransactionProcessor
    PROVE  UNCHANGED vcpVars
  BY DEF Fetcher, BlockProcessor, TransactionProcessor, NewBlock, PushBlock,
         PushTransactions, PopBlock, CommitBlocks, PopTransactions,
         VcpCaughtUp, CommitTransactions

\* They show what process_blocks committed.
LEMMA PipelineShows ==
    ASSUME TypeOK, Shows(b_last, b_committed),
           \/ NewBlock \/ Fetcher \/ BlockProcessor \/ TransactionProcessor
    PROVE  Shows(b_last', b_committed')
<1>1. CASE CommitBlocks
  <2>1. /\ b_committed' = b_popped /\ b_last' = update_last_block(b_last, b_popped)
        /\ b_popped \in 0..MaxTip /\ b_last \in 0..MaxTip
    BY <1>1 DEF CommitBlocks, TypeOK
  <2>2. CASE b_popped = 0
    BY <2>1, <2>2 DEF Shows
  <2>3. CASE b_popped # 0
    BY <2>1, <2>3, LastBlock
  <2> QED BY <2>2, <2>3
<1>2. CASE ~CommitBlocks
  <2>1. UNCHANGED <<b_committed, b_last>>
    BY <1>2 DEF Fetcher, BlockProcessor, TransactionProcessor, NewBlock, PushBlock,
                PushTransactions, PopBlock, PopTransactions, VcpCaughtUp,
                CommitTransactions, blockVars
  <2> QED BY <2>1
<1> QED BY <1>1, <1>2

\* What append and tail do to the responses under way.
LEMMA AppendLast ==
    ASSUME NEW S, NEW s \in Seq(S), NEW e \in S
    PROVE  /\ Append(s, e) \in Seq(S)
           /\ Append(s, e) # <<>>
           /\ Len(Append(s, e)) = Len(s) + 1
           /\ Append(s, e)[Len(Append(s, e))] = e
  OBVIOUS

\* The last response stays last while the first is taken.
LEMMA TailLast ==
    ASSUME NEW S, NEW s \in Seq(S), s # <<>>
    PROVE  /\ Head(s) \in S
           /\ Tail(s) \in Seq(S)
           /\ Len(Tail(s)) = Len(s) - 1
           /\ Tail(s) = <<>> => Head(s) = s[Len(s)]
           /\ Tail(s) # <<>> => Tail(s)[Len(Tail(s))] = s[Len(s)]
<1>1. /\ Head(s) \in S /\ Head(s) = s[1]
      /\ Tail(s) \in Seq(S)
      /\ Len(s) \in Nat \ {0}
      /\ Len(Tail(s)) = Len(s) - 1
      /\ \A i \in 1..Len(Tail(s)) : Tail(s)[i] = s[i + 1]
  OBVIOUS
<1>2. ASSUME Tail(s) = <<>> PROVE Len(s) = 1
  <2>1. Len(<<>>) = 0
    OBVIOUS
  <2>2. Len(Tail(s)) = 0
    BY <1>2, <2>1, Zenon
  <2>3. Len(s) - 1 = 0 /\ Len(s) \in Nat
    BY <1>1, <2>2
  <2> QED
    BY <2>3
<1>3. ASSUME Tail(s) # <<>> PROVE Len(Tail(s)) \in 1..Len(Tail(s))
  BY <1>1, <1>3
<1> QED
  BY <1>1, <1>2, <1>3

\* A response joins the queue at its end.
LEMMA AppendOrder ==
    ASSUME NEW q \in Seq(Nat), NEW low \in Nat, NEW e \in Nat, low <= e,
           \A n \in 1..Len(q) :
              low <= q[n] /\ q[n] <= e /\ \A m \in 1..n : q[m] <= q[n]
    PROVE  LET new == Append(q, e)
           IN  \A n \in 1..Len(new) :
                  low <= new[n] /\ new[n] <= e /\ \A m \in 1..n : new[m] <= new[n]
<1> DEFINE new == Append(q, e)
<1>1. Len(q) \in Nat /\ Len(new) = Len(q) + 1 /\ new[Len(q) + 1] = e
  OBVIOUS
<1>2. \A n \in 1..Len(q) : new[n] = q[n] /\ q[n] \in Nat
  OBVIOUS
<1> HIDE DEF new
<1>3. ASSUME NEW n \in 1..Len(new) PROVE low <= new[n] /\ new[n] <= e /\ new[n] \in Nat
  <2>1. CASE n = Len(q) + 1
    BY <1>1, <2>1
  <2>2. CASE n \in 1..Len(q)
    BY <1>2, <2>2
  <2> QED BY <1>1, <2>1, <2>2
<1>4. ASSUME NEW n \in 1..Len(new), NEW m \in 1..n PROVE new[m] <= new[n]
  <2>1. CASE n = Len(q) + 1
    BY <1>1, <1>3, <2>1
  <2>2. CASE n \in 1..Len(q)
    BY <1>1, <1>2, <2>2
  <2> QED BY <1>1, <2>1, <2>2
<1> QED BY <1>3, <1>4 DEF new

\* The first one leaves it.
LEMMA TailOrder ==
    ASSUME NEW q \in Seq(Nat), q # <<>>, NEW e \in Nat,
           \A n \in 1..Len(q) : q[n] <= e /\ \A m \in 1..n : q[m] <= q[n]
    PROVE  LET new == Tail(q)
           IN  /\ Head(q) = q[1] /\ 1 \in 1..Len(q)
               /\ \A n \in 1..Len(new) :
                     Head(q) <= new[n] /\ new[n] <= e /\ \A m \in 1..n : new[m] <= new[n]
<1> DEFINE new == Tail(q)
<1>1. /\ Len(q) \in Nat \ {0} /\ Len(new) = Len(q) - 1 /\ Head(q) = q[1]
      /\ \A n \in 1..Len(new) : new[n] = q[n + 1]
  OBVIOUS
<1> HIDE DEF new
<1>2. ASSUME NEW n \in 1..Len(new) PROVE Head(q) <= new[n] /\ new[n] <= e
  <2>1. n + 1 \in 1..Len(q) /\ 1 \in 1..(n + 1)
    BY <1>1
  <2> QED BY <1>1, <2>1
<1>3. ASSUME NEW n \in 1..Len(new), NEW m \in 1..n PROVE new[m] <= new[n]
  <2>1. n + 1 \in 1..Len(q) /\ m + 1 \in 1..(n + 1) /\ m \in 1..Len(new)
    BY <1>1
  <2> QED BY <1>1, <2>1
<1> QED BY <1>1, <1>2, <1>3 DEF new

\* The steps of the virtual chain processor preserve the invariant.
LEMMA VcpIndInv ==
    ASSUME IndInv, VcpFetcher \/ ApplyResponse
    PROVE  IndInv'
<1> USE DEF fetcherVars, blockVars, txVars
<1>5. TypeOK /\ VcpInv /\ OrderInv /\ LastInv
  BY DEF IndInv
<1>6. /\ tip \in 0..MaxTip /\ v_fetched \in 0..tip
      /\ v_queue \in Seq(1..MaxTip) /\ v_queue \in Seq(Nat) /\ Len(v_queue) <= 2
      /\ v_applied \in 0..MaxTip /\ v_last \in 0..v_applied
  BY <1>5 DEF TypeOK
<1>1. CASE \E i \in 1..MaxTip : GetVirtualChain(i)
  <2>1. PICK i \in 1..MaxTip : GetVirtualChain(i)
    BY <1>1
  <2>2. /\ v_fetched < i /\ i <= tip /\ v_fetched' = i /\ vpc' = "send"
        /\ UNCHANGED <<tip, fetcherVars, blockVars, txVars, v_queue, v_applied, v_last>>
    BY <2>1 DEF GetVirtualChain
  <2>3. TypeOK'
    BY <1>5, <2>2 DEF TypeOK
  <2>4. OrderInv'
    <3>1. \A n \in 1..Len(v_queue) : v_queue[n] \in Nat /\ v_queue[n] <= v_fetched
      <4>1. \A n \in 1..Len(v_queue) : v_queue[n] \in Nat
        BY <1>6
      <4> QED BY <1>5, <4>1, Zenon DEF OrderInv
    <3>2. v_fetched \in Nat /\ i \in Nat /\ v_applied \in Nat
      BY <1>6
    <3>3. \A n \in 1..Len(v_queue) : v_queue[n] <= i
      BY <2>2, <3>1, <3>2
    <3>4. v_applied <= i
      BY <1>5, <2>2, <3>2 DEF OrderInv
    <3> QED BY <1>5, <2>2, <3>3, <3>4 DEF OrderInv
  <2> QED BY <1>5, <2>2, <2>3, <2>4 DEF IndInv, VcpInv, LastInv, Shows
<1>2. CASE Send
  <2>1. /\ v_fetched \in 1..MaxTip /\ Len(v_queue) < 2
        /\ v_queue' = Append(v_queue, v_fetched) /\ vpc' = "lag"
        /\ UNCHANGED <<tip, fetcherVars, blockVars, txVars, v_fetched, v_applied, v_last>>
    BY <1>2, <1>5 DEF Send, TypeOK
  <2>2. /\ v_queue' \in Seq(1..MaxTip) /\ Len(v_queue') <= 2
        /\ v_queue' # <<>>
        /\ v_queue'[Len(v_queue')] = v_fetched
    <3>3. LET new == Append(v_queue, v_fetched)
          IN  /\ new \in Seq(1..MaxTip) /\ new # <<>>
              /\ Len(new) = Len(v_queue) + 1
              /\ new[Len(new)] = v_fetched
      <4> DEFINE S == 1..MaxTip
      <4>1. v_queue \in Seq(S) /\ v_fetched \in S
        BY <1>6, <2>1
      <4> HIDE DEF S
      <4>2. /\ Append(v_queue, v_fetched) \in Seq(S)
            /\ Append(v_queue, v_fetched) # <<>>
            /\ Len(Append(v_queue, v_fetched)) = Len(v_queue) + 1
            /\ Append(v_queue, v_fetched)[Len(Append(v_queue, v_fetched))] = v_fetched
        BY <4>1, AppendLast
      <4> QED BY <4>2 DEF S
    <3>1. /\ v_queue' \in Seq(1..MaxTip) /\ v_queue' # <<>>
          /\ Len(v_queue') = Len(v_queue) + 1
          /\ v_queue'[Len(v_queue')] = v_fetched
      BY <2>1, <3>3
    <3>2. Len(v_queue) \in Nat
      BY <1>6
    <3> QED BY <2>1, <3>1, <3>2
  <2>3. TypeOK'
    BY <1>5, <2>1, <2>2 DEF TypeOK
  <2>4. OrderInv'
    <3>1. LET new == Append(v_queue, v_fetched)
          IN  \A n \in 1..Len(new) :
                 /\ v_applied <= new[n] /\ new[n] <= v_fetched
                 /\ \A m \in 1..n : new[m] <= new[n]
      <4>1. v_queue \in Seq(Nat) /\ v_applied \in Nat /\ v_fetched \in Nat
        BY <1>6
      <4>2. v_applied <= v_fetched
            /\ \A n \in 1..Len(v_queue) :
                  /\ v_applied <= v_queue[n] /\ v_queue[n] <= v_fetched
                  /\ \A m \in 1..n : v_queue[m] <= v_queue[n]
        BY <1>5 DEF OrderInv
      <4> QED BY <4>1, <4>2, AppendOrder, Zenon
    <3> QED BY <1>5, <2>1, <3>1 DEF OrderInv
  <2> QED BY <1>5, <2>1, <2>2, <2>3, <2>4 DEF IndInv, VcpInv, LastInv, Shows
<1>3. CASE BlockProcessorCaughtUp
  BY <1>3, <1>5 DEF BlockProcessorCaughtUp, IndInv, TypeOK, VcpInv, OrderInv, LastInv, Shows
<1>4. CASE ApplyResponse
  <2>1. /\ v_queue # <<>> /\ v_applied' = Head(v_queue) /\ v_queue' = Tail(v_queue)
        /\ v_last' = update_last_block(v_last, v_applied')
        /\ UNCHANGED <<tip, fetcherVars, blockVars, txVars, vpc, v_fetched>>
    BY <1>4 DEF ApplyResponse
  <2>2. /\ v_applied' \in 1..MaxTip
        /\ v_queue' \in Seq(1..MaxTip) /\ Len(v_queue') <= 2
        /\ v_queue' = <<>> => v_applied' = v_queue[Len(v_queue)]
        /\ v_queue' # <<>> => v_queue'[Len(v_queue')] = v_queue[Len(v_queue)]
    <3>1. /\ Head(v_queue) \in 1..MaxTip /\ Tail(v_queue) \in Seq(1..MaxTip)
          /\ Len(Tail(v_queue)) = Len(v_queue) - 1
          /\ Tail(v_queue) = <<>> => Head(v_queue) = v_queue[Len(v_queue)]
          /\ Tail(v_queue) # <<>> =>
                Tail(v_queue)[Len(Tail(v_queue))] = v_queue[Len(v_queue)]
      BY <1>6, <2>1, TailLast, Zenon
    <3>2. Len(v_queue) \in Nat
      BY <1>6
    <3>3. Len(v_queue) - 1 <= 2
      BY <1>6, <3>2
    <3> QED BY <2>1, <3>1, <3>3, Zenon
  <2>3. LET new == Tail(v_queue)
        IN  /\ Head(v_queue) = v_queue[1] /\ 1 \in 1..Len(v_queue)
            /\ \A n \in 1..Len(new) :
                  /\ Head(v_queue) <= new[n] /\ new[n] <= v_fetched
                  /\ \A m \in 1..n : new[m] <= new[n]
    <3>1. v_queue \in Seq(Nat) /\ v_fetched \in Nat
      BY <1>6
    <3>2. \A n \in 1..Len(v_queue) :
             v_queue[n] <= v_fetched /\ \A m \in 1..n : v_queue[m] <= v_queue[n]
      BY <1>5 DEF OrderInv
    <3>3. v_queue # <<>>
      BY <2>1
    <3> QED BY <3>1, <3>2, <3>3, TailOrder, Zenon
  <2>4. v_applied <= v_applied' /\ v_applied' <= v_fetched
    BY <1>5, <2>1, <2>3 DEF OrderInv
  <2>5. /\ v_last' \in {v_last, v_applied'} /\ Shows(v_last', v_applied')
    <3>1. v_last \in 0..MaxTip
      BY <1>6
    <3> QED BY <2>1, <2>2, <3>1, LastBlock
  <2>6. TypeOK'
    <3>1. v_last' \in 0..v_applied' /\ v_applied' \in 0..MaxTip
      <4>1. v_last \in Nat /\ v_applied \in Nat /\ v_last <= v_applied /\ v_applied' \in 1..MaxTip
        BY <1>6, <2>2
      <4> QED BY <2>4, <2>5, <4>1
    <3> QED BY <1>5, <2>1, <2>2, <3>1 DEF TypeOK
  <2>7. VcpInv'
    <3>1. vpc = "lag" => v_queue[Len(v_queue)] = v_fetched
      BY <1>5, <2>1 DEF VcpInv
    <3> QED BY <2>1, <2>2, <3>1 DEF VcpInv
  <2>8. OrderInv'
    BY <2>1, <2>3, <2>4 DEF OrderInv
  <2>9. LastInv'
    BY <1>5, <2>1, <2>5 DEF LastInv, Shows
  <2> QED
    BY <2>6, <2>7, <2>8, <2>9 DEF IndInv
<1> QED
  BY <1>1, <1>2, <1>3, <1>4 DEF VcpFetcher

\* Every step preserves the invariant.
LEMMA NextIndInv == IndInv /\ [Next]_vars => IndInv'
<1> SUFFICES ASSUME IndInv, [Next]_vars
             PROVE  IndInv'
  OBVIOUS
<1>1. CASE NewBlock \/ Fetcher \/ BlockProcessor \/ TransactionProcessor
  <2>1. TypeOK'
    BY <1>1, PipelineType DEF IndInv
  <2>2. VcpInv' /\ OrderInv' /\ Shows(v_last', v_applied')
    BY <1>1, PipelineVcp DEF IndInv, VcpInv, OrderInv, LastInv, vcpVars
  <2>3. Shows(b_last', b_committed')
    BY <1>1, PipelineShows DEF IndInv, LastInv
  <2> QED
    BY <2>1, <2>2, <2>3 DEF IndInv, LastInv, Shows
<1>2. CASE VcpFetcher \/ ApplyResponse
  BY <1>2, VcpIndInv
<1>3. CASE UNCHANGED vars
  BY <1>3 DEF IndInv, TypeOK, VcpInv, OrderInv, LastInv, Shows, vars, fetcherVars,
              blockVars, txVars, vcpVars
<1> QED
  BY <1>1, <1>2, <1>3 DEF Next

\* A closed cycle would put the committed block both above and below the batch
\* of process_transactions.
LEMMA IndInvImpliesNoCircularWait == IndInv => NoCircularWait
<1> SUFFICES ASSUME IndInv, FetcherBlocked, BlockProcessorStarved,
                    TransactionsHeldBack, VcpHeldBack
             PROVE  FALSE
  BY DEF NoCircularWait
<1>1. /\ b_popped = t_popped + QueueCap + 1
      /\ b_popped < b_committed + BlockBatch
  BY DEF FetcherBlocked, BlockProcessorStarved, IndInv, TypeOK
<1>2. /\ t_popped \in 1..MaxTip /\ b_committed \in 1..MaxTip
      /\ t_popped <= b_committed
  BY <1>1 DEF TransactionsHeldBack, IndInv, TypeOK
<1>3. v_applied = v_fetched /\ v_applied \in 1..MaxTip
  BY DEF VcpHeldBack, VcpInv, IndInv, TypeOK
<1>7. /\ v_last \in 1..MaxTip /\ b_last \in 1..MaxTip
      /\ Daa[v_applied] <= Daa[v_last] /\ Daa[b_committed] <= Daa[b_last]
  BY <1>2, <1>3 DEF LastInv, Shows, IndInv, TypeOK
<1>8. /\ Daa[v_applied] \in Nat /\ Daa[v_last] \in Nat /\ Daa[b_last] \in Nat
      /\ Daa[t_popped] \in Nat /\ Daa[b_committed] \in Nat
  BY <1>2, <1>3, <1>7
<1>4. ~(Daa[v_last] >= Daa[t_popped] + TxLag)
  BY <1>7 DEF TransactionsHeldBack, VcpAhead
<1>5. ~(Daa[v_applied] < Daa[b_last] + VcpLead)
  BY <1>3, <1>7 DEF VcpHeldBack, VcpNear
<1>6. Daa[t_popped] <= Daa[b_committed] + Spread
  BY <1>2
<1>9. TxLag \in Nat /\ VcpLead \in Nat /\ Spread \in Nat /\ TxLag + Spread <= VcpLead
  OBVIOUS
<1> HIDE DaaAssumption, MarginAssumption
<1> QED
  BY <1>4, <1>5, <1>6, <1>7, <1>8, <1>9

\* The positions keep their types and the queues and batches their bounds.
THEOREM PositionsTypeCorrect == Spec => []TypeOK
<1>1. IndInv => TypeOK
  BY DEF IndInv
<1> QED
  BY <1>1, InitIndInv, NextIndInv, PTL DEF Spec

\* For every capacity, batch size and distance within the margins, the fetcher,
\* process_transactions, the virtual chain processor and process_blocks never
\* wait for each other in a circle.
THEOREM NoCircularWaitHolds == Spec => []NoCircularWait
<1> QED
  BY InitIndInv, NextIndInv, IndInvImpliesNoCircularWait, PTL DEF Spec

-----------------------------------------------------------------------------
(***************************************************************************)
(* GET /api/health.  What is needed of the above is that the positions     *)
(* have their types (what a component shows, once it shows a block, is one *)
(* it is past), and that a score falls by at most Spread behind an earlier *)
(* block, so that a lag tells which blocks are behind it.                  *)
(***************************************************************************)

\* A whole number of seconds is below a limit exactly when the score is.
LEMMA LagBelow ==
    ASSUME NEW d \in Nat, NEW n \in Nat \ {0}, NEW w \in Nat
    PROVE  d \div n < w <=> d < w * n
<1> DEFINE q == d \div n
           r == d % n
<1>1. q \in Nat /\ r \in 0..(n - 1) /\ d = n * q + r
  BY SMT
<1> HIDE DEF q, r
<1>2. ASSUME q < w PROVE d < w * n
  <2>1. (q + 1) * n <= w * n
    BY <1>1, <1>2, SMT
  <2>2. (q + 1) * n = n * q + n
    BY <1>1, SMT
  <2> QED BY <1>1, <2>1, <2>2, SMT
<1>3. ASSUME w <= q PROVE w * n <= d
  <2>1. w * n <= q * n
    BY <1>1, <1>3, SMT
  <2> QED BY <1>1, <2>1, SMT
<1> QED BY <1>1, <1>2, <1>3, SMT DEF q

\* indexer_details in terms of scores: UP is less than the limit away from kaspad's
\* score; what has no block, or is DownLag away, is DOWN.
LEMMA Details ==
    ASSUME NEW current \in Nat, NEW warn \in Nat, warn <= DownLag, NEW block \in 0..MaxTip
    PROVE  /\ indexer_details(current, warn, block) = "UP" =>
                 block # 0 /\ current < Daa[block] + warn * NetBps
           /\ block = 0 => indexer_details(current, warn, block) = "DOWN"
           /\ block # 0 /\ Daa[block] + DownLag * NetBps <= current =>
                 indexer_details(current, warn, block) = "DOWN"
<1>1. CASE block = 0
  BY <1>1 DEF indexer_details
<1>2. CASE block # 0
  <2> DEFINE d == IF current >= Daa[block] THEN current - Daa[block] ELSE 0
  <2>1. Daa[block] \in Nat
    BY <1>2, DaaAssumption
  <2>2. d \in Nat
    BY <2>1
  <2>3. /\ d \div NetBps < warn <=> d < warn * NetBps
        /\ d \div NetBps < DownLag <=> d < DownLag * NetBps
    BY <2>2, HealthAssumption, LagBelow
  <2>4. warn * NetBps \in Nat /\ DownLag * NetBps \in Nat /\ warn * NetBps <= DownLag * NetBps
    BY HealthAssumption, SMT
  <2>5. indexer_details(current, warn, block) =
            IF d \div NetBps < warn THEN "UP"
            ELSE IF d \div NetBps < DownLag THEN "WARN" ELSE "DOWN"
    BY <1>2 DEF indexer_details
  <2>6. indexer_details(current, warn, block) =
            IF d < warn * NetBps THEN "UP"
            ELSE IF d < DownLag * NetBps THEN "WARN" ELSE "DOWN"
    BY <2>3, <2>5
  <2> QED BY <1>2, <2>1, <2>4, <2>6
<1> QED BY <1>1, <1>2

\* The three answers, from the details of the components.
LEMMA Answer ==
    ASSUME NEW current, NEW fetched, NEW queues, NEW checkpoints,
           NEW block \in Components(fetched)
    PROVE  /\ indexer_health(current, fetched, queues, checkpoints) = "UP" =>
                 indexer_details(current, WarnLag, block) = "UP"
           /\ indexer_details(current, WarnLag, block) = "DOWN" =>
                 indexer_health(current, fetched, queues, checkpoints) = "DOWN"
<1>1. indexer_details(current, WarnLag, block) \in {"UP", "WARN", "DOWN"}
  BY DEF indexer_details
<1> DEFINE details ==
        {indexer_details(current, WarnLag, b) : b \in Components(fetched)}
          \cup {indexer_details(current, CheckpointWarnLag, b) : b \in checkpoints}
          \cup {queue_details(alloc) : alloc \in queues}
<1>2. indexer_details(current, WarnLag, block) \in details
  OBVIOUS
<1>3. indexer_health(current, fetched, queues, checkpoints) =
          IF "DOWN" \in details THEN "DOWN"
          ELSE IF "WARN" \in details THEN "WARN" ELSE "UP"
  BY DEF indexer_health
<1> HIDE DEF details
<1> QED BY <1>1, <1>2, <1>3

\* The positions that the answer reads.
LEMMA ComponentTypes ==
    ASSUME TypeOK
    PROVE  /\ tip \in 0..MaxTip
           /\ b_committed \in 0..MaxTip /\ b_last \in 0..b_committed
           /\ t_committed \in 0..MaxTip /\ t_last \in 0..t_committed
           /\ v_applied \in 0..MaxTip /\ v_last \in 0..v_applied
BY DaaAssumption DEF TypeOK

\* A component that shows a block no later than i is behind i but for the Spread.
LEMMA Earlier ==
    ASSUME NEW i \in 1..MaxTip, NEW last \in 0..MaxTip, last < i
    PROVE  last # 0 => Daa[last] <= Daa[i] + Spread
  BY DaaAssumption

\* A block that is not indexed is ahead of some component: it shows none, or its score
\* is above that of the block by at most Spread.
LEMMA BehindIt ==
    ASSUME TypeOK, NEW fetched, NEW i \in 1..MaxTip, ~Indexed(i)
    PROVE  \E block \in Components(fetched) :
              block \in 0..MaxTip /\ (block # 0 => Daa[block] <= Daa[i] + Spread)
<1>0. /\ b_last \in Components(fetched) /\ t_last \in Components(fetched)
      /\ On("VirtualChainProcessing") => v_last \in Components(fetched)
  BY DEF Components
<1>4. /\ b_committed \in 0..MaxTip /\ b_last \in 0..b_committed
      /\ t_committed \in 0..MaxTip /\ t_last \in 0..t_committed
      /\ v_applied \in 0..MaxTip /\ v_last \in 0..v_applied
  BY ComponentTypes
<1>1. CASE b_committed < i
  <2>1. b_last \in 0..MaxTip /\ b_last < i
    BY <1>1, <1>4
  <2> QED BY <1>0, <2>1, Earlier
<1>2. CASE t_committed < i
  <2>1. t_last \in 0..MaxTip /\ t_last < i
    BY <1>2, <1>4
  <2> QED BY <1>0, <2>1, Earlier
<1>3. CASE /\ On("VirtualChainProcessing")
           /\ v_applied = 0 \/ ~(Daa[i] <= Daa[v_applied])
  <2>1. v_last \in Components(fetched) /\ v_last \in 0..MaxTip
    BY <1>0, <1>3, <1>4
  <2>2. ASSUME v_last # 0 PROVE Daa[v_last] <= Daa[i] + Spread
    <3>1. v_last \in 1..MaxTip /\ v_applied \in 1..MaxTip /\ v_last <= v_applied
      BY <1>4, <2>2
    <3>2. Daa[v_last] <= Daa[v_applied] + Spread /\ ~(Daa[i] <= Daa[v_applied])
      BY <1>3, <3>1, DaaAssumption
    <3>3. /\ Daa[v_last] \in Nat /\ Daa[v_applied] \in Nat /\ Daa[i] \in Nat
          /\ Spread \in Nat
      BY <3>1, DaaAssumption
    <3> HIDE DaaAssumption, MarginAssumption
    <3> QED BY <3>2, <3>3
  <2> QED BY <2>1, <2>2
<1>5. ~(i <= b_committed) \/ ~(i <= t_committed)
      \/ (On("VirtualChainProcessing") /\ (v_applied = 0 \/ ~(Daa[i] <= Daa[v_applied])))
  BY DEF Indexed
<1> QED BY <1>1, <1>2, <1>3, <1>4, <1>5

\* A score a that is at most s above b is below c by the lag l if b is by s and l.
LEMMA LagCarries ==
    ASSUME NEW a \in Nat, NEW b \in Nat, NEW s \in Nat, NEW l \in Nat, NEW c \in Nat,
           a <= b + s, b + s + l <= c
    PROVE  a + l <= c /\ ~(c < a + l)
OBVIOUS

\* Both directions of the answer, from the types.
LEMMA TypesMakeHealthTruthful == TypeOK => HealthTruthful
<1> SUFFICES ASSUME TypeOK,
                    NEW current \in VirtualDaa, NEW fetched \in {0, t_pushed},
                    NEW queues \in {{0}, {QueueCap}},
                    NEW checkpoints \in {{b_committed}, {tip}}
             PROVE  LET status == indexer_health(current, fetched, queues, checkpoints)
                        Older(lag) ==
                            {i \in 1..tip : Daa[i] + Spread + lag * NetBps <= current}
                    IN  /\ status = "UP" => \A i \in Older(WarnLag) : Indexed(i)
                        /\ (\E i \in Older(DownLag) : ~Indexed(i)) => status = "DOWN"
  BY DEF HealthTruthful
<1> DEFINE status == indexer_health(current, fetched, queues, checkpoints)
           Older(lag) == {i \in 1..tip : Daa[i] + Spread + lag * NetBps <= current}
<1>1. tip \in 0..MaxTip /\ current \in Nat
  <2>1. tip \in 0..MaxTip
    BY ComponentTypes
  <2>2. \A i \in 1..tip : Daa[i] + 1 \in Nat
    BY <2>1, DaaAssumption
  <2> QED BY <2>1, <2>2 DEF VirtualDaa
<1>2. WarnLag \in Nat /\ WarnLag <= DownLag
  BY HealthAssumption
<1>3. WarnLag * NetBps \in Nat /\ DownLag * NetBps \in Nat /\ Spread \in Nat
  BY HealthAssumption, DaaAssumption, SMT
<1>4. ASSUME status = "UP", NEW i \in Older(WarnLag), ~Indexed(i) PROVE FALSE
  <2>1. i \in 1..MaxTip /\ Daa[i] \in Nat /\ Daa[i] + Spread + WarnLag * NetBps <= current
    BY <1>1, DaaAssumption
  <2>2. PICK block \in Components(fetched) :
            block \in 0..MaxTip /\ (block # 0 => Daa[block] <= Daa[i] + Spread)
    BY <1>4, <2>1, BehindIt
  <2>3. block # 0 /\ current < Daa[block] + WarnLag * NetBps
    BY <1>1, <1>2, <1>4, <2>2, Answer, Details
  <2>4. Daa[block] \in Nat
    BY <2>2, <2>3, DaaAssumption
  <2>5. Daa[block] <= Daa[i] + Spread
    BY <2>2, <2>3, Zenon
  <2>6. ~(current < Daa[block] + WarnLag * NetBps)
    BY <1>1, <1>3, <2>1, <2>4, <2>5, LagCarries, Zenon
  <2> QED BY <2>3, <2>6, Zenon
<1>5. ASSUME NEW i \in Older(DownLag), ~Indexed(i) PROVE status = "DOWN"
  <2>1. i \in 1..MaxTip /\ Daa[i] \in Nat /\ Daa[i] + Spread + DownLag * NetBps <= current
    BY <1>1, DaaAssumption
  <2>2. PICK block \in Components(fetched) :
            block \in 0..MaxTip /\ (block # 0 => Daa[block] <= Daa[i] + Spread)
    BY <1>5, <2>1, BehindIt
  <2>3. block # 0 => Daa[block] \in Nat
    BY <2>2, DaaAssumption
  <2>4. block # 0 => Daa[block] + DownLag * NetBps <= current
    BY <1>1, <1>3, <2>1, <2>2, <2>3, LagCarries, Zenon
  <2>5. indexer_details(current, WarnLag, block) = "DOWN"
    BY <1>1, <1>2, <2>2, <2>4, Details
  <2> QED BY <2>2, <2>5, Answer
<1> QED BY <1>4, <1>5

\* GET /api/health can be relied on, in whatever order the scores come: UP is only
\* answered when every block older than the warn lag, and than the Spread of the order
\* on top of it, is indexed by all components, and DOWN whenever a block older than the
\* down lag and the Spread is not.  (get_health, indexer_health, update_last_block)
THEOREM HealthIsTruthful == Spec => []HealthTruthful
BY PositionsTypeCorrect, TypesMakeHealthTruthful, PTL

=============================================================================
