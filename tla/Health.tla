------------------------------- MODULE Health -------------------------------
(***************************************************************************)
(* GET /api/health over the positions of Backpressure: how far behind      *)
(* kaspad's virtual DAA score the last block of each component is.  The    *)
(* request only reads; what it reads of the fetcher, of the queues and of  *)
(* the saved checkpoints may be as old as the last response and the last   *)
(* save, so any value they can have had is considered.                     *)
(***************************************************************************)
EXTENDS Backpressure, Integers

CONSTANTS
    NetBps,
    WarnLag,            \* 60 seconds
    CheckpointWarnLag,  \* 120 seconds
    DownLag             \* 600 seconds

ASSUME HealthAssumption ==
    /\ NetBps \in Nat \ {0}
    /\ WarnLag \in Nat /\ CheckpointWarnLag \in Nat /\ DownLag \in Nat
    /\ WarnLag <= CheckpointWarnLag /\ CheckpointWarnLag <= DownLag

\* Faulty: no data is no problem.
indexer_details_default_up(current_daa, warn, block) ==
    LET lag == (IF current_daa >= Daa[block] THEN current_daa - Daa[block] ELSE 0) \div NetBps
    IN  IF block = 0 \/ lag < warn THEN "UP"
        ELSE IF lag < DownLag THEN "WARN" ELSE "DOWN"

\* The difference saturates at zero; a component without a block, 0, is down.
indexer_details(current_daa, warn, block) ==
    LET lag == (IF current_daa >= Daa[block] THEN current_daa - Daa[block] ELSE 0) \div NetBps
    IN  IF block = 0 THEN "DOWN"
        ELSE IF lag < warn THEN "UP"
        ELSE IF lag < DownLag THEN "WARN" ELSE "DOWN"

\* Rounded to the nearest percent.
percent_allocation(alloc, cap) == (200 * alloc + cap) \div (2 * cap)

queue_details(alloc) == IF percent_allocation(alloc, QueueCap) < 90 THEN "UP" ELSE "WARN"

\* metrics.components: last_block of each component that is enabled.
Components(fetched) ==
    {fetched, b_last, t_last}
        \cup (IF On("VirtualChainProcessing") THEN {v_last} ELSE {})

\* indexer_health, with the memory and the pruner in order.
indexer_health(current_daa, fetched, queues, checkpoints) ==
    LET details == {indexer_details(current_daa, WarnLag, block) :
                            block \in Components(fetched)}
                   \cup {indexer_details(current_daa, CheckpointWarnLag, block) :
                            block \in checkpoints}
                   \cup {queue_details(alloc) : alloc \in queues}
    IN  IF "DOWN" \in details THEN "DOWN"
        ELSE IF "WARN" \in details THEN "WARN" ELSE "UP"

Indexed(i) ==
    /\ i <= b_committed
    /\ i <= t_committed
    /\ On("VirtualChainProcessing") => v_applied # 0 /\ Daa[i] <= Daa[v_applied]

\* What kaspad may answer for its virtual DAA score: above that of a block it knows.
VirtualDaa == {Daa[i] + 1 : i \in 1..tip}

\* The answer can be relied on, up to the disorder of the scores: when it is UP every
\* block older than the warn lag is indexed by all components, and while any block
\* older than the down lag is not, the answer is DOWN (503), whatever the fetcher, the
\* queues and the checkpoints look like.  A block is older than a lag when it is so by
\* more than Spread: one that was merged late may still be on its way behind a block
\* of a higher score, and the metrics do not tell.  (get_health, indexer_health)
HealthTruthful ==
    \A current \in VirtualDaa, fetched \in {0, t_pushed},
       queues \in {{0}, {QueueCap}}, checkpoints \in {{b_committed}, {tip}} :
        LET status == indexer_health(current, fetched, queues, checkpoints)
            Older(lag) == {i \in 1..tip : Daa[i] + Spread + lag * NetBps <= current}
        IN  /\ status = "UP" => \A i \in Older(WarnLag) : Indexed(i)
            /\ (\E i \in Older(DownLag) : ~Indexed(i)) => status = "DOWN"

=============================================================================
