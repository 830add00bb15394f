------------------------- MODULE CheckpointedIndex -------------------------
(***************************************************************************)
(* What the ingestion pipeline promises, with nothing of how it is done: an *)
(* index that only grows, and a checkpoint that is moved to a block only    *)
(* when that block and all of its past are in the index.  The past of a     *)
(* block that a start named explicitly is exempt.                           *)
(***************************************************************************)
CONSTANTS Blocks, Past, NoBlock, StartPoints

VARIABLES
    stored,      \* the blocks the index holds completely
    checkpoint,  \* where a restart resumes, or NoBlock
    skipped      \* blocks the index need not hold

vars == <<stored, checkpoint, skipped>>

Init ==
    /\ stored \in SUBSET Blocks
    /\ checkpoint = NoBlock
    /\ \E start \in StartPoints : skipped = Past[start]

\* Rows are written; nothing is lost.
Store ==
    /\ stored \subseteq stored'
    /\ stored' \subseteq Blocks
    /\ UNCHANGED <<checkpoint, skipped>>

\* The checkpoint moves to a block below which nothing is missing.
Save(b) ==
    /\ {b} \cup Past[b] \subseteq stored \cup skipped
    /\ checkpoint' = b
    /\ UNCHANGED <<stored, skipped>>

\* The indexer is started at a named block.
StartAt(start) ==
    /\ skipped' = skipped \cup Past[start]
    /\ UNCHANGED <<stored, checkpoint>>

Next ==
    \/ Store
    \/ \E b \in Blocks : Save(b)
    \/ \E start \in StartPoints : StartAt(start)

Spec == Init /\ [][Next]_vars

=============================================================================
