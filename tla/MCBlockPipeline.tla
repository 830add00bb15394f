-------------------------- MODULE MCBlockPipeline --------------------------
(***************************************************************************)
(* TLC instances of BlockPipeline.  Blocks 1 and 2 are parallel, block 3   *)
(* merges them; the last two carry the same transaction.                   *)
(***************************************************************************)
EXTENDS BlockPipeline, TLC

Merge == (1 :> {}) @@ (2 :> {}) @@ (3 :> {1, 2})
MergeTxs == (1 :> {}) @@ (2 :> {1}) @@ (3 :> {1})
MergeScore == (1 :> 0) @@ (2 :> 1) @@ (3 :> 2)
=============================================================================
