------------------------------ MODULE MCPruner ------------------------------
(***************************************************************************)
(* TLC instances of Pruner.                                                *)
(***************************************************************************)
EXTENDS Pruner

\* Blocks expire first, so the retentions of the joined tables are cut, and addresses
\* are kept forever.
BlocksFirst ==
    [t \in Tables |-> CASE t = "blocks" -> 1
                        [] t = "addresses_transactions" -> None
                        [] OTHER -> 2]

\* The same with one block less: all that is below the checkpoint has expired, so two
\* positions are enough for a block to go while late rows of it are still to come.
AtOnce ==
    [t \in Tables |-> CASE t \in {"blocks", "transactions"} -> 0
                        [] t = "addresses_transactions" -> None
                        [] OTHER -> 1]
=============================================================================
