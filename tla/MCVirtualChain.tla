--------------------------- MODULE MCVirtualChain ---------------------------
(***************************************************************************)
(* TLC instance of VirtualChain: two branches 1-2-4 and 1-3 that accept    *)
(* transaction 1 in different blocks; 2 is accepted on one of them only.   *)
(***************************************************************************)
EXTENDS VirtualChain, TLC

Branches == (1 :> {1}) @@ (2 :> {1, 2}) @@ (3 :> {1, 3}) @@ (4 :> {1, 2, 4})
Heights == (1 :> 0) @@ (2 :> 1) @@ (3 :> 1) @@ (4 :> 2)
BranchAccepts == (1 :> {}) @@ (2 :> {1}) @@ (3 :> {1}) @@ (4 :> {2})
=============================================================================
