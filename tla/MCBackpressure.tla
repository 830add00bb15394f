--------------------------- MODULE MCBackpressure ---------------------------
(***************************************************************************)
(* TLC instance of Backpressure and Health: DAA scores with a block that   *)
(* comes after one of a higher score, far from zero as they are on any     *)
(* network.  Four blocks, what a queue holds and one more, always raise    *)
(* the score by TxLag.                                                     *)
(***************************************************************************)
EXTENDS Health

Scores == <<101, 102, 104, 103, 104, 105, 106>>
=============================================================================
