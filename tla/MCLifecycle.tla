---------------------------- MODULE MCLifecycle -----------------------------
(***************************************************************************)
(* TLC instance of Lifecycle.                                              *)
(***************************************************************************)
EXTENDS Lifecycle

AllFlags == [initialize_db : BOOLEAN, upgrade_db : BOOLEAN]
=============================================================================
