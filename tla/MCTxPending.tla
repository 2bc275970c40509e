---------------------------- MODULE MCTxPending ----------------------------
(* TxPending on a few transactions; the .cfg files give the constants.     *)
EXTENDS TxStatus

=============================================================================
