--------------------------- MODULE MCRelaySession ---------------------------
(* Small instances of RelaySession and its receipts for TLC. *)
EXTENDS RelayReceipt

=============================================================================
