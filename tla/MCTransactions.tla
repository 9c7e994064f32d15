--------------------------- MODULE MCTransactions ---------------------------
(* Two threads, one Transaction object, as many handles as they can hold   *)
(* at once.                                                                *)
EXTENDS Transactions

=============================================================================
