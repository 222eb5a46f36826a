--------------------------- MODULE MCOutboxRelay ---------------------------
(***************************************************************************)
(* Small instances of OutboxRelay: two instances of the service, and       *)
(* batches that are smaller than the backlog.                              *)
(***************************************************************************)
EXTENDS OutboxRelay

CONSTANTS p1, p2, i1, i2

=============================================================================
