------------------------ MODULE MCReservationPaging ------------------------
(***************************************************************************)
(* A small instance of ReservationPaging: more reservations than there are *)
(* times, so that some have the same.                                      *)
(***************************************************************************)
EXTENDS ReservationPaging, TLC

CONSTANTS i1, i2

MCSymmetry == Permutations({i1, i2})
=============================================================================
