---------------------------- MODULE MCIdempotency ----------------------------
(* Small instances of Idempotency for TLC.  Liveness is checked in the same   *)
(* run as safety, so no symmetry is used.                                     *)
EXTENDS Idempotency, TLC
=============================================================================
