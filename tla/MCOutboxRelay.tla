---------------------------- MODULE MCOutboxRelay ----------------------------
(* Small instances of OutboxRelay for TLC.  The relays are interchangeable   *)
(* in the safety run; the liveness run uses no symmetry.                     *)
EXTENDS OutboxRelay, TLC

Symmetry == Permutations(Relays)

=============================================================================
