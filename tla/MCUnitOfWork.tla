---------------------------- MODULE MCUnitOfWork ----------------------------
(* Small instances of UnitOfWork for TLC.  Sessions, writes and events are   *)
(* interchangeable, and so are the Unit of Work objects; the root tasks too. *)
EXTENDS UnitOfWork, TLC

Symmetry ==
    Permutations(Roots) \cup Permutations(Uows) \cup Permutations(Sessions)
        \cup Permutations(Writes) \cup Permutations(Events)

=============================================================================
